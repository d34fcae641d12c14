-------------------------- MODULE ChartRedrawProofs --------------------------
(***************************************************************************)
(* Theorems about ChartRedraw, for any finite set of series, any data and  *)
(* any sizes.                                                              *)
(***************************************************************************)
EXTENDS ChartRedraw, FiniteSetTheorems, WellFoundedInduction, TLAPS

-----------------------------------------------------------------------------
(* Extremes                                                                *)

LEMMA ImageIsFinite ==
  ASSUME NEW S, IsFiniteSet(S), NEW f, f = [x \in S |-> f[x]]
  PROVE  IsFiniteSet({f[x] : x \in S})
<1> DEFINE T == {f[x] : x \in S}
<1>1. f \in Surjection(S, T)
  BY DEF Surjection
<1> HIDE DEF T
<1>2. IsFiniteSet(T)
  BY <1>1, FS_Surjection
<1> QED
  BY <1>2 DEF T

LEMMA GreatestExists ==
  ASSUME NEW T \in SUBSET Nat, IsFiniteSet(T), T # {}
  PROVE  \E x \in T : \A y \in T : x >= y
<1> DEFINE Beyond(n) == {y \in T : y > n}
           F == {Beyond(n) : n \in T}
<1>1. F \subseteq FiniteSubsetsOf(T) /\ F # {}
  <2>1. ASSUME NEW n \in T PROVE Beyond(n) \in SUBSET T /\ IsFiniteSet(Beyond(n))
    BY FS_Subset
  <2> QED
    BY <2>1 DEF FiniteSubsetsOf
<1>2. PICK A \in F : \A B \in F : <<B, A>> \notin StrictSubsetOrdering(T)
  <2> HIDE DEF F
  <2> QED
    BY <1>1, FS_StrictSubsetOrderingWellFounded, WFMin
<1>3. PICK x \in T : A = Beyond(x)
  OBVIOUS
<1>4. ASSUME NEW y \in T, y > x PROVE FALSE
  <2>0. x \in Nat /\ y \in Nat
    OBVIOUS
  <2>1. Beyond(y) \subseteq Beyond(x) /\ y \in Beyond(x) /\ y \notin Beyond(y)
    <3>1. \A z \in T : z > y => z > x
      BY <1>4, <2>0
    <3>2. ~(y > y)
      BY <2>0
    <3> QED
      BY <1>4, <3>1, <3>2
  <2>2. Beyond(y) \in F /\ Beyond(y) \in SUBSET T /\ A \in SUBSET T
    BY <1>3
  <2> HIDE DEF Beyond, F
  <2>3. <<Beyond(y), A>> \in StrictSubsetOrdering(T)
    BY <1>3, <2>1, <2>2 DEF StrictSubsetOrdering
  <2> QED
    BY <1>2, <2>2, <2>3
<1> QED
  BY <1>4

LEMMA MaxOfType ==
  ASSUME NEW T \in SUBSET Nat, IsFiniteSet(T)
  PROVE  MaxOf(T) \in Nat \cup {None}
<1>1. CASE T = {}
  BY <1>1 DEF MaxOf
<1>2. CASE T # {}
  <2>1. Max(T) \in T
    BY <1>2, GreatestExists DEF Max
  <2> QED
    BY <1>2, <2>1 DEF MaxOf
<1> QED
  BY <1>1, <1>2

Held(k) == \A s \in k.series : k.data[s] \in Data

Base(k) == k \in Charts /\ Held(k)

LEMMA DataTypes ==
  ASSUME NEW d \in Data
  PROVE  /\ d \in Seq(Nat) /\ Len(d) \in Nat /\ Len(d) >= 6
         /\ DOMAIN d = 1 .. Len(d)
         /\ \A i \in DOMAIN d : d[i] \in Nat
<1>1. d \in Seq(Nat) /\ Len(d) \in 6 .. 300
  BY RedrawAssumption
<1>2. Len(d) \in Nat /\ Len(d) >= 6
  <2>1. \A n \in 6 .. 300 : n \in Nat /\ n >= 6
    OBVIOUS
  <2> QED
    BY <1>1, <2>1
<1>3. DOMAIN d = 1 .. Len(d) /\ \A i \in DOMAIN d : d[i] \in Nat
  BY <1>1
<1> QED
  BY <1>1, <1>2, <1>3

LEMMA InReachType ==
  ASSUME NEW d \in Data, NEW max
  PROVE  InReach(d, max) \subseteq DOMAIN d /\ IsFiniteSet(InReach(d, max))
<1>1. InReach(d, max) \subseteq DOMAIN d
  BY DataTypes DEF InReach
<1>2. IsFiniteSet(1 .. Len(d))
  BY DataTypes, FS_Interval
<1>3. IsFiniteSet(DOMAIN d)
  BY <1>2, DataTypes
<1> QED
  BY <1>1, <1>3, FS_Subset

LEMMA ExtremeType ==
  ASSUME NEW k, Base(k), NEW a \in Axes
  PROVE  ExtremeOf(k, a) \in Nat \cup {None}
<1>0. IsFiniteSet(Drawn(k)) /\ \A s \in Drawn(k) : k.data[s] \in Data
  <2>1. Drawn(k) \in SUBSET Series
    BY DEF Base, Charts, Drawn
  <2> QED
    BY <2>1, RedrawAssumption, FS_Subset DEF Base, Held, Drawn
<1>1. CASE k.user[a] # None
  BY <1>1 DEF ExtremeOf, Base, Charts, Extremes
<1>2. CASE k.user[a] = None /\ a = "x"
  <2> DEFINE T == {Len(k.data[s]) : s \in Drawn(k)}
  <2>1. IsFiniteSet(T)
    <3> DEFINE f == [s \in Drawn(k) |-> Len(k.data[s])]
    <3>1. f = [s \in Drawn(k) |-> f[s]] /\ T = {f[s] : s \in Drawn(k)}
      OBVIOUS
    <3> HIDE DEF f, T
    <3> QED
      BY <1>0, <3>1, ImageIsFinite
  <2>2. T \in SUBSET Nat
    BY <1>0, DataTypes
  <2>3. ExtremeOf(k, a) = MaxOf(T)
    BY <1>2 DEF ExtremeOf
  <2> HIDE DEF T
  <2> QED
    BY <2>1, <2>2, <2>3, MaxOfType
<1>3. CASE k.user[a] = None /\ a = "y"
  <2> DEFINE Values(s) == {k.data[s][i] : i \in InReach(k.data[s], k.ext["x"])}
             V == {Values(s) : s \in Drawn(k)}
             T == UNION V
  <2>1. \A s \in Drawn(k) : IsFiniteSet(Values(s)) /\ Values(s) \subseteq Nat
    <3> SUFFICES ASSUME NEW s \in Drawn(k)
                 PROVE  IsFiniteSet(Values(s)) /\ Values(s) \subseteq Nat
      OBVIOUS
    <3> DEFINE d == k.data[s]
               I == InReach(d, k.ext["x"])
    <3>1. d \in Data
      BY <1>0
    <3> HIDE DEF d
    <3>2. I \subseteq DOMAIN d /\ IsFiniteSet(I)
      BY <3>1, InReachType
    <3> HIDE DEF I
    <3>3. IsFiniteSet({d[i] : i \in I})
      <4> DEFINE f == [i \in I |-> d[i]]
      <4>1. f = [i \in I |-> f[i]] /\ {d[i] : i \in I} = {f[i] : i \in I}
        OBVIOUS
      <4> HIDE DEF f
      <4> QED
        BY <3>2, <4>1, ImageIsFinite
    <3>4. {d[i] : i \in I} \subseteq Nat
      BY <3>1, <3>2, DataTypes
    <3> QED
      BY <3>3, <3>4 DEF d, I
  <2> HIDE DEF Values
  <2>2. IsFiniteSet(V)
    <3> DEFINE f == [s \in Drawn(k) |-> Values(s)]
    <3>1. f = [s \in Drawn(k) |-> f[s]] /\ V = {f[s] : s \in Drawn(k)}
      OBVIOUS
    <3> HIDE DEF f, V
    <3> QED
      BY <1>0, <3>1, ImageIsFinite
  <2>3. IsFiniteSet(T)
    BY <2>1, <2>2, FS_UNION
  <2>4. T \in SUBSET Nat
    BY <2>1
  <2>5. ExtremeOf(k, a) = MaxOf(T)
    BY <1>3 DEF ExtremeOf, Values
  <2> HIDE DEF T
  <2> QED
    BY <2>3, <2>4, <2>5, MaxOfType
<1> QED
  BY <1>1, <1>2, <1>3 DEF Axes

(* What an extreme is computed from                                        *)
LEMMA ExtremeSame ==
  ASSUME NEW j, NEW k, NEW a \in Axes,
         j.user[a] = k.user[a], j.data = k.data,
         j.series = k.series, j.visible = k.visible,
         a = "y" => j.ext["x"] = k.ext["x"] \/ k.series = {}
  PROVE  ExtremeOf(j, a) = ExtremeOf(k, a)
<1>1. Drawn(j) = Drawn(k) /\ (k.series = {} => Drawn(k) = {})
  BY DEF Drawn
<1>2. CASE k.user[a] # None
  BY <1>2 DEF ExtremeOf
<1>3. CASE k.user[a] = None /\ a = "x"
  BY <1>1, <1>3 DEF ExtremeOf
<1>4. CASE k.user[a] = None /\ a = "y" /\ j.ext["x"] = k.ext["x"]
  BY <1>1, <1>4 DEF ExtremeOf
<1>5. CASE k.user[a] = None /\ a = "y" /\ k.series = {}
  BY <1>1, <1>5 DEF ExtremeOf
<1> QED
  BY <1>2, <1>3, <1>4, <1>5 DEF Axes

-----------------------------------------------------------------------------
(* Scaling                                                                 *)

(* What setScale() leaves alone                                            *)
SameChart(j, k) ==
  /\ j.series = k.series /\ j.visible = k.visible /\ j.data = k.data
  /\ j.points = k.points /\ j.gone = k.gone /\ j.undrawn = k.undrawn
  /\ j.user = k.user /\ j.dirty = k.dirty /\ j.isDirtyBox = k.isDirtyBox
  /\ j.isDirtyLegend = k.isDirtyLegend /\ j.isResizing = k.isResizing
  /\ j.size = k.size /\ j.plot = k.plot /\ j.legend = k.legend
  /\ j.picture = k.picture /\ j.axisPicture = k.axisPicture
  /\ j.owed = k.owed

LEMMA SetScaleFields ==
  ASSUME NEW k, Base(k), NEW a \in Axes, NeedsScale(k, a)
  PROVE  LET v == SetScale(k, a)
         IN /\ Base(v) /\ SameChart(v, k)
            /\ v.ext = [k.ext EXCEPT ![a] = ExtremeOf(k, a)]
            /\ v.oldUser = [k.oldUser EXCEPT ![a] = k.user[a]]
            /\ v.stretch = k.stretch \ {a}
            /\ v.force = k.force \ {a}
            /\ v.missed = k.missed \ {a}
            /\ v.axisDirty = IF ExtremeOf(k, a) # k.ext[a] \/ a \in k.stretch
                               THEN k.axisDirty \cup {a} ELSE k.axisDirty
<1> DEFINE max == ExtremeOf(k, a)
           v == [k EXCEPT !.force = @ \ {a},
                          !.ext[a] = max,
                          !.oldUser[a] = k.user[a],
                          !.stretch = @ \ {a},
                          !.axisDirty = IF max # k.ext[a] \/ a \in k.stretch
                                          THEN @ \cup {a} ELSE @,
                          !.missed = @ \ {a}]
<1>1. SetScale(k, a) = v
  BY DEF SetScale
<1>2. max \in Nat \cup {None} /\ k \in Charts
  BY ExtremeType DEF Base
<1> HIDE DEF max
<1>3. v \in Charts
  BY <1>2, ZenonT(60) DEF Charts, Extremes
<1>4. SameChart(v, k)
  BY <1>2 DEF Charts, SameChart
<1>5. /\ v.ext = [k.ext EXCEPT ![a] = max]
      /\ v.oldUser = [k.oldUser EXCEPT ![a] = k.user[a]]
      /\ v.stretch = k.stretch \ {a}
      /\ v.force = k.force \ {a}
      /\ v.missed = k.missed \ {a}
      /\ v.axisDirty = IF max # k.ext[a] \/ a \in k.stretch
                         THEN k.axisDirty \cup {a} ELSE k.axisDirty
  BY <1>2 DEF Charts
<1> HIDE DEF v
<1>6. Held(v)
  BY <1>4 DEF SameChart, Held, Base
<1> QED
  BY <1>1, <1>3, <1>4, <1>5, <1>6 DEF Base, max

LEMMA SetScaleBase ==
  ASSUME NEW k, Base(k), NEW a \in Axes
  PROVE  /\ Base(SetScale(k, a)) /\ SameChart(SetScale(k, a), k)
         /\ SetScale(k, a).missed \subseteq k.missed
<1>1. CASE NeedsScale(k, a)
  <2>1. /\ Base(SetScale(k, a)) /\ SameChart(SetScale(k, a), k)
        /\ SetScale(k, a).missed = k.missed \ {a}
    BY <1>1, SetScaleFields
  <2> QED
    BY <2>1
<1>2. CASE ~NeedsScale(k, a)
  <2>1. SetScale(k, a) = k
    BY <1>2 DEF SetScale
  <2> QED
    BY <2>1 DEF SameChart
<1> QED
  BY <1>1, <1>2

(* The box and the axes will be drawn by the next redraw.                  *)
Framed(k) == k.isDirtyBox \/ k.axisDirty # {}

PlotOf(k) == [size |-> k.size, legend |-> k.legend, labels |-> LabelRoom(k)]

(* The reasons to scale an axis other than a new userMax                   *)
Marked(k, a) ==
  \/ a \in k.stretch
  \/ k.series \cap k.dirty # {}
  \/ k.series # {} /\ "x" \in k.axisDirty
  \/ a \in k.force

(* The extreme the axis should have but for a new userMax                  *)
OldExtreme(k, a) == ExtremeOf([k EXCEPT !.user = k.oldUser], a)

(* An axis without the extreme of the present data is marked, or will be   *)
(* because x is marked and changes, or was missed.  userMax has to be left *)
(* out here: it may be changed and changed back before a redraw.           *)
Scales(k) ==
  \A a \in Axes : \/ k.ext[a] = OldExtreme(k, a)
                  \/ Marked(k, a)
                  \/ a \in k.missed
                  \/ a = "y" /\ "x" \in k.stretch /\ k.series # {}

(* What is not marked is drawn from present values.                        *)
Drawings(k) ==
  /\ k.isDirtyLegend => k.isDirtyBox
  /\ ~k.isDirtyLegend => k.legend = k.series
  /\ ~Framed(k) =>
       /\ k.plot = PlotOf(k)
       /\ \A a \in Axes : k.axisPicture[a] = [max |-> k.ext[a], plot |-> k.plot]
       /\ \A s \in Drawn(k) \ k.dirty :
            k.picture[s] = [data |-> k.data[s], ext |-> k.ext, plot |-> k.plot]

(* The points of a series that was not given other values since it was     *)
(* drawn are those of its data; otherwise they are all destroyed or the    *)
(* first ones of its data.                                                 *)
Alive(k, s) ==
  /\ s \notin k.gone => k.points[s] <= Len(k.data[s])
  /\ s \notin k.undrawn => s \notin k.gone /\ k.points[s] = Len(k.data[s])

(* Hidden series included.  A series given other values is marked, so that *)
(* a redraw that draws it makes its points anew.                           *)
Lively(k) ==
  /\ k.undrawn \subseteq k.series \cap k.dirty
  /\ \A s \in k.series : Alive(k, s)

LEMMA LivelySame ==
  ASSUME NEW j, NEW k, Lively(k),
         j.series = k.series, j.data = k.data, j.points = k.points,
         j.gone = k.gone, j.undrawn = k.undrawn,
         k.series \cap k.dirty \subseteq j.dirty
  PROVE  Lively(j)
<1>1. j.undrawn \subseteq j.series \cap j.dirty
  BY DEF Lively
<1>2. \A s \in j.series : Alive(j, s)
  BY DEF Lively, Alive
<1> QED
  BY <1>1, <1>2 DEF Lively

(* What is to be shown of a change of one series                           *)
LEMMA OthersLively ==
  ASSUME NEW j, NEW k, Lively(k), NEW s,
         j.undrawn \subseteq j.series,
         s \in j.series => s \in j.dirty /\ Alive(j, s),
         \A t \in j.series \ {s} :
           /\ t \in k.series /\ (t \in k.dirty => t \in j.dirty)
           /\ j.data[t] = k.data[t] /\ j.points[t] = k.points[t]
           /\ t \in j.gone <=> t \in k.gone
           /\ t \in j.undrawn <=> t \in k.undrawn
  PROVE  Lively(j)
<1>1. j.undrawn \subseteq j.series \cap j.dirty
  BY DEF Lively
<1>2. \A t \in j.series : Alive(j, t)
  BY DEF Lively, Alive
<1> QED
  BY <1>1, <1>2 DEF Lively

(* The axis a has its extreme and will keep it.                            *)
ScaledFor(k, a) ==
  /\ k.ext[a] = ExtremeOf(k, a) \/ a \in k.missed
  /\ k.oldUser[a] = k.user[a]
  /\ a \notin k.stretch

LEMMA OldExtremeIs ==
  ASSUME NEW k, Base(k), NEW a \in Axes, k.oldUser[a] = k.user[a]
  PROVE  OldExtreme(k, a) = ExtremeOf(k, a)
<1> DEFINE j == [k EXCEPT !.user = k.oldUser]
<1>1. /\ j.user[a] = k.user[a] /\ j.data = k.data
      /\ j.series = k.series /\ j.visible = k.visible /\ j.ext = k.ext
  BY DEF Base, Charts
<1> HIDE DEF j
<1>2. ExtremeOf(j, a) = ExtremeOf(k, a)
  BY <1>1, ExtremeSame
<1> QED
  BY <1>2 DEF OldExtreme, j

LEMMA OldExtremeSame ==
  ASSUME NEW j, NEW k, NEW a \in Axes, j \in Charts, k \in Charts,
         j.oldUser[a] = k.oldUser[a], j.data = k.data,
         j.series = k.series, j.visible = k.visible,
         a = "y" => j.ext["x"] = k.ext["x"] \/ k.series = {}
  PROVE  OldExtreme(j, a) = OldExtreme(k, a)
<1> DEFINE jj == [j EXCEPT !.user = j.oldUser]
           kk == [k EXCEPT !.user = k.oldUser]
<1>1. /\ jj.user[a] = kk.user[a] /\ jj.data = kk.data
      /\ jj.series = kk.series /\ jj.visible = kk.visible
      /\ a = "y" => jj.ext["x"] = kk.ext["x"] \/ kk.series = {}
  BY DEF Charts
<1> HIDE DEF jj, kk
<1>2. ExtremeOf(jj, a) = ExtremeOf(kk, a)
  BY <1>1, ExtremeSame
<1> QED
  BY <1>2 DEF OldExtreme, jj, kk

LEMMA NeedsScaleIs ==
  ASSUME NEW k, NEW a
  PROVE  NeedsScale(k, a) <=> (Marked(k, a) \/ k.user[a] # k.oldUser[a])
BY DEF NeedsScale, Marked

(* Scaling x leaves y marked if y depends on what has changed.             *)
LEMMA ScaleX ==
  ASSUME NEW k, Base(k), Scales(k)
  PROVE  LET v == SetScale(k, "x") IN Scales(v) /\ ScaledFor(v, "x")
<1> DEFINE v == SetScale(k, "x")
<1>0. "x" \in Axes /\ "y" \in Axes
  BY DEF Axes
<1>1. CASE ~NeedsScale(k, "x")
  <2>1. v = k
    BY <1>1 DEF SetScale
  <2>2. ~Marked(k, "x") /\ k.oldUser["x"] = k.user["x"]
    BY <1>1, NeedsScaleIs
  <2>3. k.ext["x"] = OldExtreme(k, "x") \/ "x" \in k.missed
    BY <1>0, <2>2 DEF Scales
  <2> QED
    BY <1>0, <2>1, <2>2, <2>3, OldExtremeIs DEF ScaledFor, Marked
<1>2. CASE NeedsScale(k, "x")
  <2> DEFINE max == ExtremeOf(k, "x")
  <2>1. /\ Base(v) /\ SameChart(v, k)
        /\ v.ext = [k.ext EXCEPT !["x"] = max]
        /\ v.oldUser = [k.oldUser EXCEPT !["x"] = k.user["x"]]
        /\ v.stretch = k.stretch \ {"x"}
        /\ v.force = k.force \ {"x"}
        /\ v.missed = k.missed \ {"x"}
        /\ v.axisDirty = IF max # k.ext["x"] \/ "x" \in k.stretch
                           THEN k.axisDirty \cup {"x"} ELSE k.axisDirty
    BY <1>0, <1>2, SetScaleFields
  <2> HIDE DEF v
  <2>2. /\ v.ext["x"] = max /\ v.oldUser["x"] = k.user["x"]
        /\ v.ext["y"] = k.ext["y"] /\ v.oldUser["y"] = k.oldUser["y"]
    BY <2>1 DEF Base, Charts, Extremes, Axes
  <2>3. ExtremeOf(v, "x") = max
    BY <1>0, <2>1, ExtremeSame DEF SameChart
  <2>4. ScaledFor(v, "x")
    BY <2>1, <2>2, <2>3 DEF ScaledFor, SameChart
  <2>5. v.ext["x"] = OldExtreme(v, "x")
    <3>1. Base(v) /\ v.oldUser["x"] = v.user["x"]
      BY <2>1, <2>2 DEF SameChart
    <3>2. OldExtreme(v, "x") = ExtremeOf(v, "x")
      BY <1>0, <3>1, OldExtremeIs
    <3> QED
      BY <2>2, <2>3, <3>2
  <2>6. \/ v.ext["y"] = OldExtreme(v, "y") \/ Marked(v, "y") \/ "y" \in v.missed
    <3>1. CASE Marked(v, "y") \/ "y" \in v.missed
      BY <3>1
    <3>2. CASE ~Marked(v, "y") /\ "y" \notin v.missed
      <4>1. v.series # {} => max = k.ext["x"] /\ "x" \notin k.stretch
        BY <2>1, <3>2 DEF Marked
      <4>2. ~Marked(k, "y") /\ "y" \notin k.missed
        BY <2>1, <3>2 DEF Marked, SameChart
      <4>3. k.ext["y"] = OldExtreme(k, "y")
        BY <1>0, <2>1, <4>1, <4>2 DEF Scales, SameChart
      <4>4. OldExtreme(v, "y") = OldExtreme(k, "y")
        <5>1. /\ v \in Charts /\ k \in Charts
              /\ v.data = k.data /\ v.series = k.series /\ v.visible = k.visible
          BY <2>1 DEF Base, SameChart
        <5>2. v.ext["x"] = k.ext["x"] \/ k.series = {}
          BY <2>2, <4>1, <5>1
        <5> QED
          BY <1>0, <2>2, <5>1, <5>2, OldExtremeSame
      <4> QED
        BY <2>2, <4>3, <4>4
    <3> QED
      BY <3>1, <3>2
  <2>7. Scales(v)
    BY <2>5, <2>6 DEF Scales, Axes
  <2> QED
    BY <2>4, <2>7 DEF v
<1> QED
  BY <1>1, <1>2

LEMMA ScaleY ==
  ASSUME NEW k, Base(k), Scales(k), ScaledFor(k, "x")
  PROVE  LET v == SetScale(k, "y") IN ScaledFor(v, "x") /\ ScaledFor(v, "y")
<1> DEFINE v == SetScale(k, "y")
<1>0. "x" \in Axes /\ "y" \in Axes
  BY DEF Axes
<1>1. CASE ~NeedsScale(k, "y")
  <2>1. v = k
    BY <1>1 DEF SetScale
  <2>2. ~Marked(k, "y") /\ k.oldUser["y"] = k.user["y"]
    BY <1>1, NeedsScaleIs
  <2>3. k.ext["y"] = OldExtreme(k, "y") \/ "y" \in k.missed
    BY <1>0, <2>2 DEF Scales, ScaledFor
  <2> QED
    BY <1>0, <2>1, <2>2, <2>3, OldExtremeIs DEF ScaledFor, Marked
<1>2. CASE NeedsScale(k, "y")
  <2> DEFINE max == ExtremeOf(k, "y")
  <2>1. /\ Base(v) /\ SameChart(v, k)
        /\ v.ext = [k.ext EXCEPT !["y"] = max]
        /\ v.oldUser = [k.oldUser EXCEPT !["y"] = k.user["y"]]
        /\ v.stretch = k.stretch \ {"y"}
        /\ v.force = k.force \ {"y"}
        /\ v.missed = k.missed \ {"y"}
        /\ v.axisDirty = IF max # k.ext["y"] \/ "y" \in k.stretch
                           THEN k.axisDirty \cup {"y"} ELSE k.axisDirty
    BY <1>0, <1>2, SetScaleFields
  <2> HIDE DEF v
  <2>2. /\ v.ext["y"] = max /\ v.oldUser["y"] = k.user["y"]
        /\ v.ext["x"] = k.ext["x"] /\ v.oldUser["x"] = k.oldUser["x"]
    BY <2>1 DEF Base, Charts, Extremes, Axes
  <2>3. ExtremeOf(v, "y") = max /\ ExtremeOf(v, "x") = ExtremeOf(k, "x")
    <3>1. /\ v.data = k.data /\ v.series = k.series /\ v.visible = k.visible
          /\ v.user = k.user /\ v.ext["x"] = k.ext["x"]
      BY <2>1, <2>2 DEF SameChart
    <3> QED
      BY <1>0, <3>1, ExtremeSame
  <2> QED
    BY <2>1, <2>2, <2>3 DEF ScaledFor, SameChart, v
<1> QED
  BY <1>1, <1>2

(* Scaling an axis anew marks it.                                          *)
LEMMA SetScaleDrawings ==
  ASSUME NEW k, Base(k), NEW a \in Axes, Drawings(k), Lively(k)
  PROVE  Drawings(SetScale(k, a)) /\ Lively(SetScale(k, a))
<1> DEFINE v == SetScale(k, a)
           max == ExtremeOf(k, a)
<1>1. CASE ~NeedsScale(k, a)
  <2>1. v = k
    BY <1>1 DEF SetScale
  <2> QED
    BY <2>1
<1>2. CASE NeedsScale(k, a)
  <2>1. /\ SameChart(v, k)
        /\ v.ext = [k.ext EXCEPT ![a] = max]
        /\ v.axisDirty = IF max # k.ext[a] \/ a \in k.stretch
                           THEN k.axisDirty \cup {a} ELSE k.axisDirty
    BY <1>2, SetScaleFields, ZenonT(60)
  <2> HIDE DEF v
  <2>2. ~Framed(v) => ~Framed(k) /\ max = k.ext[a]
    BY <2>1 DEF Framed, SameChart
  <2>3. k.ext = [b \in Axes |-> k.ext[b]]
    BY DEF Base, Charts, Extremes
  <2>4. ~Framed(v) => v.ext = k.ext
    BY <2>1, <2>2, <2>3
  <2>5. Drawn(v) = Drawn(k)
    BY <2>1 DEF SameChart, Drawn
  <2>6. Drawings(v)
    <3>1. CASE Framed(v)
      BY <2>1, <3>1 DEF Drawings, SameChart
    <3>2. CASE ~Framed(v)
      BY <2>1, <2>2, <2>4, <2>5, <3>2 DEF Drawings, SameChart, PlotOf, LabelRoom
    <3> QED
      BY <3>1, <3>2
  <2>7. Lively(v)
    BY <2>1, LivelySame DEF SameChart
  <2> QED
    BY <2>6, <2>7 DEF v
<1> QED
  BY <1>1, <1>2

-----------------------------------------------------------------------------
(* Redrawing                                                               *)

(* What no part of a redraw changes                                        *)
SameData(j, k) ==
  /\ j.series = k.series /\ j.visible = k.visible /\ j.data = k.data
  /\ j.user = k.user /\ j.isResizing = k.isResizing /\ j.size = k.size
  /\ j.owed = k.owed

(* What drawing does not change                                            *)
SameScale(j, k) ==
  /\ j.ext = k.ext /\ j.oldUser = k.oldUser
  /\ j.force = k.force /\ j.missed = k.missed

LEMMA RenderLegendKeeps ==
  ASSUME NEW k, Base(k), Drawings(k), Lively(k)
  PROVE  LET v == RenderLegend(k)
         IN /\ Base(v) /\ Drawings(v) /\ Lively(v)
            /\ SameData(v, k) /\ SameScale(v, k)
            /\ v.stretch = k.stretch /\ v.dirty = k.dirty
            /\ v.axisDirty = k.axisDirty
            /\ ~v.isDirtyLegend
<1> DEFINE v == RenderLegend(k)
<1>1. CASE ~k.isDirtyLegend
  <2>1. v = k
    BY <1>1 DEF RenderLegend
  <2> QED
    BY <1>1, <2>1 DEF SameData, SameScale
<1>2. CASE k.isDirtyLegend
  <2>1. v = [k EXCEPT !.legend = k.series, !.isDirtyLegend = FALSE]
    BY <1>2 DEF RenderLegend
  <2>2. v \in Charts
    BY <2>1, ZenonT(60) DEF Base, Charts
  <2>3. /\ SameData(v, k) /\ SameScale(v, k)
        /\ v.stretch = k.stretch /\ v.dirty = k.dirty /\ v.points = k.points
        /\ v.gone = k.gone /\ v.undrawn = k.undrawn
        /\ v.axisDirty = k.axisDirty /\ v.isDirtyBox = k.isDirtyBox
        /\ ~v.isDirtyLegend /\ v.legend = k.series
    BY <2>1 DEF Base, Charts, SameData, SameScale
  <2> HIDE DEF v
  <2>4. Framed(v)
    BY <1>2, <2>3 DEF Framed, Drawings
  <2>5. Lively(v)
    BY <2>3, LivelySame DEF SameData
  <2> QED
    BY <2>2, <2>3, <2>4, <2>5 DEF Base, Held, Drawings, Drawn, SameData, v
<1> QED
  BY <1>1, <1>2

LEMMA ScaledKeeps ==
  ASSUME NEW k, Base(k), Drawings(k), Lively(k), ~k.isDirtyLegend
  PROVE  LET v == Scaled(k)
         IN /\ Base(v) /\ Drawings(v) /\ Lively(v)
            /\ SameData(v, k) /\ v.dirty = k.dirty /\ ~v.isDirtyLegend
            /\ v.missed \subseteq k.missed
            /\ k.isResizing # 0 => v = k
            /\ k.isResizing = 0 /\ Scales(k) =>
                 \A a \in Axes : ScaledFor(v, a)
<1> DEFINE v == Scaled(k)
<1>0. "x" \in Axes /\ "y" \in Axes
  BY DEF Axes
<1>1. CASE k.isResizing # 0
  <2>1. v = k
    BY <1>1 DEF Scaled
  <2> QED
    BY <1>1, <2>1 DEF SameData
<1>2. CASE k.isResizing = 0
  <2> DEFINE x == SetScale(k, "x")
             y == SetScale(x, "y")
  <2>1. v = y
    BY <1>2 DEF Scaled
  <2>2. /\ Base(x) /\ SameChart(x, k) /\ Drawings(x) /\ Lively(x)
        /\ x.missed \subseteq k.missed
    BY <1>0, SetScaleBase, SetScaleDrawings
  <2>3. Scales(k) => Scales(x) /\ ScaledFor(x, "x")
    BY ScaleX
  <2> HIDE DEF x
  <2>4. /\ Base(y) /\ SameChart(y, x) /\ Drawings(y) /\ Lively(y)
        /\ y.missed \subseteq x.missed
    BY <1>0, <2>2, SetScaleBase, SetScaleDrawings
  <2>5. Scales(k) => ScaledFor(y, "x") /\ ScaledFor(y, "y")
    BY <2>2, <2>3, ScaleY
  <2> HIDE DEF y, v
  <2>6. SameData(y, k) /\ y.dirty = k.dirty /\ ~y.isDirtyLegend
    BY <2>2, <2>4 DEF SameChart, SameData
  <2> QED
    BY <1>2, <2>1, <2>2, <2>4, <2>5, <2>6 DEF Axes, v
<1> QED
  BY <1>1, <1>2

LEMMA GetMarginsKeeps ==
  ASSUME NEW k, Base(k), Drawings(k), Lively(k)
  PROVE  LET v == GetMargins(k)
         IN /\ Base(v) /\ Drawings(v) /\ Lively(v)
            /\ SameData(v, k) /\ SameScale(v, k)
            /\ v.dirty = k.dirty /\ v.isDirtyLegend = k.isDirtyLegend
            /\ v.stretch = {} /\ v.plot = PlotOf(v)
<1> DEFINE v == GetMargins(k)
<1>1. v = [k EXCEPT !.plot = PlotOf(k), !.stretch = {}]
  BY DEF GetMargins, PlotOf
<1>2. PlotOf(k) \in Plots
  BY DEF PlotOf, Plots, LabelRoom, Base, Charts, Extremes, Axes
<1>3. v \in Charts
  BY <1>1, <1>2 DEF Base, Charts
<1>4. /\ SameData(v, k) /\ SameScale(v, k)
      /\ v.dirty = k.dirty /\ v.points = k.points /\ v.gone = k.gone
      /\ v.undrawn = k.undrawn
      /\ v.axisDirty = k.axisDirty /\ v.isDirtyBox = k.isDirtyBox
      /\ v.isDirtyLegend = k.isDirtyLegend /\ v.legend = k.legend
      /\ v.picture = k.picture /\ v.axisPicture = k.axisPicture
      /\ v.plot = PlotOf(k) /\ v.stretch = {}
  BY <1>1 DEF Base, Charts, SameData, SameScale
<1> HIDE DEF v
<1>5. PlotOf(v) = PlotOf(k)
  BY <1>4 DEF PlotOf, LabelRoom, SameData, SameScale
<1>6. Framed(v) = Framed(k) /\ Drawn(v) = Drawn(k)
  BY <1>4 DEF Framed, Drawn, SameData
<1>7. Drawings(v)
  BY <1>4, <1>5, <1>6 DEF Drawings, SameData, SameScale
<1>8. Lively(v)
  BY <1>4, LivelySame DEF SameData
<1> QED
  BY <1>3, <1>4, <1>5, <1>7, <1>8 DEF Base, Held, SameData, v

LEMMA DrawFrameKeeps ==
  ASSUME NEW k, Base(k), Drawings(k), Lively(k), k.plot = PlotOf(k),
         ~k.isDirtyLegend
  PROVE  LET v == DrawFrame(k)
         IN /\ Base(v) /\ Drawings(v) /\ Lively(v)
            /\ SameData(v, k) /\ SameScale(v, k)
            /\ v.stretch = k.stretch /\ ~v.isDirtyLegend
            /\ ~Framed(v)
<1> DEFINE v == DrawFrame(k)
<1>1. CASE ~Framed(k)
  <2>1. v = k
    BY <1>1 DEF DrawFrame, Framed
  <2> QED
    BY <1>1, <2>1 DEF SameData, SameScale
<1>2. CASE Framed(k)
  <2> DEFINE pictures == [a \in Axes |-> [max |-> k.ext[a], plot |-> k.plot]]
  <2>1. v = [[k EXCEPT !.axisPicture = pictures, !.axisDirty = {},
                       !.dirty = @ \cup k.series]
               EXCEPT !.isDirtyBox = FALSE]
    BY <1>2 DEF DrawFrame, DrawChartBox, DrawAxes, Framed
  <2>2. pictures \in [Axes -> [max : Nat \cup {None}, plot : Plots] \cup {None}]
    BY DEF Base, Charts, Extremes
  <2>3. \A a \in Axes : pictures[a] = [max |-> k.ext[a], plot |-> k.plot]
    OBVIOUS
  <2> HIDE DEF pictures
  <2>4. v \in Charts
    <3>1. k.dirty \cup k.series \in SUBSET Series /\ {} \in SUBSET Axes
      BY DEF Base, Charts
    <3> QED
      BY <2>1, <2>2, <3>1, ZenonT(60) DEF Base, Charts
  <2>5. /\ SameData(v, k) /\ SameScale(v, k)
        /\ v.dirty = k.dirty \cup k.series
        /\ v.points = k.points /\ v.gone = k.gone /\ v.undrawn = k.undrawn
        /\ v.axisDirty = {} /\ ~v.isDirtyBox
        /\ v.isDirtyLegend = k.isDirtyLegend /\ v.legend = k.legend
        /\ v.axisPicture = pictures /\ v.plot = k.plot /\ v.stretch = k.stretch
    BY <2>1 DEF Base, Charts, SameData, SameScale
  <2> HIDE DEF v
  <2>6. PlotOf(v) = PlotOf(k)
    BY <2>5 DEF PlotOf, LabelRoom, SameData, SameScale
  <2>7. Drawn(v) \ v.dirty = {} /\ ~Framed(v)
    BY <2>5 DEF Framed, Drawn, SameData
  <2>8. Drawings(v)
    BY <2>3, <2>5, <2>6, <2>7 DEF Drawings, SameData, SameScale
  <2>9. Lively(v)
    BY <2>5, LivelySame DEF SameData
  <2> QED
    BY <2>4, <2>5, <2>7, <2>8, <2>9 DEF Base, Held, SameData, v
<1> QED
  BY <1>1, <1>2

LEMMA DrawSeriesKeeps ==
  ASSUME NEW k, Base(k), Drawings(k), Lively(k), ~Framed(k),
         ~k.isDirtyLegend
  PROVE  LET v == DrawSeries(k)
         IN /\ Base(v) /\ Drawings(v) /\ Lively(v)
            /\ SameData(v, k) /\ SameScale(v, k)
            /\ v.stretch = k.stretch /\ ~v.isDirtyLegend
            /\ ~Framed(v) /\ Drawn(v) \cap v.dirty = {}
<1> DEFINE v == DrawSeries(k)
           drawing == k.dirty \cap Drawn(k)
           lengths == [s \in Series |-> IF s \in drawing THEN Len(k.data[s])
                                        ELSE k.points[s]]
           drawn == [s \in Series |->
                       IF s \in drawing
                         THEN [data |-> k.data[s], ext |-> k.ext, plot |-> k.plot]
                       ELSE k.picture[s]]
<1>1. v = [[k EXCEPT !.points = lengths, !.gone = @ \ drawing,
                     !.undrawn = @ \ drawing]
             EXCEPT !.picture = drawn, !.dirty = @ \ drawing]
  <2> DEFINE g == GeneratePoints(k, drawing)
  <2>1. g = [k EXCEPT !.points = lengths, !.gone = @ \ drawing,
                      !.undrawn = @ \ drawing]
    BY DEF GeneratePoints
  <2>2. g.picture = k.picture /\ g.dirty = k.dirty
    BY <2>1 DEF Base, Charts
  <2>3. v = [g EXCEPT !.picture = drawn, !.dirty = @ \ drawing]
    BY <2>2 DEF DrawSeries
  <2> QED
    BY <2>1, <2>3
<1>2. \A s \in drawing : k.data[s] \in Data /\ Len(k.data[s]) \in Nat
  BY DataTypes DEF Base, Held, Drawn
<1>3. lengths \in [Series -> Nat]
  BY <1>2 DEF Base, Charts
<1>4. drawn \in [Series -> [data : Data, ext : Extremes, plot : Plots] \cup {None}]
  BY <1>2 DEF Base, Charts
<1>5. \A s \in Series : /\ s \in drawing => lengths[s] = Len(k.data[s])
                        /\ s \notin drawing => lengths[s] = k.points[s]
  OBVIOUS
<1>6. \A s \in Series :
        /\ s \in drawing =>
             drawn[s] = [data |-> k.data[s], ext |-> k.ext, plot |-> k.plot]
        /\ s \notin drawing => drawn[s] = k.picture[s]
  OBVIOUS
<1>7. drawing \subseteq Series /\ Drawn(k) \subseteq Series
  BY DEF Base, Charts, Drawn
<1>8. drawing = k.dirty \cap Drawn(k)
  OBVIOUS
<1> HIDE DEF drawing, lengths, drawn
<1>9. v \in Charts
  <2>1. /\ k.gone \ drawing \in SUBSET Series /\ k.dirty \ drawing \in SUBSET Series
        /\ k.undrawn \ drawing \in SUBSET Series
    BY DEF Base, Charts
  <2> DEFINE g == [k EXCEPT !.points = lengths, !.gone = @ \ drawing,
                            !.undrawn = @ \ drawing]
  <2>2. g \in Charts /\ g.dirty = k.dirty
    BY <1>3, <2>1 DEF Base, Charts
  <2>3. v = [g EXCEPT !.picture = drawn, !.dirty = @ \ drawing]
    BY <1>1
  <2> HIDE DEF g, v
  <2> QED
    BY <1>4, <2>1, <2>2, <2>3 DEF Charts
<1>10. /\ SameData(v, k) /\ SameScale(v, k)
       /\ v.points = lengths /\ v.gone = k.gone \ drawing
       /\ v.undrawn = k.undrawn \ drawing
       /\ v.picture = drawn /\ v.dirty = k.dirty \ drawing
       /\ v.axisDirty = k.axisDirty /\ v.isDirtyBox = k.isDirtyBox
       /\ v.isDirtyLegend = k.isDirtyLegend /\ v.legend = k.legend
       /\ v.axisPicture = k.axisPicture /\ v.plot = k.plot
       /\ v.stretch = k.stretch
  BY <1>1 DEF Base, Charts, SameData, SameScale
<1> HIDE DEF v
<1>11. /\ PlotOf(v) = PlotOf(k) /\ Drawn(v) = Drawn(k) /\ ~Framed(v)
       /\ Drawn(v) \cap v.dirty = {}
  BY <1>8, <1>10 DEF PlotOf, LabelRoom, Drawn, Framed, SameData, SameScale
<1>12. \A s \in Drawn(k) :
         v.picture[s] = [data |-> k.data[s], ext |-> k.ext, plot |-> k.plot]
  <2> SUFFICES ASSUME NEW s \in Drawn(k)
               PROVE  drawn[s] = [data |-> k.data[s], ext |-> k.ext, plot |-> k.plot]
    BY <1>10
  <2>1. CASE s \in drawing
    BY <1>6, <1>7, <2>1
  <2>2. CASE s \notin drawing
    BY <1>6, <1>7, <1>8, <2>2 DEF Drawings
  <2> QED
    BY <2>1, <2>2
<1>13. \A s \in k.series : Alive(v, s)
  <2> SUFFICES ASSUME NEW s \in k.series PROVE Alive(v, s)
    OBVIOUS
  <2>1. s \in Series /\ v.data = k.data
    BY <1>10 DEF Base, Charts, SameData
  <2>2. CASE s \in drawing
    <3>1. v.points[s] = Len(v.data[s]) /\ s \notin v.gone
      BY <1>5, <1>10, <2>1, <2>2
    <3>2. Len(v.data[s]) \in Nat
      BY <1>2, <2>1, <2>2
    <3> QED
      BY <3>1, <3>2 DEF Alive
  <2>3. CASE s \notin drawing
    <3>1. /\ v.points[s] = k.points[s]
          /\ s \in v.gone <=> s \in k.gone
          /\ s \in v.undrawn <=> s \in k.undrawn
      BY <1>5, <1>10, <2>1, <2>3
    <3> QED
      BY <2>1, <3>1 DEF Lively, Alive
  <2> QED
    BY <2>2, <2>3
<1>14. Drawings(v)
  BY <1>10, <1>11, <1>12 DEF Drawings, Framed, SameData, SameScale
<1>15. Lively(v)
  BY <1>10, <1>13 DEF Lively, SameData
<1> QED
  BY <1>9, <1>10, <1>11, <1>14, <1>15 DEF Base, Held, SameData, v

Good(k) == Base(k) /\ Scales(k) /\ Drawings(k) /\ Lively(k)

(* Nothing is left to do, but for the axes missed.                         *)
Fresh(k) ==
  /\ ~Framed(k) /\ ~k.isDirtyLegend
  /\ Drawn(k) \cap k.dirty = {}
  /\ \A a \in Axes : k.ext[a] = ExtremeOf(k, a) \/ a \in k.missed

LEMMA ScalesSame ==
  ASSUME NEW j, NEW k, Base(j), Base(k), Scales(k),
         j.series = k.series, j.visible = k.visible, j.data = k.data,
         j.ext = k.ext, j.oldUser = k.oldUser,
         j.missed = k.missed, \A a \in Axes : Marked(k, a) => Marked(j, a),
         "x" \in k.stretch => "x" \in j.stretch
  PROVE  Scales(j)
<1> SUFFICES ASSUME NEW a \in Axes
             PROVE  \/ j.ext[a] = OldExtreme(j, a) \/ Marked(j, a) \/ a \in j.missed
                    \/ a = "y" /\ "x" \in j.stretch /\ j.series # {}
  BY DEF Scales
<1>1. OldExtreme(j, a) = OldExtreme(k, a)
  BY OldExtremeSame DEF Base
<1> QED
  BY <1>1 DEF Scales

LEMMA ScaledForAll ==
  ASSUME NEW k, Base(k), \A a \in Axes : ScaledFor(k, a)
  PROVE  /\ Scales(k)
         /\ \A a \in Axes : k.ext[a] = ExtremeOf(k, a) \/ a \in k.missed
BY OldExtremeIs DEF ScaledFor, Scales

LEMMA ScaledForSame ==
  ASSUME NEW j, NEW k, NEW a \in Axes, ScaledFor(k, a), SameData(j, k),
         j.ext = k.ext, j.oldUser = k.oldUser, j.missed = k.missed,
         j.stretch \subseteq k.stretch
  PROVE  ScaledFor(j, a)
<1>1. ExtremeOf(j, a) = ExtremeOf(k, a)
  BY ExtremeSame DEF SameData
<1> QED
  BY <1>1 DEF ScaledFor, SameData

LEMMA RedrawnKeeps ==
  ASSUME NEW k, Base(k), Drawings(k), Lively(k)
  PROVE  LET v == Redrawn(k)
         IN /\ Base(v) /\ Drawings(v) /\ Lively(v) /\ SameData(v, k)
            /\ ~Framed(v) /\ ~v.isDirtyLegend /\ Drawn(v) \cap v.dirty = {}
            /\ v.stretch = {} /\ v.missed \subseteq k.missed
            /\ k.isResizing # 0 => SameScale(v, k)
            /\ k.isResizing = 0 /\ Scales(k) =>
                 \A a \in Axes : ScaledFor(v, a)
<1> DEFINE r1 == RenderLegend(k)
           r2 == Scaled(r1)
           r3 == GetMargins(r2)
           r4 == DrawFrame(r3)
           r5 == DrawSeries(r4)
<1>0. Redrawn(k) = r5
  BY DEF Redrawn
<1>1. /\ Base(r1) /\ Drawings(r1) /\ Lively(r1)
      /\ SameData(r1, k) /\ SameScale(r1, k)
      /\ r1.stretch = k.stretch /\ r1.dirty = k.dirty
      /\ r1.axisDirty = k.axisDirty
      /\ ~r1.isDirtyLegend
  BY RenderLegendKeeps
<1>2. Scales(k) => Scales(r1)
  <2>1. \A a \in Axes : Marked(k, a) => Marked(r1, a)
    BY <1>1 DEF Marked, SameData, SameScale
  <2> HIDE DEF r1
  <2> QED
    BY <1>1, <2>1, ScalesSame DEF SameData, SameScale
<1> HIDE DEF r1
<1>3. /\ Base(r2) /\ Drawings(r2) /\ Lively(r2)
      /\ SameData(r2, r1) /\ r2.dirty = r1.dirty /\ ~r2.isDirtyLegend
      /\ r2.missed \subseteq r1.missed
      /\ r1.isResizing # 0 => r2 = r1
      /\ r1.isResizing = 0 /\ Scales(r1) => \A a \in Axes : ScaledFor(r2, a)
  BY <1>1, ScaledKeeps
<1> HIDE DEF r2
<1>4. /\ Base(r3) /\ Drawings(r3) /\ Lively(r3)
      /\ SameData(r3, r2) /\ SameScale(r3, r2)
      /\ r3.dirty = r2.dirty /\ r3.isDirtyLegend = r2.isDirtyLegend
      /\ r3.stretch = {} /\ r3.plot = PlotOf(r3)
  BY <1>3, GetMarginsKeeps
<1> HIDE DEF r3
<1>5. /\ Base(r4) /\ Drawings(r4) /\ Lively(r4)
      /\ SameData(r4, r3) /\ SameScale(r4, r3)
      /\ r4.stretch = r3.stretch /\ ~r4.isDirtyLegend
      /\ ~Framed(r4)
  BY <1>3, <1>4, DrawFrameKeeps
<1> HIDE DEF r4
<1>6. /\ Base(r5) /\ Drawings(r5) /\ Lively(r5)
      /\ SameData(r5, r4) /\ SameScale(r5, r4)
      /\ r5.stretch = r4.stretch /\ ~r5.isDirtyLegend
      /\ ~Framed(r5) /\ Drawn(r5) \cap r5.dirty = {}
  BY <1>5, DrawSeriesKeeps
<1> HIDE DEF r5
<1>7. SameData(r5, r2) /\ SameScale(r5, r2) /\ r5.stretch = {}
  BY <1>4, <1>5, <1>6 DEF SameData, SameScale
<1>8. SameData(r5, k) /\ r5.missed \subseteq k.missed
  BY <1>1, <1>3, <1>7 DEF SameData, SameScale
<1>9. k.isResizing # 0 => SameScale(r5, k)
  BY <1>1, <1>3, <1>7 DEF SameData, SameScale
<1>10. k.isResizing = 0 /\ Scales(k) => \A a \in Axes : ScaledFor(r5, a)
  BY <1>1, <1>2, <1>3, <1>7, ScaledForSame DEF SameData, SameScale
<1> QED
  BY <1>0, <1>6, <1>7, <1>8, <1>9, <1>10

-----------------------------------------------------------------------------
(* What changes end with                                                   *)

(* A state of the chart between two calls                                  *)
DrawInv(k) ==
  /\ Good(k)
  /\ k.isResizing <= MaxResizing
  /\ k.owed = 0 => Fresh(k)

(* How Finish and setSize() set the history variables of the chart         *)
Counted(k, owed, missed) == [k EXCEPT !.owed = owed, !.missed = missed]

LEMMA CountedKeeps ==
  ASSUME NEW k, Base(k), Drawings(k), Lively(k),
         NEW owed \in 0 .. MaxOwed, NEW missed \in SUBSET Axes
  PROVE  LET v == Counted(k, owed, missed)
         IN /\ Base(v) /\ Drawings(v) /\ Lively(v)
            /\ v.owed = owed /\ v.missed = missed /\ v.isResizing = k.isResizing
            /\ v.size = k.size
            /\ k.missed \subseteq missed /\ Scales(k) => Scales(v)
            /\ Axes \subseteq missed => Scales(v)
            /\ (Framed(v) <=> Framed(k)) /\ v.isDirtyLegend = k.isDirtyLegend
            /\ Drawn(v) = Drawn(k) /\ v.dirty = k.dirty
            /\ \A a \in Axes : v.ext[a] = k.ext[a]
                               /\ ExtremeOf(v, a) = ExtremeOf(k, a)
<1> DEFINE v == Counted(k, owed, missed)
<1>1. v \in Charts
  BY DEF Base, Charts, Counted
<1>2. /\ v.series = k.series /\ v.visible = k.visible /\ v.data = k.data
      /\ v.user = k.user /\ v.isResizing = k.isResizing /\ v.size = k.size
      /\ v.ext = k.ext /\ v.oldUser = k.oldUser /\ v.force = k.force
      /\ v.stretch = k.stretch /\ v.dirty = k.dirty /\ v.points = k.points
      /\ v.gone = k.gone /\ v.undrawn = k.undrawn /\ v.axisDirty = k.axisDirty
      /\ v.isDirtyBox = k.isDirtyBox /\ v.isDirtyLegend = k.isDirtyLegend
      /\ v.legend = k.legend /\ v.picture = k.picture
      /\ v.axisPicture = k.axisPicture /\ v.plot = k.plot
      /\ v.owed = owed /\ v.missed = missed
  BY DEF Base, Charts, Counted
<1> HIDE DEF v
<1>3. Framed(v) = Framed(k) /\ Drawn(v) = Drawn(k) /\ PlotOf(v) = PlotOf(k)
  BY <1>2 DEF Framed, Drawn, PlotOf, LabelRoom
<1>4. Base(v) /\ Drawings(v) /\ Lively(v)
  BY <1>1, <1>2, <1>3, LivelySame DEF Base, Held, Drawings
<1>5. \A a \in Axes : /\ ExtremeOf(v, a) = ExtremeOf(k, a)
                      /\ OldExtreme(v, a) = OldExtreme(k, a)
                      /\ Marked(v, a) = Marked(k, a)
  <2> SUFFICES ASSUME NEW a \in Axes
               PROVE  /\ ExtremeOf(v, a) = ExtremeOf(k, a)
                      /\ OldExtreme(v, a) = OldExtreme(k, a)
                      /\ Marked(v, a) = Marked(k, a)
    OBVIOUS
  <2>1. ExtremeOf(v, a) = ExtremeOf(k, a)
    BY <1>2, ExtremeSame
  <2>2. OldExtreme(v, a) = OldExtreme(k, a)
    BY <1>1, <1>2, OldExtremeSame DEF Base
  <2>3. Marked(v, a) = Marked(k, a)
    BY <1>2 DEF Marked
  <2> QED
    BY <2>1, <2>2, <2>3
<1>6. k.missed \subseteq missed /\ Scales(k) => Scales(v)
  BY <1>2, <1>5 DEF Scales
<1>7. Axes \subseteq missed => Scales(v)
  BY <1>2 DEF Scales
<1> QED
  BY <1>2, <1>3, <1>4, <1>5, <1>6, <1>7 DEF v

LEMMA FinishKeeps ==
  ASSUME NEW k, Good(k), k.isResizing <= MaxResizing,
         NEW redraw \in BOOLEAN, Finish(k, redraw)
  PROVE  DrawInv(c') /\ c'.size = k.size
<1>0. /\ Base(k) /\ Scales(k) /\ Drawings(k) /\ Lively(k)
      /\ k.owed \in 0 .. MaxOwed /\ k.missed \in SUBSET Axes
      /\ k.isResizing \in Nat
  BY RedrawAssumption DEF Good, Base, Charts
<1>1. CASE ~redraw
  <2> DEFINE owed == k.owed + 1
  <2>1. owed \in 0 .. MaxOwed /\ owed # 0
    BY <1>0, <1>1, RedrawAssumption DEF Finish
  <2>2. c' = Counted(k, owed, k.missed)
    <3>1. c' = [k EXCEPT !.owed = owed]
      BY <1>1 DEF Finish
    <3> QED
      BY <1>0, <3>1 DEF Base, Charts, Counted
  <2> HIDE DEF owed
  <2>3. /\ Base(c') /\ Drawings(c') /\ Lively(c') /\ Scales(c')
        /\ c'.owed = owed /\ c'.isResizing = k.isResizing /\ c'.size = k.size
    BY <1>0, <2>1, <2>2, CountedKeeps
  <2> QED
    BY <2>1, <2>3 DEF DrawInv, Good
<1>2. CASE redraw
  <2> DEFINE w == Redrawn(k)
             late == k.isResizing > 0 /\ \E a \in Axes : NeedsScale(k, a)
             missed == IF late THEN Axes ELSE w.missed
  <2>1. /\ Base(w) /\ Drawings(w) /\ Lively(w) /\ SameData(w, k)
        /\ ~Framed(w) /\ ~w.isDirtyLegend /\ Drawn(w) \cap w.dirty = {}
        /\ w.stretch = {} /\ w.missed \subseteq k.missed
        /\ k.isResizing # 0 => SameScale(w, k)
        /\ k.isResizing = 0 /\ Scales(k) => \A a \in Axes : ScaledFor(w, a)
    BY <1>0, RedrawnKeeps
  <2>2. c' = Counted(w, 0, missed)
    BY <1>2 DEF Finish, Counted
  <2>3. w.size = k.size /\ w.isResizing = k.isResizing
    BY <2>1 DEF SameData
  <2>4. ~late => /\ Scales(w)
                 /\ \A a \in Axes : w.ext[a] = ExtremeOf(w, a) \/ a \in w.missed
    <3> SUFFICES ASSUME ~late
                 PROVE  /\ Scales(w)
                        /\ \A a \in Axes : w.ext[a] = ExtremeOf(w, a) \/ a \in w.missed
      OBVIOUS
    <3>1. CASE k.isResizing = 0
      <4>1. \A a \in Axes : ScaledFor(w, a)
        BY <1>0, <2>1, <3>1
      <4> HIDE DEF w
      <4> QED
        BY <2>1, <4>1, ScaledForAll
    <3>2. CASE k.isResizing # 0
      <4>1. \A a \in Axes : ~NeedsScale(k, a)
        BY <1>0, <3>2
      <4>2. \A a \in Axes : ScaledFor(k, a)
        <5> SUFFICES ASSUME NEW a \in Axes PROVE ScaledFor(k, a)
          OBVIOUS
        <5>1. ~Marked(k, a) /\ k.user[a] = k.oldUser[a]
          BY <4>1, NeedsScaleIs
        <5>2. "x" \notin k.stretch /\ a \notin k.stretch
          BY <4>1 DEF NeedsScale, Axes
        <5>3. k.ext[a] = OldExtreme(k, a) \/ a \in k.missed
          BY <1>0, <5>1, <5>2 DEF Scales
        <5>4. OldExtreme(k, a) = ExtremeOf(k, a)
          BY <1>0, <5>1, OldExtremeIs
        <5> QED
          BY <5>1, <5>2, <5>3, <5>4 DEF ScaledFor
      <4> HIDE DEF w
      <4>3. \A a \in Axes : ScaledFor(w, a)
        BY <2>1, <3>2, <4>2, ScaledForSame DEF SameScale
      <4> QED
        BY <2>1, <4>3, ScaledForAll
    <3> QED
      BY <3>1, <3>2
  <2>5. /\ missed \in SUBSET Axes /\ w.missed \subseteq missed
        /\ late => Axes \subseteq missed
    BY <1>0, <2>1
  <2>6. 0 \in 0 .. MaxOwed
    BY RedrawAssumption
  <2> HIDE DEF w, missed
  <2>7. /\ Base(c') /\ Drawings(c') /\ Lively(c')
        /\ c'.owed = 0 /\ c'.missed = missed /\ c'.isResizing = w.isResizing
        /\ c'.size = w.size
        /\ w.missed \subseteq missed /\ Scales(w) => Scales(c')
        /\ Axes \subseteq missed => Scales(c')
        /\ (Framed(c') <=> Framed(w)) /\ c'.isDirtyLegend = w.isDirtyLegend
        /\ Drawn(c') = Drawn(w) /\ c'.dirty = w.dirty
        /\ \A a \in Axes : c'.ext[a] = w.ext[a]
                           /\ ExtremeOf(c', a) = ExtremeOf(w, a)
    BY <2>1, <2>2, <2>5, <2>6, CountedKeeps
  <2> HIDE DEF late
  <2>8. Scales(c')
    BY <2>4, <2>5, <2>7
  <2>9. Fresh(c')
    BY <2>1, <2>4, <2>5, <2>7 DEF Fresh
  <2> QED
    BY <2>3, <2>7, <2>8, <2>9 DEF DrawInv, Good
<1> QED
  BY <1>1, <1>2

-----------------------------------------------------------------------------
(* Changes                                                                 *)

(* A change that marks both axes leaves the chart Good if what it does not *)
(* mark stays as it was drawn.                                             *)
LEMMA MarkedGood ==
  ASSUME NEW k, Good(k), NEW j, Base(j), Lively(j),
         \A a \in Axes : Marked(j, a),
         j.isDirtyLegend => j.isDirtyBox,
         ~j.isDirtyLegend => j.legend = j.series,
         ~Framed(j) => /\ ~Framed(k)
                       /\ j.plot = k.plot /\ j.size = k.size
                       /\ j.legend = k.legend /\ j.ext = k.ext
                       /\ j.axisPicture = k.axisPicture,
         \A t \in Drawn(j) \ j.dirty :
           /\ t \in Drawn(k) \ k.dirty
           /\ j.picture[t] = k.picture[t] /\ j.data[t] = k.data[t]
  PROVE  Good(j)
<1>1. Scales(j)
  BY DEF Scales
<1>2. ~Framed(j) =>
        /\ j.plot = PlotOf(j)
        /\ \A a \in Axes : j.axisPicture[a] = [max |-> j.ext[a], plot |-> j.plot]
        /\ \A s \in Drawn(j) \ j.dirty :
             j.picture[s] = [data |-> j.data[s], ext |-> j.ext, plot |-> j.plot]
  <2> SUFFICES ASSUME ~Framed(j)
               PROVE  /\ j.plot = PlotOf(j)
                      /\ \A a \in Axes : j.axisPicture[a] = [max |-> j.ext[a], plot |-> j.plot]
                      /\ \A s \in Drawn(j) \ j.dirty :
                           j.picture[s] = [data |-> j.data[s], ext |-> j.ext, plot |-> j.plot]
    OBVIOUS
  <2>1. PlotOf(j) = PlotOf(k)
    BY DEF PlotOf, LabelRoom
  <2> QED
    BY <2>1 DEF Good, Drawings
<1>3. Drawings(j)
  BY <1>2 DEF Drawings
<1> QED
  BY <1>1, <1>3 DEF Good

(* The marks of a change of one series that stays in the chart             *)
LEMMA SeriesChangeGood ==
  ASSUME NEW k, Good(k), NEW j, j \in Charts, NEW s \in k.series,
         j.data[s] \in Data, j.series = k.series, j.dirty = k.dirty \cup {s},
         Alive(j, s), j.undrawn \in {k.undrawn, k.undrawn \cup {s}},
         \A t \in Series \ {s} :
           /\ t \in j.visible <=> t \in k.visible
           /\ j.picture[t] = k.picture[t] /\ j.data[t] = k.data[t]
           /\ j.points[t] = k.points[t]
           /\ t \in j.gone <=> t \in k.gone,
         j.axisDirty = k.axisDirty, k.isDirtyBox => j.isDirtyBox,
         j.isDirtyLegend = k.isDirtyLegend,
         j.plot = k.plot, j.size = k.size, j.legend = k.legend,
         j.ext = k.ext, j.axisPicture = k.axisPicture
  PROVE  Good(j)
<1>0. k \in Charts /\ k.series \subseteq Series /\ Held(k)
  BY DEF Good, Base, Charts
<1>1. Base(j)
  <2>1. \A t \in k.series : j.data[t] \in Data
    BY <1>0 DEF Held
  <2> QED
    BY <2>1 DEF Base, Held
<1>2. \A a \in Axes : Marked(j, a)
  BY DEF Marked
<1>3. /\ j.isDirtyLegend => j.isDirtyBox
      /\ ~j.isDirtyLegend => j.legend = j.series
  BY DEF Good, Drawings
<1>4. ~Framed(j) => ~Framed(k)
  BY DEF Framed
<1>5. \A t \in Drawn(j) \ j.dirty :
        /\ t \in Drawn(k) \ k.dirty
        /\ j.picture[t] = k.picture[t] /\ j.data[t] = k.data[t]
  BY <1>0 DEF Drawn
<1>6. Lively(j)
  <2>1. Lively(k) /\ k.undrawn \subseteq k.series
    BY DEF Good, Lively
  <2>2. j.undrawn \subseteq j.series /\ s \in j.dirty
    BY <2>1
  <2>3. \A t \in j.series \ {s} :
          /\ t \in k.series /\ (t \in k.dirty => t \in j.dirty)
          /\ j.data[t] = k.data[t] /\ j.points[t] = k.points[t]
          /\ t \in j.gone <=> t \in k.gone
          /\ t \in j.undrawn <=> t \in k.undrawn
    BY <1>0
  <2> QED
    BY <2>1, <2>2, <2>3, OthersLively
<1> QED
  BY <1>1, <1>2, <1>3, <1>4, <1>5, <1>6, MarkedGood

LEMMA SetVisibleKeeps ==
  ASSUME DrawInv(c), NEW s \in Series, NEW show \in BOOLEAN,
         NEW redraw \in BOOLEAN, SetVisible(s, show, redraw)
  PROVE  DrawInv(c') /\ c'.size = c.size
<1> DEFINE j == [c EXCEPT !.visible = IF show THEN @ \cup {s} ELSE @ \ {s},
                          !.picture[s] = IF show THEN @ ELSE None,
                          !.dirty = @ \cup {s},
                          !.isDirtyBox = TRUE]
<1>1. s \in c.series /\ Finish(j, redraw)
  BY DEF SetVisible
<1>2. Good(c) /\ c \in Charts /\ c.data[s] \in Data
  BY <1>1 DEF DrawInv, Good, Base, Held
<1>3. j \in Charts
  <2>1. (IF show THEN c.visible \cup {s} ELSE c.visible \ {s}) \in SUBSET Series
        /\ c.dirty \cup {s} \in SUBSET Series
    BY <1>2 DEF Charts
  <2> QED
    BY <1>2, <2>1, ZenonT(60) DEF Charts
<1>4. /\ j.data = c.data /\ j.series = c.series /\ j.dirty = c.dirty \cup {s}
      /\ j.visible = IF show THEN c.visible \cup {s} ELSE c.visible \ {s}
      /\ j.picture = [c.picture EXCEPT ![s] = IF show THEN @ ELSE None]
      /\ j.points = c.points /\ j.gone = c.gone /\ j.undrawn = c.undrawn
      /\ j.axisDirty = c.axisDirty /\ j.isDirtyBox
      /\ j.isDirtyLegend = c.isDirtyLegend
      /\ j.plot = c.plot /\ j.size = c.size /\ j.legend = c.legend
      /\ j.ext = c.ext /\ j.axisPicture = c.axisPicture
      /\ j.isResizing = c.isResizing
  BY <1>2 DEF Charts
<1> HIDE DEF j
<1>5. \A t \in Series \ {s} :
        /\ t \in j.visible <=> t \in c.visible
        /\ j.picture[t] = c.picture[t]
  BY <1>2, <1>4 DEF Charts
<1>6. Alive(j, s)
  BY <1>1, <1>2, <1>4 DEF Good, Lively, Alive
<1>7. Good(j)
  BY <1>1, <1>2, <1>3, <1>4, <1>5, <1>6, SeriesChangeGood, ZenonT(60)
<1> QED
  BY <1>1, <1>4, <1>7, FinishKeeps DEF DrawInv

(* The data of one series are changed, and perhaps its points.             *)
AliveAs(s, d, n, gone, undrawn) ==
  /\ s \notin gone => n <= Len(d)
  /\ s \notin undrawn => s \notin gone /\ n = Len(d)

DataChange(k, s, d, n, gone, undrawn, box) ==
  [k EXCEPT !.data[s] = d, !.points[s] = n, !.gone = gone, !.undrawn = undrawn,
            !.dirty = @ \cup {s}, !.isDirtyBox = box]

LEMMA DataChangeKeeps ==
  ASSUME DrawInv(c), NEW s \in c.series, NEW d \in Data, NEW n \in Nat,
         NEW gone \in {c.gone, c.gone \cup {s}},
         NEW undrawn \in {c.undrawn, c.undrawn \cup {s}},
         AliveAs(s, d, n, gone, undrawn),
         NEW box \in BOOLEAN, c.isDirtyBox => box, NEW redraw \in BOOLEAN,
         Finish(DataChange(c, s, d, n, gone, undrawn, box), redraw)
  PROVE  DrawInv(c') /\ c'.size = c.size
<1> DEFINE j == DataChange(c, s, d, n, gone, undrawn, box)
<1>1. Good(c) /\ c \in Charts /\ s \in Series
  BY DEF DrawInv, Good, Base, Charts
<1>2. j \in Charts
  <2>1. /\ gone \in SUBSET Series /\ undrawn \in SUBSET Series
        /\ c.dirty \cup {s} \in SUBSET Series
    BY <1>1 DEF Charts
  <2> QED
    BY <1>1, <2>1 DEF Charts, DataChange
<1>3. /\ j.data = [c.data EXCEPT ![s] = d] /\ j.series = c.series
      /\ j.points = [c.points EXCEPT ![s] = n] /\ j.gone = gone
      /\ j.undrawn = undrawn
      /\ j.dirty = c.dirty \cup {s} /\ j.visible = c.visible
      /\ j.picture = c.picture
      /\ j.axisDirty = c.axisDirty /\ j.isDirtyBox = box
      /\ j.isDirtyLegend = c.isDirtyLegend
      /\ j.plot = c.plot /\ j.size = c.size /\ j.legend = c.legend
      /\ j.ext = c.ext /\ j.axisPicture = c.axisPicture
      /\ j.isResizing = c.isResizing
  BY <1>1 DEF Charts, DataChange
<1>4. Finish(j, redraw)
  OBVIOUS
<1> HIDE DEF j
<1>5. j.data[s] = d /\ Alive(j, s)
  BY <1>1, <1>3 DEF Charts, Alive, AliveAs
<1>6. \A t \in Series \ {s} :
        /\ j.data[t] = c.data[t] /\ j.points[t] = c.points[t]
        /\ t \in j.gone <=> t \in c.gone
  BY <1>1, <1>3 DEF Charts
<1>7. Good(j)
  BY <1>1, <1>2, <1>3, <1>5, <1>6, SeriesChangeGood
<1> QED
  BY <1>3, <1>4, <1>7, FinishKeeps DEF DrawInv

LEMMA UpdatedLength ==
  ASSUME NEW s, c.data[s] \in Data, NEW d \in Data, Len(d) <= Len(c.data[s])
  PROVE  Len(UpdatedData(s, d)) = Len(c.data[s])
<1> DEFINE e == c.data[s]
           rest == SubSeq(e, Len(d) + 1, Len(e))
<1>1. /\ d \in Seq(Nat) /\ Len(d) \in Nat
      /\ e \in Seq(Nat) /\ Len(e) \in Nat
  BY DataTypes
<1>2. rest \in Seq(Nat) /\ Len(rest) = Len(e) - Len(d)
  <2> HIDE DEF e
  <2>1. \A i \in Len(d) + 1 .. Len(e) : e[i] \in Nat
    BY <1>1
  <2> QED
    BY <1>1, <2>1, SMTT(30) DEF e
<1> HIDE DEF rest
<1>3. Len(d \o rest) = Len(d) + Len(rest)
  BY <1>1, <1>2
<1> QED
  BY <1>1, <1>2, <1>3 DEF UpdatedData, rest

LEMMA PointChangesKeep ==
  ASSUME DrawInv(c), NEW s \in Series, NEW redraw \in BOOLEAN,
         \/ \E d \in Data : UpdatePoints(s, d, redraw) \/ SetData(s, d, redraw)
         \/ \E y : AddPoint(s, y, redraw)
         \/ RemovePoint(s, redraw)
  PROVE  DrawInv(c') /\ c'.size = c.size
<1>1. /\ c \in Charts /\ c.points[s] \in Nat /\ c.isDirtyBox \in BOOLEAN
  BY DEF DrawInv, Good, Base, Charts
<1> DEFINE undrawn == c.undrawn \cup {s}
<1>2. ASSUME s \in c.series
      PROVE  /\ c.data[s] \in Data /\ Len(c.data[s]) \in Nat
             /\ Alive(c, s)
  <2>1. c.data[s] \in Data /\ Alive(c, s)
    BY <1>2 DEF DrawInv, Good, Base, Held, Lively
  <2> QED
    BY <2>1, DataTypes
<1> HIDE DEF undrawn
<1>3. undrawn \in {c.undrawn, c.undrawn \cup {s}} /\ s \in undrawn
  BY DEF undrawn
<1>4. ASSUME NEW d \in Data, UpdatePoints(s, d, redraw)
      PROVE  DrawInv(c') /\ c'.size = c.size
  <2> DEFINE u == UpdatedData(s, d)
  <2>1. s \in c.series /\ u \in Data /\ Len(d) = c.points[s] /\ s \notin c.gone
    BY <1>4 DEF UpdatePoints
  <2>2. Finish([c EXCEPT !.data[s] = u, !.dirty = @ \cup {s}], redraw)
    BY <1>4 DEF UpdatePoints
  <2>3. Len(u) = Len(c.data[s])
    BY <1>2, <2>1, UpdatedLength DEF Alive
  <2> HIDE DEF u
  <2>4. [c EXCEPT !.data[s] = u, !.dirty = @ \cup {s}]
          = DataChange(c, s, u, c.points[s], c.gone, c.undrawn, c.isDirtyBox)
    BY <1>1 DEF DataChange, Charts
  <2>5. Finish(DataChange(c, s, u, c.points[s], c.gone, c.undrawn, c.isDirtyBox),
               redraw)
    BY <2>2, <2>4
  <2>6. AliveAs(s, u, c.points[s], c.gone, c.undrawn)
    BY <1>2, <2>1, <2>3 DEF Alive, AliveAs
  <2> QED
    BY <1>1, <2>1, <2>5, <2>6, DataChangeKeeps
<1>5. ASSUME NEW d \in Data, SetData(s, d, redraw)
      PROVE  DrawInv(c') /\ c'.size = c.size
  <2> DEFINE gone == IF c.points[s] > 0 THEN c.gone \cup {s} ELSE c.gone
  <2>1. s \in c.series /\ gone \in {c.gone, c.gone \cup {s}}
    BY <1>5 DEF SetData
  <2>2. Finish([c EXCEPT !.data[s] = d, !.gone = gone, !.undrawn = undrawn,
                         !.dirty = @ \cup {s}, !.isDirtyBox = TRUE], redraw)
    BY <1>1, <1>5 DEF SetData, Charts, undrawn
  <2>3. AliveAs(s, d, c.points[s], gone, undrawn)
    <3>1. s \notin gone => c.points[s] = 0
      BY <1>1
    <3> QED
      BY <1>3, <3>1, DataTypes DEF AliveAs
  <2> HIDE DEF gone
  <2>4. [c EXCEPT !.data[s] = d, !.gone = gone, !.undrawn = undrawn,
                  !.dirty = @ \cup {s}, !.isDirtyBox = TRUE]
          = DataChange(c, s, d, c.points[s], gone, undrawn, TRUE)
    BY <1>1 DEF DataChange, Charts
  <2>5. Finish(DataChange(c, s, d, c.points[s], gone, undrawn, TRUE), redraw)
    BY <2>2, <2>4
  <2> QED
    BY <1>1, <1>3, <2>1, <2>3, <2>5, DataChangeKeeps
<1>6. ASSUME NEW y, AddPoint(s, y, redraw)
      PROVE  DrawInv(c') /\ c'.size = c.size
  <2> DEFINE d == Append(c.data[s], y)
  <2>1. s \in c.series /\ d \in Data
    BY <1>6 DEF AddPoint
  <2>2. Finish([c EXCEPT !.data[s] = d, !.undrawn = undrawn,
                         !.dirty = @ \cup {s}], redraw)
    BY <1>1, <1>6 DEF AddPoint, Charts, undrawn
  <2>3. Len(d) = Len(c.data[s]) + 1
    BY <1>2, <2>1, DataTypes
  <2> HIDE DEF d
  <2>4. AliveAs(s, d, c.points[s], c.gone, undrawn)
    BY <1>1, <1>2, <1>3, <2>1, <2>3 DEF Alive, AliveAs
  <2>5. [c EXCEPT !.data[s] = d, !.undrawn = undrawn, !.dirty = @ \cup {s}]
          = DataChange(c, s, d, c.points[s], c.gone, undrawn, c.isDirtyBox)
    BY <1>1 DEF DataChange, Charts
  <2>6. Finish(DataChange(c, s, d, c.points[s], c.gone, undrawn, c.isDirtyBox),
               redraw)
    BY <2>2, <2>5
  <2> QED
    BY <1>1, <1>3, <2>1, <2>4, <2>6, DataChangeKeeps
<1>7. CASE RemovePoint(s, redraw)
  <2> DEFINE left == SubSeq(c.data[s], 1, Len(c.data[s]) - 1)
             n == c.points[s] - 1
  <2>1. /\ s \in c.series /\ s \notin c.gone
        /\ left \in Data /\ c.points[s] = Len(c.data[s])
    BY <1>7 DEF RemovePoint
  <2>2. n \in Nat /\ Len(left) = n
    <3>1. c.data[s] \in Seq(Nat) /\ Len(c.data[s]) \in Nat /\ Len(c.data[s]) >= 6
      BY <1>2, <2>1, DataTypes
    <3>2. Len(left) = Len(c.data[s]) - 1
      BY <3>1, SMTT(30)
    <3> QED
      BY <2>1, <3>1, <3>2
  <2>3. Finish([c EXCEPT !.data[s] = left, !.points[s] = n,
                         !.dirty = @ \cup {s}], redraw)
    BY <1>1, <1>7 DEF RemovePoint, Charts
  <2> HIDE DEF left, n
  <2>4. AliveAs(s, left, n, c.gone, c.undrawn)
    <3>1. s \notin c.gone /\ n <= Len(left)
      BY <2>1, <2>2
    <3> QED
      BY <2>2, <3>1, Zenon DEF AliveAs
  <2>5. [c EXCEPT !.data[s] = left, !.points[s] = n, !.dirty = @ \cup {s}]
          = DataChange(c, s, left, n, c.gone, c.undrawn, c.isDirtyBox)
    BY <1>1 DEF DataChange, Charts
  <2>6. Finish(DataChange(c, s, left, n, c.gone, c.undrawn, c.isDirtyBox), redraw)
    BY <2>3, <2>5
  <2> QED
    BY <1>1, <2>1, <2>2, <2>4, <2>6, DataChangeKeeps
<1> QED
  BY <1>4, <1>5, <1>6, <1>7

LEMMA CreatedFields ==
  ASSUME NEW k \in Charts, NEW s \in Series, NEW d \in Data
  PROVE  LET v == Created(k, s, d)
         IN /\ v \in Charts
            /\ v.series = k.series \cup {s} /\ v.visible = k.visible
            /\ v.data = [k.data EXCEPT ![s] = d]
            /\ v.points = [k.points EXCEPT ![s] = 0] /\ v.gone = k.gone
            /\ v.undrawn = k.undrawn \cup {s}
            /\ v.picture = [k.picture EXCEPT ![s] = None]
            /\ v.dirty = k.dirty \cup {s} /\ v.axisDirty = Axes /\ v.isDirtyBox
            /\ v.isDirtyLegend = k.isDirtyLegend /\ v.force = k.force
            /\ v.isResizing = k.isResizing /\ v.size = k.size
<1>1. /\ k.series \cup {s} \in SUBSET Series /\ k.dirty \cup {s} \in SUBSET Series
      /\ k.undrawn \cup {s} \in SUBSET Series /\ Axes \in SUBSET Axes
  BY DEF Charts
<1>2. Created(k, s, d) \in Charts
  BY <1>1 DEF Created, Charts
<1> QED
  BY <1>2 DEF Created, Charts

LEMMA RemovedFields ==
  ASSUME NEW k \in Charts, NEW s \in Series
  PROVE  LET v == Removed(k, s)
         IN /\ v \in Charts
            /\ v.series = k.series \ {s} /\ v.visible = k.visible
            /\ v.data = [k.data EXCEPT ![s] = None]
            /\ v.points = [k.points EXCEPT ![s] = 0] /\ v.gone = k.gone \ {s}
            /\ v.undrawn = k.undrawn \ {s}
            /\ v.picture = [k.picture EXCEPT ![s] = None]
            /\ v.dirty = k.dirty \ {s} /\ v.axisDirty = Axes /\ v.isDirtyBox
            /\ v.isDirtyLegend /\ v.force = Axes
            /\ v.isResizing = k.isResizing /\ v.size = k.size
<1>1. /\ k.series \ {s} \in SUBSET Series /\ k.dirty \ {s} \in SUBSET Series
      /\ k.gone \ {s} \in SUBSET Series /\ k.undrawn \ {s} \in SUBSET Series
      /\ Axes \in SUBSET Axes
  BY DEF Charts
<1>2. Removed(k, s) \in Charts
  BY <1>1 DEF Removed, Charts
<1> QED
  BY <1>2 DEF Removed, Charts

(* A change of the set of series marks the box and the legend.             *)
LEMMA SeriesSetGood ==
  ASSUME NEW k, Good(k), NEW j, Base(j), NEW s \in Series,
         \A a \in Axes : Marked(j, a),
         j.isDirtyBox, j.isDirtyLegend,
         j.undrawn \subseteq j.series,
         s \in j.series => s \in j.dirty /\ Alive(j, s),
         \A t \in Series \ {s} :
           /\ t \in Drawn(j) => t \in Drawn(k)
           /\ t \in j.series => t \in k.series
           /\ t \notin j.dirty => t \notin k.dirty
           /\ j.picture[t] = k.picture[t] /\ j.data[t] = k.data[t]
           /\ j.points[t] = k.points[t]
           /\ t \in j.gone <=> t \in k.gone
           /\ t \in j.undrawn <=> t \in k.undrawn
  PROVE  Good(j)
<1>1. Framed(j)
  BY DEF Framed
<1>2. \A t \in Drawn(j) \ j.dirty : t \in Series \ {s}
  BY DEF Drawn, Base, Charts
<1>3. \A t \in Drawn(j) \ j.dirty :
        /\ t \in Drawn(k) \ k.dirty
        /\ j.picture[t] = k.picture[t] /\ j.data[t] = k.data[t]
  BY <1>2
<1>4. j.series \subseteq Series
  BY DEF Base, Charts
<1>5. Lively(j)
  BY <1>4, OthersLively DEF Good
<1> QED
  BY <1>1, <1>3, <1>5, MarkedGood

LEMMA AddSeriesKeeps ==
  ASSUME DrawInv(c), NEW s \in Series, NEW d \in Data, NEW redraw \in BOOLEAN,
         AddSeries(s, d, redraw)
  PROVE  DrawInv(c') /\ c'.size = c.size
<1> DEFINE v == Created(c, s, d)
           j == [v EXCEPT !.visible = @ \cup {s}, !.isDirtyLegend = TRUE]
<1>1. s \notin c.series /\ Finish(j, redraw)
  BY DEF AddSeries
<1>2. Good(c) /\ Base(c) /\ c \in Charts
  BY DEF DrawInv, Good, Base
<1>3. /\ v \in Charts
      /\ v.series = c.series \cup {s} /\ v.visible = c.visible
      /\ v.data = [c.data EXCEPT ![s] = d]
      /\ v.points = [c.points EXCEPT ![s] = 0] /\ v.gone = c.gone
      /\ v.undrawn = c.undrawn \cup {s}
      /\ v.picture = [c.picture EXCEPT ![s] = None]
      /\ v.dirty = c.dirty \cup {s} /\ v.axisDirty = Axes /\ v.isDirtyBox
      /\ v.isDirtyLegend = c.isDirtyLegend /\ v.force = c.force
      /\ v.isResizing = c.isResizing /\ v.size = c.size
  BY <1>2, CreatedFields
<1> HIDE DEF v
<1>4. j \in Charts
  <2>1. v.visible \cup {s} \in SUBSET Series
    BY <1>3 DEF Charts
  <2> QED
    BY <1>3, <2>1, ZenonT(60) DEF Charts
<1>5. /\ j.series = v.series /\ j.visible = v.visible \cup {s}
      /\ j.data = v.data /\ j.points = v.points /\ j.gone = v.gone
      /\ j.undrawn = v.undrawn
      /\ j.picture = v.picture /\ j.dirty = v.dirty /\ j.isDirtyBox = v.isDirtyBox
      /\ j.isDirtyLegend /\ j.isResizing = v.isResizing /\ j.size = v.size
  BY <1>3 DEF Charts
<1> HIDE DEF j
<1>6. /\ j.data[s] = d /\ j.points[s] = 0
      /\ \A t \in Series \ {s} : /\ j.data[t] = c.data[t]
                                 /\ j.picture[t] = c.picture[t]
                                 /\ j.points[t] = c.points[t]
  BY <1>2, <1>3, <1>5 DEF Charts
<1>7. Base(j)
  <2>1. \A t \in j.series : j.data[t] \in Data
    BY <1>2, <1>3, <1>5, <1>6 DEF Base, Held, Charts
  <2> QED
    BY <1>4, <2>1 DEF Base, Held
<1>8. \A a \in Axes : Marked(j, a)
  BY <1>3, <1>5 DEF Marked
<1>9. \A t \in Series \ {s} :
        /\ t \in Drawn(j) => t \in Drawn(c)
        /\ t \in j.series => t \in c.series
        /\ t \notin j.dirty => t \notin c.dirty
        /\ t \in j.gone <=> t \in c.gone
        /\ t \in j.undrawn <=> t \in c.undrawn
  BY <1>3, <1>5 DEF Drawn
<1>10. /\ j.undrawn \subseteq j.series /\ s \in j.dirty /\ Alive(j, s)
       /\ j.isDirtyBox /\ j.isDirtyLegend
  <2>1. c.undrawn \subseteq c.series
    BY <1>2 DEF Good, Lively
  <2> QED
    BY <1>3, <1>5, <1>6, <2>1, DataTypes DEF Alive
<1>11. Good(j)
  BY <1>2, <1>6, <1>7, <1>8, <1>9, <1>10, SeriesSetGood, ZenonT(60)
<1> QED
  BY <1>1, <1>3, <1>5, <1>11, FinishKeeps DEF DrawInv

LEMMA RemoveSeriesKeeps ==
  ASSUME DrawInv(c), NEW s \in Series, NEW redraw \in BOOLEAN,
         RemoveSeries(s, redraw)
  PROVE  DrawInv(c') /\ c'.size = c.size
<1> DEFINE v == Removed(c, s)
           j == [v EXCEPT !.visible = @ \ {s}]
<1>1. Finish(j, redraw)
  BY DEF RemoveSeries
<1>2. Good(c) /\ Base(c) /\ c \in Charts
  BY DEF DrawInv, Good, Base
<1>3. /\ v \in Charts
      /\ v.series = c.series \ {s} /\ v.visible = c.visible
      /\ v.data = [c.data EXCEPT ![s] = None]
      /\ v.points = [c.points EXCEPT ![s] = 0] /\ v.gone = c.gone \ {s}
      /\ v.undrawn = c.undrawn \ {s}
      /\ v.picture = [c.picture EXCEPT ![s] = None]
      /\ v.dirty = c.dirty \ {s} /\ v.axisDirty = Axes /\ v.isDirtyBox
      /\ v.isDirtyLegend /\ v.force = Axes
      /\ v.isResizing = c.isResizing /\ v.size = c.size
  BY <1>2, RemovedFields
<1> HIDE DEF v
<1>4. j \in Charts
  <2>1. v.visible \ {s} \in SUBSET Series
    BY <1>3 DEF Charts
  <2> QED
    BY <1>3, <2>1 DEF Charts
<1>5. /\ j.series = v.series /\ j.visible = v.visible \ {s}
      /\ j.data = v.data /\ j.points = v.points /\ j.gone = v.gone
      /\ j.undrawn = v.undrawn
      /\ j.picture = v.picture /\ j.dirty = v.dirty /\ j.isDirtyBox = v.isDirtyBox
      /\ j.isDirtyLegend = v.isDirtyLegend /\ j.force = v.force
      /\ j.isResizing = v.isResizing /\ j.size = v.size
  BY <1>3 DEF Charts
<1> HIDE DEF j
<1>6. \A t \in Series \ {s} : /\ j.data[t] = c.data[t]
                              /\ j.picture[t] = c.picture[t]
                              /\ j.points[t] = c.points[t]
  BY <1>2, <1>3, <1>5 DEF Charts
<1>7. Base(j)
  <2>1. \A t \in j.series : j.data[t] \in Data
    BY <1>2, <1>3, <1>5, <1>6 DEF Base, Held, Charts
  <2> QED
    BY <1>4, <2>1 DEF Base, Held
<1>8. \A a \in Axes : Marked(j, a)
  BY <1>3, <1>5 DEF Marked
<1>9. \A t \in Series \ {s} :
        /\ t \in Drawn(j) => t \in Drawn(c)
        /\ t \in j.series => t \in c.series
        /\ t \notin j.dirty => t \notin c.dirty
        /\ t \in j.gone <=> t \in c.gone
        /\ t \in j.undrawn <=> t \in c.undrawn
  BY <1>3, <1>5 DEF Drawn
<1>10. Good(j)
  <2>1. /\ s \notin j.series /\ j.isDirtyBox /\ j.isDirtyLegend
        /\ j.undrawn \subseteq j.series
    BY <1>2, <1>3, <1>5 DEF Good, Lively
  <2> QED
    BY <1>2, <1>6, <1>7, <1>8, <1>9, <2>1, SeriesSetGood
<1> QED
  BY <1>1, <1>3, <1>5, <1>10, FinishKeeps DEF DrawInv

LEMMA UpdateSeriesKeeps ==
  ASSUME DrawInv(c), NEW s \in Series, NEW redraw \in BOOLEAN,
         UpdateSeries(s, redraw)
  PROVE  DrawInv(c') /\ c'.size = c.size
<1> DEFINE d == c.data[s]
           v == Removed(c, s)
           j == Created(v, s, d)
<1>1. s \in c.series /\ Finish(j, redraw)
  BY DEF UpdateSeries
<1>2. Good(c) /\ Base(c) /\ c \in Charts
  BY DEF DrawInv, Good, Base
<1>3. d \in Data
  BY <1>1, <1>2 DEF Base, Held
<1> HIDE DEF d
<1>4. /\ v \in Charts
      /\ v.series = c.series \ {s} /\ v.visible = c.visible
      /\ v.data = [c.data EXCEPT ![s] = None]
      /\ v.points = [c.points EXCEPT ![s] = 0] /\ v.gone = c.gone \ {s}
      /\ v.undrawn = c.undrawn \ {s}
      /\ v.picture = [c.picture EXCEPT ![s] = None]
      /\ v.dirty = c.dirty \ {s} /\ v.axisDirty = Axes /\ v.isDirtyBox
      /\ v.isDirtyLegend /\ v.force = Axes
      /\ v.isResizing = c.isResizing /\ v.size = c.size
  BY <1>2, RemovedFields
<1> HIDE DEF v
<1>5. /\ j \in Charts
      /\ j.series = v.series \cup {s} /\ j.visible = v.visible
      /\ j.data = [v.data EXCEPT ![s] = d]
      /\ j.points = [v.points EXCEPT ![s] = 0] /\ j.gone = v.gone
      /\ j.undrawn = v.undrawn \cup {s}
      /\ j.picture = [v.picture EXCEPT ![s] = None]
      /\ j.dirty = v.dirty \cup {s} /\ j.axisDirty = Axes /\ j.isDirtyBox
      /\ j.isDirtyLegend = v.isDirtyLegend /\ j.force = v.force
      /\ j.isResizing = v.isResizing /\ j.size = v.size
  BY <1>3, <1>4, CreatedFields
<1> HIDE DEF j
<1>6. \A t \in Series \ {s} : /\ v.data[t] = c.data[t]
                              /\ v.picture[t] = c.picture[t]
                              /\ v.points[t] = c.points[t]
  BY <1>2, <1>4 DEF Charts
<1>7. /\ j.data[s] = d /\ j.points[s] = 0
      /\ \A t \in Series \ {s} : /\ j.data[t] = v.data[t]
                                 /\ j.picture[t] = v.picture[t]
                                 /\ j.points[t] = v.points[t]
  BY <1>4, <1>5 DEF Charts
<1>8. Base(j)
  <2>1. \A t \in j.series : j.data[t] \in Data
    BY <1>2, <1>3, <1>4, <1>5, <1>6, <1>7 DEF Base, Held, Charts
  <2> QED
    BY <1>5, <2>1 DEF Base, Held
<1>9. \A a \in Axes : Marked(j, a)
  BY <1>5 DEF Marked
<1>10. \A t \in Series \ {s} :
         /\ t \in Drawn(j) => t \in Drawn(c)
         /\ t \in j.series => t \in c.series
         /\ t \notin j.dirty => t \notin c.dirty
         /\ t \in j.gone <=> t \in c.gone
         /\ t \in j.undrawn <=> t \in c.undrawn
  BY <1>4, <1>5 DEF Drawn
<1>11. Good(j)
  <2>1. /\ s \in j.dirty /\ j.isDirtyBox /\ j.isDirtyLegend
        /\ j.undrawn \subseteq j.series
    BY <1>1, <1>2, <1>4, <1>5 DEF Good, Lively
  <2>2. \A t \in Series \ {s} : /\ j.data[t] = c.data[t]
                                /\ j.picture[t] = c.picture[t]
                                /\ j.points[t] = c.points[t]
    BY <1>6, <1>7
  <2>3. Alive(j, s)
    BY <1>3, <1>5, <1>7, DataTypes DEF Alive
  <2> QED
    BY <1>2, <1>8, <1>9, <1>10, <2>1, <2>2, <2>3, SeriesSetGood
<1> QED
  BY <1>1, <1>4, <1>5, <1>11, FinishKeeps DEF DrawInv

LEMMA SetExtremesKeeps ==
  ASSUME DrawInv(c), NEW w \in Windows \cup {None}, NEW redraw \in BOOLEAN,
         SetExtremes(w, redraw)
  PROVE  DrawInv(c') /\ c'.size = c.size
<1> DEFINE j == [c EXCEPT !.user["x"] = w]
<1>1. Finish(j, redraw)
  BY DEF SetExtremes
<1>2. Good(c) /\ c \in Charts /\ "x" \in Axes /\ w \in Nat \cup {None}
  BY RedrawAssumption DEF DrawInv, Good, Base, Axes
<1>3. j \in Charts
  BY <1>2 DEF Charts, Extremes
<1>4. /\ j.series = c.series /\ j.visible = c.visible /\ j.data = c.data
      /\ j.isResizing = c.isResizing /\ j.size = c.size
      /\ j.ext = c.ext /\ j.oldUser = c.oldUser /\ j.force = c.force
      /\ j.stretch = c.stretch /\ j.dirty = c.dirty /\ j.points = c.points
      /\ j.gone = c.gone /\ j.undrawn = c.undrawn /\ j.axisDirty = c.axisDirty
      /\ j.isDirtyBox = c.isDirtyBox /\ j.isDirtyLegend = c.isDirtyLegend
      /\ j.legend = c.legend /\ j.picture = c.picture
      /\ j.axisPicture = c.axisPicture /\ j.plot = c.plot
      /\ j.missed = c.missed
  BY <1>2 DEF Charts
<1> HIDE DEF j
<1>5. Base(j)
  BY <1>2, <1>3, <1>4 DEF Good, Base, Held
<1>6. Scales(j)
  <2>1. \A a \in Axes : Marked(c, a) => Marked(j, a)
    BY <1>4 DEF Marked
  <2> QED
    BY <1>2, <1>4, <1>5, <2>1, ScalesSame DEF Good
<1>7. (Framed(j) <=> Framed(c)) /\ Drawn(j) = Drawn(c) /\ PlotOf(j) = PlotOf(c)
  BY <1>4 DEF Framed, Drawn, PlotOf, LabelRoom
<1>8. Drawings(j) /\ Lively(j)
  BY <1>2, <1>4, <1>7, LivelySame DEF Good, Drawings
<1>9. Good(j)
  BY <1>5, <1>6, <1>8 DEF Good
<1> QED
  BY <1>1, <1>4, <1>9, FinishKeeps DEF DrawInv

LEMMA UpdateAxisKeeps ==
  ASSUME DrawInv(c), NEW a \in Axes, NEW redraw \in BOOLEAN,
         UpdateAxis(a, redraw)
  PROVE  DrawInv(c') /\ c'.size = c.size
<1> DEFINE j == [c EXCEPT !.ext[a] = None, !.stretch = @ \cup {a},
                          !.isDirtyBox = TRUE]
<1>1. Finish(j, redraw)
  <2>1. [AxisCreated(c, a) EXCEPT !.isDirtyBox = TRUE] = j
    BY DEF AxisCreated
  <2> HIDE DEF j
  <2>2. Finish([AxisCreated(c, a) EXCEPT !.isDirtyBox = TRUE], redraw)
    BY DEF UpdateAxis
  <2> QED
    BY <2>1, <2>2
<1>2. Good(c) /\ Base(c) /\ c \in Charts
  BY DEF DrawInv, Good, Base
<1>3. j \in Charts
  <2>1. c.stretch \cup {a} \in SUBSET Axes /\ None \in Nat \cup {None}
    BY <1>2 DEF Charts
  <2> QED
    BY <1>2, <2>1 DEF Charts, Extremes
<1>4. /\ j.series = c.series /\ j.visible = c.visible /\ j.data = c.data
      /\ j.isResizing = c.isResizing /\ j.size = c.size
      /\ j.ext = [c.ext EXCEPT ![a] = None]
      /\ j.oldUser = c.oldUser /\ j.force = c.force
      /\ j.stretch = c.stretch \cup {a} /\ j.dirty = c.dirty
      /\ j.points = c.points /\ j.gone = c.gone /\ j.undrawn = c.undrawn
      /\ j.axisDirty = c.axisDirty
      /\ j.isDirtyBox /\ j.isDirtyLegend = c.isDirtyLegend
      /\ j.legend = c.legend /\ j.missed = c.missed
  BY <1>2 DEF Charts
<1> HIDE DEF j
<1>5. Base(j)
  BY <1>2, <1>3, <1>4 DEF Base, Held
<1>6. Scales(j)
  <2> SUFFICES ASSUME NEW b \in Axes
               PROVE  \/ j.ext[b] = OldExtreme(j, b) \/ Marked(j, b)
                      \/ b \in j.missed
                      \/ b = "y" /\ "x" \in j.stretch /\ j.series # {}
    BY DEF Scales
  <2>1. CASE b = a
    BY <1>4, <2>1 DEF Marked
  <2>2. CASE b # a
    <3>1. j.ext[b] = c.ext[b]
      BY <1>2, <1>4, <2>2 DEF Charts, Extremes
    <3>2. Marked(c, b) => Marked(j, b)
      BY <1>4 DEF Marked
    <3>3. CASE b = "y" /\ j.series # {}
      BY <1>4, <2>2, <3>3 DEF Axes
    <3>4. CASE b = "x" \/ j.series = {}
      <4>1. OldExtreme(j, b) = OldExtreme(c, b)
        BY <1>2, <1>3, <1>4, <3>4, OldExtremeSame
      <4> QED
        BY <1>2, <1>4, <3>1, <3>2, <3>4, <4>1 DEF Good, Scales
    <3> QED
      BY <3>3, <3>4 DEF Axes
  <2> QED
    BY <2>1, <2>2
<1>7. Framed(j) /\ Drawn(j) = Drawn(c)
  BY <1>4 DEF Framed, Drawn
<1>8. Drawings(j) /\ Lively(j)
  BY <1>2, <1>4, <1>7, LivelySame DEF Good, Drawings
<1>9. Good(j)
  BY <1>5, <1>6, <1>8 DEF Good
<1> QED
  BY <1>1, <1>4, <1>9, FinishKeeps DEF DrawInv

(* Good and Fresh do not depend on isResizing.                             *)
LEMMA SameGood ==
  ASSUME NEW k, Good(k), NEW v \in Charts,
         v.series = k.series, v.visible = k.visible, v.data = k.data,
         v.user = k.user, v.size = k.size,
         v.ext = k.ext, v.oldUser = k.oldUser, v.force = k.force,
         v.stretch = k.stretch, v.dirty = k.dirty, v.points = k.points,
         v.gone = k.gone, v.undrawn = k.undrawn, v.axisDirty = k.axisDirty,
         v.isDirtyBox = k.isDirtyBox, v.isDirtyLegend = k.isDirtyLegend,
         v.legend = k.legend, v.picture = k.picture,
         v.axisPicture = k.axisPicture, v.plot = k.plot, v.missed = k.missed
  PROVE  Good(v) /\ (Fresh(k) => Fresh(v))
<1>1. Base(k) /\ Base(v)
  BY DEF Good, Base, Held
<1>2. (Framed(v) <=> Framed(k)) /\ Drawn(v) = Drawn(k) /\ PlotOf(v) = PlotOf(k)
  BY DEF Framed, Drawn, PlotOf, LabelRoom
<1>3. Drawings(v) /\ Lively(v)
  BY <1>2, LivelySame DEF Good, Drawings
<1>4. Scales(v)
  <2>1. \A a \in Axes : Marked(k, a) => Marked(v, a)
    BY DEF Marked
  <2> QED
    BY <1>1, <2>1, ScalesSame DEF Good
<1>5. \A a \in Axes : ExtremeOf(v, a) = ExtremeOf(k, a)
  BY ExtremeSame
<1> QED
  BY <1>1, <1>2, <1>3, <1>4, <1>5 DEF Good, Fresh

-----------------------------------------------------------------------------
(* Setting the size                                                        *)

LEMMA ResizedKeeps ==
  ASSUME NEW k, Good(k), k.isResizing <= MaxResizing, NEW size \in Sizes
  PROVE  LET v == Resized(k, size)
         IN /\ Good(v) /\ Fresh(v)
            /\ v.size = size /\ v.owed = 0 /\ v.isResizing = k.isResizing + 1
<1> DEFINE begun == [k EXCEPT !.isResizing = @ + 1,
                              !.size = size,
                              !.stretch = Stretched(k, size)]
           m == [begun EXCEPT !.axisDirty = @ \cup {"x"}]
           x == SetScale(m, "x")
           n == [x EXCEPT !.axisDirty = @ \cup {"y"}]
           y == SetScale(n, "y")
           e == [y EXCEPT !.dirty = k.series,
                          !.isDirtyLegend = TRUE,
                          !.isDirtyBox = TRUE]
           g == GetMargins(e)
           w == Redrawn(g)
<1>0. "x" \in Axes /\ "y" \in Axes
  BY DEF Axes
<1>1. Resized(k, size) = [w EXCEPT !.owed = 0]
  BY Zenon DEF Resized
<1>2. /\ Base(k) /\ Scales(k) /\ Drawings(k) /\ Lively(k)
      /\ k.isResizing \in Nat /\ k.isResizing + 1 \in 0 .. MaxResizing + 1
  BY RedrawAssumption DEF Good, Base, Charts
<1>3. /\ Base(m) /\ Scales(m) /\ Drawings(m) /\ Lively(m)
      /\ m.size = size /\ m.isResizing = k.isResizing + 1
      /\ m.series = k.series
  <2>1. /\ Stretched(k, size) \in SUBSET Axes /\ k.stretch \subseteq Stretched(k, size)
        /\ k.axisDirty \cup {"x"} \in SUBSET Axes
    BY <1>0, <1>2 DEF Stretched, Base, Charts
  <2>2. m = [k EXCEPT !.isResizing = @ + 1, !.size = size,
                      !.stretch = Stretched(k, size),
                      !.axisDirty = @ \cup {"x"}]
    BY <1>2 DEF Base, Charts
  <2>3. m \in Charts
    BY <1>2, <2>1, <2>2 DEF Base, Charts
  <2>4. /\ m.series = k.series /\ m.visible = k.visible /\ m.data = k.data
        /\ m.user = k.user /\ m.isResizing = k.isResizing + 1 /\ m.size = size
        /\ m.ext = k.ext /\ m.oldUser = k.oldUser /\ m.force = k.force
        /\ m.missed = k.missed
        /\ m.stretch = Stretched(k, size) /\ m.dirty = k.dirty
        /\ m.points = k.points /\ m.gone = k.gone /\ m.undrawn = k.undrawn
        /\ m.axisDirty = k.axisDirty \cup {"x"}
        /\ m.isDirtyBox = k.isDirtyBox /\ m.isDirtyLegend = k.isDirtyLegend
        /\ m.legend = k.legend
    BY <1>2, <2>2 DEF Base, Charts
  <2> HIDE DEF m
  <2>5. Base(m)
    BY <1>2, <2>3, <2>4 DEF Base, Held
  <2>6. Scales(m)
    <3> SUFFICES ASSUME NEW a \in Axes
                 PROVE  \/ m.ext[a] = OldExtreme(m, a) \/ Marked(m, a)
                        \/ a \in m.missed
                        \/ a = "y" /\ "x" \in m.stretch /\ m.series # {}
      BY DEF Scales
    <3>1. OldExtreme(m, a) = OldExtreme(k, a)
      BY <1>2, <2>3, <2>4, OldExtremeSame DEF Base
    <3>2. Marked(k, a) => Marked(m, a)
      BY <2>1, <2>4 DEF Marked
    <3> QED
      BY <1>2, <2>1, <2>4, <3>1, <3>2 DEF Scales
  <2>7. Framed(m) /\ Drawn(m) = Drawn(k)
    BY <2>4 DEF Framed, Drawn
  <2> QED
    BY <1>2, <2>4, <2>5, <2>6, <2>7, LivelySame DEF Drawings
<1> HIDE DEF m
<1>4. /\ Base(x) /\ SameChart(x, m) /\ Scales(x) /\ ScaledFor(x, "x")
      /\ Drawings(x) /\ Lively(x)
  BY <1>0, <1>3, SetScaleBase, SetScaleDrawings, ScaleX
<1> HIDE DEF x
<1>5. /\ Base(n) /\ Scales(n) /\ ScaledFor(n, "x") /\ Drawings(n) /\ Lively(n)
      /\ n.size = x.size /\ n.isResizing = x.isResizing /\ n.series = x.series
  <2>1. x.axisDirty \cup {"y"} \in SUBSET Axes
    BY <1>0, <1>4 DEF Base, Charts
  <2>2. n \in Charts
    BY <1>4, <2>1 DEF Base, Charts
  <2>3. /\ SameData(n, x) /\ SameScale(n, x)
        /\ n.stretch = x.stretch /\ n.dirty = x.dirty
        /\ n.points = x.points /\ n.gone = x.gone /\ n.undrawn = x.undrawn
        /\ n.axisDirty = x.axisDirty \cup {"y"}
        /\ n.isDirtyBox = x.isDirtyBox /\ n.isDirtyLegend = x.isDirtyLegend
        /\ n.legend = x.legend
    BY <1>4 DEF Base, Charts, SameData, SameScale
  <2> HIDE DEF n
  <2>4. Base(n)
    BY <1>4, <2>2, <2>3 DEF Base, Held, SameData
  <2>5. \A a \in Axes : Marked(x, a) => Marked(n, a)
    BY <2>3 DEF Marked, SameData, SameScale
  <2>6. Scales(n)
    BY <1>4, <2>3, <2>4, <2>5, ScalesSame DEF SameData, SameScale
  <2>7. ScaledFor(n, "x")
    BY <1>0, <1>4, <2>3, ScaledForSame DEF SameScale
  <2>8. Framed(n) /\ Drawn(n) = Drawn(x)
    BY <2>3 DEF Framed, Drawn, SameData
  <2>9. Drawings(n) /\ Lively(n)
    BY <1>4, <2>3, <2>8, LivelySame DEF Drawings, SameData
  <2> QED
    BY <2>3, <2>4, <2>6, <2>7, <2>9 DEF SameData
<1> HIDE DEF n
<1>6. /\ Base(y) /\ SameChart(y, n) /\ ScaledFor(y, "x") /\ ScaledFor(y, "y")
      /\ Lively(y)
  BY <1>0, <1>5, SetScaleBase, SetScaleDrawings, ScaleY
<1> HIDE DEF y
<1>7. /\ y.series = k.series /\ y.size = size /\ y.isResizing = k.isResizing + 1
  BY <1>3, <1>4, <1>5, <1>6 DEF SameChart
<1>8. /\ Base(e) /\ Drawings(e) /\ Lively(e)
      /\ SameData(e, y) /\ SameScale(e, y) /\ e.stretch = y.stretch
  <2>1. e \in Charts
    BY <1>2, <1>6 DEF Base, Charts
  <2>2. /\ SameData(e, y) /\ SameScale(e, y) /\ e.stretch = y.stretch
        /\ e.dirty = k.series /\ e.isDirtyLegend /\ e.isDirtyBox
        /\ e.points = y.points /\ e.gone = y.gone /\ e.undrawn = y.undrawn
    BY <1>6 DEF Base, Charts, SameData, SameScale
  <2> HIDE DEF e
  <2>3. Framed(e) /\ Drawn(e) \ e.dirty = {}
    BY <1>7, <2>2 DEF Framed, Drawn, SameData
  <2>4. Lively(e)
    BY <1>6, <1>7, <2>2, LivelySame DEF SameData
  <2> QED
    BY <1>6, <2>1, <2>2, <2>3, <2>4 DEF Base, Held, Drawings, SameData
<1> HIDE DEF e
<1>9. /\ Base(g) /\ Drawings(g) /\ Lively(g)
      /\ SameData(g, e) /\ SameScale(g, e) /\ g.stretch = {}
  BY <1>8, GetMarginsKeeps
<1> HIDE DEF g
<1>10. g.isResizing # 0
  BY <1>2, <1>7, <1>8, <1>9 DEF SameData
<1>11. /\ Base(w) /\ Drawings(w) /\ Lively(w) /\ SameData(w, g)
       /\ ~Framed(w) /\ ~w.isDirtyLegend /\ Drawn(w) \cap w.dirty = {}
       /\ w.stretch = {} /\ SameScale(w, g)
  BY <1>9, <1>10, RedrawnKeeps
<1> HIDE DEF w
<1>12. /\ SameData(w, y) /\ w.ext = y.ext /\ w.oldUser = y.oldUser
       /\ w.missed = y.missed /\ w.stretch \subseteq y.stretch
  BY <1>8, <1>9, <1>11 DEF SameData, SameScale
<1>13. \A a \in Axes : ScaledFor(w, a)
  BY <1>6, <1>12, ScaledForSame DEF Axes
<1>14. /\ Scales(w)
       /\ \A a \in Axes : w.ext[a] = ExtremeOf(w, a) \/ a \in w.missed
  BY <1>11, <1>13, ScaledForAll
<1> DEFINE v == Counted(w, 0, w.missed)
<1>15. Resized(k, size) = v
  BY <1>1, <1>11 DEF Base, Charts, Counted
<1>16. 0 \in 0 .. MaxOwed /\ w.missed \in SUBSET Axes
  BY <1>11, RedrawAssumption DEF Base, Charts
<1>17. /\ Base(v) /\ Drawings(v) /\ Lively(v)
       /\ v.owed = 0 /\ v.missed = w.missed /\ v.isResizing = w.isResizing
       /\ v.size = w.size
       /\ w.missed \subseteq w.missed /\ Scales(w) => Scales(v)
       /\ (Framed(v) <=> Framed(w)) /\ v.isDirtyLegend = w.isDirtyLegend
       /\ Drawn(v) = Drawn(w) /\ v.dirty = w.dirty
       /\ \A a \in Axes : v.ext[a] = w.ext[a] /\ ExtremeOf(v, a) = ExtremeOf(w, a)
  BY <1>11, <1>16, CountedKeeps
<1> HIDE DEF v
<1>18. Fresh(v)
  BY <1>11, <1>14, <1>17 DEF Fresh
<1>19. v.size = size /\ v.isResizing = k.isResizing + 1
  BY <1>7, <1>12, <1>17 DEF SameData
<1> QED
  BY <1>14, <1>15, <1>17, <1>18, <1>19 DEF Good

-----------------------------------------------------------------------------
(* The inductive invariant                                                 *)

(* A timer has the size recorded last; with no size of the program's own   *)
(* and no timer the chart has it.  It is the container's unless a resize   *)
(* was ignored.                                                            *)
Follow ==
  LET caught == reflow.overtaken \/ reflow.container = reflow.recorded
  IN /\ reflow.reflowTimeout # None =>
          reflow.reflowTimeout = reflow.recorded /\ caught
     /\ ~reflow.hasUserSize =>
          caught /\ (reflow.reflowTimeout = None => c.size = reflow.recorded)

RedrawInv ==
  /\ DrawInv(c)
  /\ reflow \in Reflows
  /\ Follow

LEMMA RedrawnGood ==
  ASSUME NEW k, Good(k), k.isResizing = 0
  PROVE  /\ Good(Redrawn(k)) /\ Fresh(Redrawn(k))
         /\ SameData(Redrawn(k), k) /\ Redrawn(k).missed \subseteq k.missed
<1> DEFINE w == Redrawn(k)
<1>1. /\ Base(w) /\ Drawings(w) /\ Lively(w) /\ SameData(w, k)
      /\ ~Framed(w) /\ ~w.isDirtyLegend /\ Drawn(w) \cap w.dirty = {}
      /\ w.missed \subseteq k.missed
      /\ \A a \in Axes : ScaledFor(w, a)
  BY RedrawnKeeps DEF Good
<1> HIDE DEF w
<1>2. Scales(w) /\ \A a \in Axes : w.ext[a] = ExtremeOf(w, a) \/ a \in w.missed
  BY <1>1, ScaledForAll
<1> QED
  BY <1>1, <1>2 DEF Good, Fresh, w

LEMMA UndrawnGood ==
  ASSUME NEW d \in [Series -> Data], NEW size \in Sizes
  PROVE  LET u == Undrawn(d, size)
         IN Good(u) /\ u.isResizing = 0 /\ u.size = size /\ u.owed = 0
<1> DEFINE u == Undrawn(d, size)
<1>1. /\ u.series = Series /\ u.visible = Series /\ u.data = d
      /\ u.dirty = Series /\ u.axisDirty = Axes /\ u.stretch = Axes
      /\ u.isDirtyBox /\ u.isDirtyLegend /\ u.isResizing = 0 /\ u.size = size
      /\ u.owed = 0 /\ u.undrawn = Series /\ u.gone = {}
      /\ u.points = [s \in Series |-> 0]
  BY DEF Undrawn
<1>2. u \in Charts
  <2>1. [a \in Axes |-> None] \in Extremes
    BY DEF Extremes
  <2>2. /\ [a \in Axes |-> None]
             \in [Axes -> [max : Nat \cup {None}, plot : Plots] \cup {None}]
        /\ [s \in Series |-> None]
             \in [Series -> [data : Data, ext : Extremes, plot : Plots] \cup {None}]
        /\ [s \in Series |-> 0] \in [Series -> Nat]
    OBVIOUS
  <2>3. [size |-> size, legend |-> {}, labels |-> None] \in Plots
    BY DEF Plots
  <2>4. d \in [Series -> Data \cup {None}]
    OBVIOUS
  <2>5. 0 \in 0 .. MaxOwed /\ 0 \in 0 .. MaxResizing + 1
    BY RedrawAssumption
  <2> QED
    BY <2>1, <2>2, <2>3, <2>4, <2>5 DEF Undrawn, Charts
<1> HIDE DEF u
<1>3. Base(u)
  BY <1>1, <1>2 DEF Base, Held
<1>4. Scales(u)
  BY <1>1 DEF Scales, Marked
<1>5. Framed(u) /\ Drawn(u) \ u.dirty = {}
  BY <1>1 DEF Framed, Drawn
<1>6. Drawings(u)
  BY <1>1, <1>5 DEF Drawings
<1>7. Lively(u)
  BY <1>1, DataTypes DEF Lively, Alive
<1> QED
  BY <1>1, <1>3, <1>4, <1>6, <1>7 DEF Good, u

LEMMA InitRedrawInv == Init => RedrawInv
<1> SUFFICES ASSUME Init PROVE RedrawInv
  OBVIOUS
<1>1. PICK d \in [Series -> Data], size \in Sizes :
        /\ c = Redrawn(Undrawn(d, size))
        /\ reflow = [container |-> size, recorded |-> size, reflowTimeout |-> None,
                     hasUserSize |-> FALSE, overtaken |-> FALSE]
  BY DEF Init
<1> DEFINE u == Undrawn(d, size)
<1>2. Good(u) /\ u.isResizing = 0 /\ u.size = size /\ u.owed = 0
  BY UndrawnGood
<1> HIDE DEF u
<1>3. Good(c) /\ Fresh(c) /\ SameData(c, u)
  BY <1>1, <1>2, RedrawnGood DEF u
<1>4. DrawInv(c)
  BY <1>2, <1>3, RedrawAssumption DEF DrawInv, SameData
<1>5. reflow \in Reflows
  BY <1>1 DEF Reflows
<1>6. Follow
  BY <1>1, <1>2, <1>3 DEF Follow, SameData
<1> QED
  BY <1>4, <1>5, <1>6 DEF RedrawInv

LEMMA ResizedAtOnceKeeps ==
  ASSUME DrawInv(c), NEW size \in Sizes, c' = ResizedAtOnce(c, size)
  PROVE  DrawInv(c') /\ c'.size = size
<1> DEFINE w == Resized(c, size)
<1>1. Good(c) /\ c.isResizing <= MaxResizing /\ c.isResizing \in Nat
  BY RedrawAssumption DEF DrawInv, Good, Base, Charts
<1>2. /\ Good(w) /\ Fresh(w)
      /\ w.size = size /\ w.owed = 0 /\ w.isResizing = c.isResizing + 1
  BY <1>1, ResizedKeeps
<1>3. c' = [w EXCEPT !.isResizing = c.isResizing]
  <2>1. c' = [w EXCEPT !.isResizing = @ - 1]
    BY DEF ResizedAtOnce
  <2> HIDE DEF w
  <2>2. w.isResizing - 1 = c.isResizing
    BY <1>1, <1>2
  <2> QED
    BY <2>1, <2>2
<1> HIDE DEF w
<1>4. c.isResizing \in 0 .. MaxResizing + 1
  BY <1>1, RedrawAssumption
<1> DEFINE v == [w EXCEPT !.isResizing = c.isResizing]
<1>5. w \in Charts
  BY <1>2 DEF Good, Base
<1>6. v \in Charts
  BY <1>4, <1>5 DEF Charts
<1>7. /\ v.series = w.series /\ v.visible = w.visible /\ v.data = w.data
      /\ v.user = w.user /\ v.size = w.size /\ v.owed = w.owed
      /\ v.ext = w.ext /\ v.oldUser = w.oldUser /\ v.force = w.force
      /\ v.stretch = w.stretch /\ v.dirty = w.dirty /\ v.points = w.points
      /\ v.gone = w.gone /\ v.undrawn = w.undrawn /\ v.axisDirty = w.axisDirty
      /\ v.isDirtyBox = w.isDirtyBox /\ v.isDirtyLegend = w.isDirtyLegend
      /\ v.legend = w.legend /\ v.picture = w.picture
      /\ v.axisPicture = w.axisPicture /\ v.plot = w.plot
      /\ v.missed = w.missed
      /\ v.isResizing = c.isResizing
  BY <1>5 DEF Charts
<1> HIDE DEF v
<1>8. Good(v) /\ Fresh(v)
  BY <1>2, <1>6, <1>7, SameGood
<1> QED
  BY <1>1, <1>2, <1>3, <1>7, <1>8 DEF DrawInv, v

LEMMA ChangesKeep ==
  ASSUME DrawInv(c),
         \/ Redraw
         \/ \E s \in Series, show, redraw \in BOOLEAN : SetVisible(s, show, redraw)
         \/ Change
         \/ ChangeOfAxes
  PROVE  DrawInv(c') /\ c'.size = c.size
<1>0. Changing \subseteq Series
  BY RedrawAssumption
<1>1. CASE Redraw
  BY <1>1, FinishKeeps DEF Redraw, DrawInv
<1>2. CASE \E s \in Series, show, redraw \in BOOLEAN : SetVisible(s, show, redraw)
  BY <1>2, SetVisibleKeeps
<1>3. CASE Change
  <2>1. PICK s \in Changing, redraw \in BOOLEAN :
          \/ \E d \in Data : UpdatePoints(s, d, redraw) \/ SetData(s, d, redraw)
          \/ \E d \in Data : AddPoint(s, d[Len(d)], redraw)
          \/ RemovePoint(s, redraw)
          \/ \E d \in Data : AddSeries(s, d, redraw)
          \/ RemoveSeries(s, redraw)
          \/ UpdateSeries(s, redraw)
    BY <1>3 DEF Change
  <2>2. s \in Series
    BY <1>0
  <2>3. CASE \/ \E d \in Data : UpdatePoints(s, d, redraw) \/ SetData(s, d, redraw)
             \/ \E d \in Data : AddPoint(s, d[Len(d)], redraw)
             \/ RemovePoint(s, redraw)
    <3>1. \/ \E d \in Data : UpdatePoints(s, d, redraw) \/ SetData(s, d, redraw)
          \/ \E y : AddPoint(s, y, redraw)
          \/ RemovePoint(s, redraw)
      BY <2>3
    <3> QED
      BY <2>2, <3>1, PointChangesKeep
  <2>4. CASE \E d \in Data : AddSeries(s, d, redraw)
    BY <2>2, <2>4, AddSeriesKeeps
  <2>5. CASE RemoveSeries(s, redraw)
    BY <2>2, <2>5, RemoveSeriesKeeps
  <2>6. CASE UpdateSeries(s, redraw)
    BY <2>2, <2>6, UpdateSeriesKeeps
  <2> QED
    BY <2>1, <2>3, <2>4, <2>5, <2>6
<1>4. CASE ChangeOfAxes
  BY <1>4, SetExtremesKeeps, UpdateAxisKeeps DEF ChangeOfAxes
<1> QED
  BY <1>1, <1>2, <1>3, <1>4

LEMMA StepRedrawInv == RedrawInv /\ [Next]_vars => RedrawInv'
<1> SUFFICES ASSUME RedrawInv, [Next]_vars PROVE RedrawInv'
  OBVIOUS
<1>0. DrawInv(c) /\ reflow \in Reflows /\ Follow
  BY DEF RedrawInv
<1>1. ASSUME DrawInv(c'), c'.size = c.size, UNCHANGED reflow PROVE RedrawInv'
  BY <1>0, <1>1 DEF RedrawInv, Follow
<1>2. CASE \/ Redraw /\ UNCHANGED reflow
           \/ \E s \in Series, show, redraw \in BOOLEAN : SetVisible(s, show, redraw)
           \/ Change
           \/ ChangeOfAxes
  <2>1. UNCHANGED reflow
    BY <1>2 DEF SetVisible, Change, UpdatePoints, SetData, AddPoint, RemovePoint,
                AddSeries, RemoveSeries, UpdateSeries, ChangeOfAxes,
                SetExtremes, UpdateAxis
  <2>2. DrawInv(c') /\ c'.size = c.size
    BY <1>0, <1>2, ChangesKeep
  <2> QED
    BY <1>1, <2>1, <2>2
<1>3. ASSUME NEW size \in Sizes, NEW animated \in BOOLEAN, SetSize(size, animated)
      PROVE  RedrawInv'
  <2>1. reflow' = [reflow EXCEPT !.hasUserSize = TRUE]
    BY <1>3 DEF SetSize
  <2>2. DrawInv(c')
    <3>1. CASE ~animated
      BY <1>0, <1>3, <3>1, ResizedAtOnceKeeps DEF SetSize
    <3>2. CASE animated
      <4>1. c' = Resized(c, size) /\ c.isResizing < MaxResizing
        BY <1>3, <3>2 DEF SetSize
      <4>2. Good(c) /\ c.isResizing <= MaxResizing /\ c.isResizing \in Nat
        BY <1>0, RedrawAssumption DEF DrawInv, Good, Base, Charts
      <4>3. /\ Good(c') /\ Fresh(c') /\ c'.isResizing = c.isResizing + 1
        BY <4>1, <4>2, ResizedKeeps
      <4> QED
        BY <4>1, <4>2, <4>3, RedrawAssumption DEF DrawInv
    <3> QED
      BY <3>1, <3>2
  <2>3. reflow' \in Reflows /\ Follow'
    BY <1>0, <2>1 DEF Reflows, Follow
  <2> QED
    BY <2>2, <2>3 DEF RedrawInv
<1>4. CASE EndResize
  <2> DEFINE n == c.isResizing - 1
  <2>1. Good(c) /\ c \in Charts /\ c.isResizing <= MaxResizing
    BY <1>0 DEF DrawInv, Good, Base
  <2>2. n \in 0 .. MaxResizing + 1 /\ n <= MaxResizing
    BY <1>4, <2>1, RedrawAssumption DEF EndResize, Charts
  <2>3. c' = [c EXCEPT !.isResizing = n]
    BY <1>4 DEF EndResize
  <2> HIDE DEF n
  <2>4. c' \in Charts
    BY <2>1, <2>2, <2>3 DEF Charts
  <2>5. /\ c'.series = c.series /\ c'.visible = c.visible /\ c'.data = c.data
        /\ c'.user = c.user /\ c'.size = c.size /\ c'.owed = c.owed
        /\ c'.ext = c.ext /\ c'.oldUser = c.oldUser /\ c'.force = c.force
        /\ c'.stretch = c.stretch /\ c'.dirty = c.dirty /\ c'.points = c.points
        /\ c'.gone = c.gone /\ c'.undrawn = c.undrawn
        /\ c'.axisDirty = c.axisDirty
        /\ c'.isDirtyBox = c.isDirtyBox /\ c'.isDirtyLegend = c.isDirtyLegend
        /\ c'.legend = c.legend /\ c'.picture = c.picture
        /\ c'.axisPicture = c.axisPicture /\ c'.plot = c.plot
        /\ c'.missed = c.missed /\ c'.isResizing = n
    BY <2>1, <2>3 DEF Charts
  <2>6. Good(c') /\ (Fresh(c) => Fresh(c'))
    BY <2>1, <2>4, <2>5, SameGood
  <2>7. DrawInv(c')
    BY <1>0, <2>2, <2>5, <2>6 DEF DrawInv
  <2> QED
    BY <1>1, <1>4, <2>5, <2>7 DEF EndResize
<1>5. ASSUME NEW size \in Sizes, ResizeWindow(size) PROVE RedrawInv'
  <2>1. c' = c
    BY <1>5 DEF ResizeWindow
  <2> DEFINE l == Laid(size)
  <2>2. /\ l \in Reflows
        /\ l.container = size /\ l.recorded = reflow.recorded
        /\ l.reflowTimeout = reflow.reflowTimeout
        /\ l.hasUserSize = reflow.hasUserSize /\ l.overtaken = reflow.overtaken
    BY <1>0 DEF Laid, Reflows
  <2>3. size \in Sizes /\ size # None
    BY RedrawAssumption
  <2>4. reflow' = IF HasWork(l) THEN [Recorded(l) EXCEPT !.reflowTimeout = size]
                  ELSE Ignored(l)
    BY <1>5 DEF ResizeWindow
  <2> HIDE DEF l
  <2>5. CASE HasWork(l)
    <3>1. reflow' = [Recorded(l) EXCEPT !.reflowTimeout = size]
      BY <2>4, <2>5
    <3>2. /\ reflow' \in Reflows
          /\ reflow'.container = size /\ reflow'.recorded = size
          /\ reflow'.reflowTimeout = size
      BY <2>2, <2>3, <3>1 DEF Recorded, Reflows
    <3>3. Follow'
      BY <2>3, <3>2 DEF Follow
    <3> QED
      BY <1>0, <2>1, <3>2, <3>3 DEF RedrawInv
  <2>6. CASE ~HasWork(l)
    <3>1. reflow' = Ignored(l)
      BY <2>4, <2>6
    <3>2. /\ reflow' \in Reflows
          /\ reflow'.container = size /\ reflow'.recorded = l.recorded
          /\ reflow'.reflowTimeout = l.reflowTimeout
          /\ reflow'.hasUserSize = l.hasUserSize
          /\ reflow'.overtaken = (l.hasUserSize /\ l.reflowTimeout \notin {None, size})
      BY <2>2, <2>3, <3>1 DEF Ignored, Reflows
    <3>3. l.hasUserSize \/ size = l.recorded
      BY <2>2, <2>6 DEF HasWork
    <3>4. Follow'
      BY <1>0, <2>1, <2>2, <2>3, <3>2, <3>3 DEF Follow
    <3> QED
      BY <1>0, <2>1, <3>2, <3>4 DEF RedrawInv
  <2> QED
    BY <2>5, <2>6
<1>6. CASE Reflow
  <2>1. CASE HasWork(reflow)
    <3>1. /\ c' = ResizedAtOnce(c, reflow.container)
          /\ reflow' = [Recorded(reflow) EXCEPT !.reflowTimeout = None]
      BY <1>6, <2>1 DEF Reflow
    <3>2. reflow.container \in Sizes
      BY <1>0 DEF Reflows
    <3>3. DrawInv(c') /\ c'.size = reflow.container
      BY <1>0, <3>1, <3>2, ResizedAtOnceKeeps
    <3>4. reflow' \in Reflows /\ Follow'
      BY <1>0, <2>1, <3>1, <3>3 DEF Recorded, Reflows, Follow
    <3> QED
      BY <3>3, <3>4 DEF RedrawInv
  <2>2. CASE ~HasWork(reflow)
    <3>1. c' = c /\ reflow' = Ignored(reflow)
      BY <1>6, <2>2 DEF Reflow
    <3>2. reflow' \in Reflows /\ Follow'
      BY <1>0, <2>2, <3>1 DEF HasWork, Ignored, Reflows, Follow
    <3> QED
      BY <1>0, <3>1, <3>2 DEF RedrawInv
  <2> QED
    BY <2>1, <2>2
<1>7. CASE ReflowTimer
  <2>1. /\ c' = ResizedAtOnce(c, reflow.reflowTimeout)
        /\ reflow' = [reflow EXCEPT !.reflowTimeout = None, !.hasUserSize = FALSE]
        /\ reflow.reflowTimeout \in Sizes
    BY <1>0, <1>7 DEF ReflowTimer, Reflows
  <2>2. DrawInv(c') /\ c'.size = reflow.reflowTimeout
    BY <1>0, <2>1, ResizedAtOnceKeeps
  <2>3. reflow' \in Reflows /\ Follow'
    BY <1>0, <1>7, <2>1, <2>2 DEF ReflowTimer, Reflows, Follow
  <2> QED
    BY <2>2, <2>3 DEF RedrawInv
<1>8. CASE UNCHANGED vars
  BY <1>0, <1>8 DEF vars, RedrawInv, Follow
<1> QED
  BY <1>2, <1>3, <1>4, <1>5, <1>6, <1>7, <1>8 DEF Next

(* Whatever sequence of changes, redraws, resizes and timers: the marks    *)
(* cover all that differs from what is drawn, a chart without undrawn      *)
(* changes is fresh, and the size of the container is never lost.          *)
THEOREM RedrawInvariant == Spec => []RedrawInv
BY InitRedrawInv, StepRedrawInv, PTL DEF Spec

(* Every field of the chart has its type; a visible series is drawn from   *)
(* data and never from None.                                               *)
THEOREM RedrawTypeCorrect == Spec => []TypeOK
<1>1. RedrawInv => TypeOK
  BY DEF RedrawInv, DrawInv, Good, Base, TypeOK
<1> QED
  BY <1>1, RedrawInvariant, PTL

LEMMA FreshIsCurrent ==
  ASSUME NEW k, Good(k), Fresh(k), k.missed = {}
  PROVE  Current(k)
<1>1. k.plot = [size |-> k.size, legend |-> k.series, labels |-> LabelRoom(k)]
  BY DEF Good, Fresh, Drawings, PlotOf
<1>2. \A a \in Axes : /\ k.ext[a] = ExtremeOf(k, a)
                      /\ k.axisPicture[a] = [max |-> k.ext[a], plot |-> k.plot]
  BY DEF Good, Fresh, Drawings
<1>3. \A s \in Drawn(k) :
        k.picture[s] = [data |-> k.data[s], ext |-> k.ext, plot |-> k.plot]
  BY DEF Good, Fresh, Drawings
<1> QED
  BY <1>1, <1>2, <1>3 DEF Current

(* However changes with and without redraws, visible and hidden series,    *)
(* and resizes follow each other: after a redraw that missed no axis the   *)
(* axes, the margins and all visible series show present values.           *)
THEOREM RedrawnChartIsCurrent == Spec => []RedrawnIsCurrent
<1>1. RedrawInv => RedrawnIsCurrent
  BY FreshIsCurrent DEF RedrawInv, DrawInv, RedrawnIsCurrent
<1> QED
  BY <1>1, RedrawInvariant, PTL

(* A redraw at any moment would bring the chart up to date.                *)
THEOREM MarksAreEnough == Spec => []MarksSuffice
<1>1. RedrawInv => MarksSuffice
  <2> SUFFICES ASSUME DrawInv(c), c.isResizing = 0, c.missed = {}
               PROVE  Current(Redrawn(c))
    BY DEF RedrawInv, MarksSuffice
  <2> DEFINE w == Redrawn(c)
  <2>1. Good(w) /\ Fresh(w) /\ w.missed \subseteq c.missed
    BY RedrawnGood DEF DrawInv
  <2> HIDE DEF w
  <2>2. Current(w)
    BY <2>1, FreshIsCurrent
  <2> QED
    BY <2>2 DEF w
<1> QED
  BY <1>1, RedrawInvariant, PTL

(* Point objects are those of the data until setData(), addPoint() or a    *)
(* new series gives other data, for hidden series and without redraws too; *)
(* then they are destroyed or the first ones, until a redraw draws the     *)
(* series.  (Series.setData, addPoint, Point.remove and generatePoints)    *)
THEOREM DrawnPointsAreLive == Spec => []PointsAreLive
<1>1. RedrawInv => PointsAreLive
  <2> SUFFICES ASSUME DrawInv(c), NEW s \in c.series
               PROVE  /\ Alive(c, s)
                      /\ c.owed = 0 /\ s \in c.visible => s \notin c.undrawn
    BY DEF RedrawInv, PointsAreLive, Alive
  <2>1. Alive(c, s)
    BY DEF DrawInv, Good, Lively
  <2>2. ASSUME c.owed = 0, s \in c.visible PROVE s \notin c.undrawn
    <3>1. s \notin c.dirty
      BY <2>2 DEF DrawInv, Fresh, Drawn
    <3> QED
      BY <3>1 DEF DrawInv, Good, Lively
  <2> QED
    BY <2>1, <2>2
<1> QED
  BY <1>1, RedrawInvariant, PTL

(* The chart follows its container by its size or by a timer, whatever     *)
(* events, timers and calls of setSize() and reflow() come in between.     *)
THEOREM ChartFollowsContainer == Spec => []SizeFollows
<1>1. RedrawInv => SizeFollows
  BY DEF RedrawInv, Follow, SizeFollows
<1> QED
  BY <1>1, RedrawInvariant, PTL

=============================================================================

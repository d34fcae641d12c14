---------------------------- MODULE SvnSyncProofs ----------------------------
(***************************************************************************)
(* Theorems about SvnSync, for every set of files, versioned or not.       *)
(***************************************************************************)
EXTENDS SvnSync, TLAPS

(* A stamp that is an edit tells the truth about the content: only a copy  *)
(* that is complete sets it.  Hence what the walk has passed is onsite's.  *)
MirrorInv ==
  /\ \A f \in Files : stamp[f] \in Edits => wc[f] = stamp[f]
  /\ run = "walk" => \A f \in Files \ todo : wc[f] = onsite[f]
  /\ WalkMirrorsOnsite

(* The working copy is clean between runs, and in a walk that has copied   *)
(* nothing, unless a run was cut off or refused since the last commit.     *)
CleanInv ==
  /\ \A f \in current : repo[f] = base[f]
  /\ ~ cutOff /\ (run \in {"idle", "update", "done"} \/ (run = "walk" /\ ~ changed))
       => Modified = {}

IInv == TypeOK /\ MirrorInv /\ CommitsOnlyOnsite /\ CleanInv

LEMMA InitIInv == Init => IInv
<1> SUFFICES ASSUME Init
             PROVE  IInv
  OBVIOUS
<1> USE SvnAssumption DEF Init
<1>1. 0 \in Edits /\ Other \notin Edits /\ {0, None} \subseteq Contents
  BY DEF Edits, Contents
<1>2. TypeOK
  <2>1. wc \in [Files -> Contents] /\ repo \in [Files -> Contents]
    BY <1>1
  <2>2. base \in [Versioned -> Edits \cup {Offshore, None}]
    BY <1>1
  <2>3. onsite \in [Files -> Edits] /\ stamp \in [Files -> Edits \cup {Other}]
    BY <1>1
  <2> QED
    BY <2>1, <2>2, <2>3 DEF TypeOK
<1>3. MirrorInv /\ CommitsOnlyOnsite
  BY <1>1 DEF MirrorInv, WalkMirrorsOnsite, CommitsOnlyOnsite
<1>4. CleanInv
  BY DEF CleanInv, Modified, Versioned
<1> QED
  BY <1>2, <1>3, <1>4 DEF IInv

LEMMA StepIInv == IInv /\ [Next]_vars => IInv'
<1> SUFFICES ASSUME IInv, [Next]_vars
             PROVE  IInv'
  OBVIOUS
<1> USE SvnAssumption
    DEF IInv, TypeOK, MirrorInv, WalkMirrorsOnsite, CommitsOnlyOnsite, CleanInv,
        Modified, Versioned, Edits, Contents, svnVars
<1>1. ASSUME NEW f \in Files, EditOnsite(f) PROVE IInv'
  BY <1>1 DEF EditOnsite
<1>2. ASSUME NEW f \in Versioned, CommitOffshore(f) PROVE IInv'
  BY <1>2 DEF CommitOffshore
<1>3. CASE CutOff
  BY <1>3 DEF CutOff
<1>4. CASE Start
  BY <1>4 DEF Start
<1>5. CASE Update
  <2>1. TypeOK'
    BY <1>5 DEF Update, Stale
  <2>2. MirrorInv'
    BY <1>5 DEF Update, Stale
  <2>3. CommitsOnlyOnsite'
    BY <1>5 DEF Update
  <2>4. CleanInv'
    BY <1>5 DEF Update, Stale
  <2> QED
    BY <2>1, <2>2, <2>3, <2>4
<1>6. ASSUME NEW f \in Files, CompareAndCopy(f) PROVE IInv'
  <2>1. CASE NeedsCopy(f)
    <3>1. TypeOK'
      BY <1>6, <2>1 DEF CompareAndCopy
    <3>2. MirrorInv'
      BY <1>6, <2>1 DEF CompareAndCopy
    <3>3. CommitsOnlyOnsite' /\ CleanInv'
      BY <1>6, <2>1 DEF CompareAndCopy
    <3> QED
      BY <3>1, <3>2, <3>3
  <2>2. CASE ~ NeedsCopy(f)
    <3>1. wc[f] = onsite[f]
      BY <2>2 DEF NeedsCopy
    <3> QED
      BY <1>6, <2>2, <3>1 DEF CompareAndCopy
  <2> QED
    BY <2>1, <2>2
<1>7. ASSUME NEW f \in Files, TearCopy(f) PROVE IInv'
  BY <1>7 DEF TearCopy
<1>8. CASE EndWalk
  BY <1>8 DEF EndWalk
<1>9. CASE Checkin
  <2>1. CASE Committable
    <3>1. \A f \in Files : wc[f] = onsite[f]
      BY <1>9 DEF Checkin
    <3>2. TypeOK'
      <4>1. repo' \in [Files -> Contents]
        BY <1>9, <2>1 DEF Checkin
      <4>2. base' \in [Versioned -> Edits \cup {Offshore, None}]
        BY <1>9, <2>1, <3>1 DEF Checkin
      <4> QED
        BY <1>9, <2>1, <4>1, <4>2 DEF Checkin
    <3>3. MirrorInv' /\ CommitsOnlyOnsite'
      BY <1>9, <2>1, <3>1 DEF Checkin
    <3>4. CleanInv'
      BY <1>9, <2>1 DEF Checkin, Committable
    <3> QED
      BY <3>2, <3>3, <3>4
  <2>2. CASE ~ Committable
    BY <1>9, <2>2 DEF Checkin
  <2> QED
    BY <2>1, <2>2
<1>10. CASE Exit
  BY <1>10 DEF Exit
<1>11. CASE UNCHANGED vars
  BY <1>11 DEF vars
<1> QED
  BY <1>1, <1>2, <1>3, <1>4, <1>5, <1>6, <1>7, <1>8, <1>9, <1>10, <1>11 DEF Next

(* The inductive invariant holds in every reachable state.                 *)
THEOREM Invariance == Spec => []IInv
BY InitIInv, StepIInv, PTL DEF Spec

(* Every variable keeps its type.                                          *)
THEOREM TypeCorrect == Spec => []TypeOK
<1>1. IInv => TypeOK
  BY DEF IInv
<1> QED
  BY <1>1, Invariance, PTL

(* After a complete walk the working copy mirrors the onsite folder.       *)
THEOREM WalkMirrors == Spec => []WalkMirrorsOnsite
<1>1. IInv => WalkMirrorsOnsite
  BY DEF IInv, MirrorInv
<1> QED
  BY <1>1, Invariance, PTL

(* No torn or merged file is ever committed.                               *)
THEOREM CommitsAreOnsite == Spec => []CommitsOnlyOnsite
<1>1. IInv => CommitsOnlyOnsite
  BY DEF IInv
<1> QED
  BY <1>1, Invariance, PTL

(* Only a run that was cut off, or whose commit was refused, can make a    *)
(* later run complete without publishing what it should.                   *)
THEOREM OnlyCutOffsHide == Spec => []PublishedUnlessCutOff
<1>1. IInv => PublishedUnlessCutOff
  BY DEF IInv, TypeOK, MirrorInv, WalkMirrorsOnsite, CleanInv, Modified, Versioned,
         PublishedUnlessCutOff
<1> QED
  BY <1>1, Invariance, PTL

=============================================================================

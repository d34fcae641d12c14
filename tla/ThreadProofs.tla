---------------------------- MODULE ThreadProofs ----------------------------
(***************************************************************************)
(* Theorems about the programs of com.tool.thread: Notify, for every       *)
(* number of workers, with or without spurious wakeups; ShareData, for     *)
(* every number of threads; Gates, for every number of tasks.  No action   *)
(* of one of them reads a variable of another, and every theorem is about  *)
(* one of the three specifications.                                        *)
(***************************************************************************)
EXTENDS Notify, ShareData, Gates, FiniteSetTheorems,
        WellFoundedInduction, TLAPS

-----------------------------------------------------------------------------
(* Notify: waiting and notifying                                           *)

LEMMA SizeIsPositive == Size \in Nat /\ Size > 0
BY NotifyAssumption, FS_CardinalityType, FS_EmptySet DEF Size

LEMMA UndoneIsFinite ==
  /\ IsFiniteSet(Undone)
  /\ Cardinality(Undone) \in Nat
  /\ Cardinality(Undone) <= Size
<1>1. Undone \subseteq Workers
  BY DEF Undone
<1> QED
  BY <1>1, NotifyAssumption, FS_Subset, FS_CardinalityType DEF Size

(* Only the first turn of the creation loop finds lock.i not to cover the  *)
(* workers.  A value read in the monitor stays good until it is decremented*)
(* and written back, because nobody else is in the monitor meanwhile - even*)
(* if main overwrites lock.i.                                              *)
MonitorInv ==
  /\ \A w, v \in Workers : InMonitor(w) /\ InMonitor(v) => w = v
  /\ \A w \in Workers : InMonitor(w) => value[w] >= Cardinality(Undone)
  /\ \A w \in Workers : worker[w] # "new" => w \in started
  /\ main \in {"check", "notify", "ended"} => started = Workers

NotifyInv ==
  /\ NotifyTypeOK
  /\ MonitorInv
  /\ CountCoversWorkers
  /\ NobodyLeftWaiting

LEMMA InitNotifyInv == NotifyInit => NotifyInv
<1> SUFFICES ASSUME NotifyInit
             PROVE  NotifyInv
  OBVIOUS
<1>1. NotifyTypeOK
  <2>1. lockI \in 0 .. Size /\ value \in [Workers -> 0 .. Size]
    BY SizeIsPositive DEF NotifyInit
  <2> QED
    BY <2>1 DEF NotifyInit, NotifyTypeOK
<1>2. MonitorInv /\ CountCoversWorkers /\ NobodyLeftWaiting
  BY DEF NotifyInit, MonitorInv, InMonitor, CountCoversWorkers, NobodyLeftWaiting
<1> QED
  BY <1>1, <1>2 DEF NotifyInv

(* Steps that leave everybody who is done, and nobody else, done.          *)
LEMMA SameUndone ==
  ASSUME \A w \in Workers : worker'[w] = "done" <=> worker[w] = "done"
  PROVE  Undone' = Undone
BY DEF Undone

LEMMA StepNotifyInv == NotifyInv /\ [NotifyNext]_notifyVars => NotifyInv'
<1> SUFFICES ASSUME NotifyInv, [NotifyNext]_notifyVars
             PROVE  NotifyInv'
  OBVIOUS
<1>0. Size \in Nat /\ Size > 0 /\ Cardinality(Undone) \in Nat /\ Cardinality(Undone) <= Size
  BY SizeIsPositive, UndoneIsFinite
<1> USE <1>0, NotifyAssumption
    DEF NotifyInv, NotifyTypeOK, MonitorInv, InMonitor, CountCoversWorkers,
        NobodyLeftWaiting
<1>1. CASE ResetCount
  <2>1. Undone' = Undone
    BY <1>1, SameUndone DEF ResetCount
  <2> QED
    BY <1>1, <2>1 DEF ResetCount
<1>2. ASSUME NEW w \in Workers, StartWorker(w) PROVE NotifyInv'
  <2>1. worker[w] = "new"
    BY <1>2 DEF StartWorker
  <2>2. Undone' = Undone
    BY <1>2, <2>1, SameUndone DEF StartWorker
  <2> QED
    BY <1>2, <2>2 DEF StartWorker
<1>3. CASE Check
  <2>1. Undone' = Undone
    BY <1>3, SameUndone DEF Check
  <2>2. lockI = 0 => Undone = {}
    BY <1>3, UndoneIsFinite, FS_EmptySet DEF Check
  <2> QED
    BY <1>3, <2>1, <2>2 DEF Check, Undone
<1>4. CASE NotifyAll
  <2>1. Undone' = Undone
    BY <1>4, SameUndone DEF NotifyAll
  <2> QED
    BY <1>4, <2>1 DEF NotifyAll
<1>5. ASSUME NEW w \in Workers, Wait(w) \/ Read(w) \/ WakeSpuriously(w)
      PROVE  NotifyInv'
  <2>1. Undone' = Undone
    BY <1>5, SameUndone DEF Wait, Read, WakeSpuriously
  <2> QED
    BY <1>5, <2>1 DEF Wait, Read, WakeSpuriously, MonitorFree
<1>6. ASSUME NEW w \in Workers, Decrement(w) PROVE NotifyInv'
  <2>1. w \in Undone /\ Undone' = Undone \ {w}
    BY <1>6 DEF Decrement, Undone
  <2>2. Cardinality(Undone') = Cardinality(Undone) - 1
    BY <2>1, UndoneIsFinite, FS_RemoveElement
  <2>3. Cardinality(Undone) > 0
    BY <2>1, UndoneIsFinite, FS_EmptySet
  <2> QED
    BY <1>6, <2>2, <2>3 DEF Decrement
<1>7. CASE UNCHANGED notifyVars
  <2>1. Undone' = Undone
    BY <1>7, SameUndone DEF notifyVars
  <2> QED
    BY <1>7, <2>1 DEF notifyVars
<1> QED
  BY <1>1, <1>2, <1>3, <1>4, <1>5, <1>6, <1>7 DEF NotifyNext, Dispatch, WorkerStep

(* The inductive invariant holds in every reachable state.                 *)
THEOREM NotifyInvariance == NotifySpec => []NotifyInv
BY InitNotifyInv, StepNotifyInv, PTL DEF NotifySpec

(* Every variable keeps its type: lock.i never becomes negative.           *)
THEOREM NotifyTypeCorrect == NotifySpec => []NotifyTypeOK
<1>1. NotifyInv => NotifyTypeOK
  BY DEF NotifyInv
<1> QED
  BY <1>1, NotifyInvariance, PTL

(* lock.i never falls below the number of workers still to decrement it.   *)
THEOREM CountCovers == NotifySpec => []CountCoversWorkers
<1>1. NotifyInv => CountCoversWorkers
  BY DEF NotifyInv
<1> QED
  BY <1>1, NotifyInvariance, PTL

(* createAndDispatch() never returns while a worker waits.                 *)
THEOREM NobodyIsLeft == NotifySpec => []NobodyLeftWaiting
<1>1. NotifyInv => NobodyLeftWaiting
  BY DEF NotifyInv
<1> QED
  BY <1>1, NotifyInvariance, PTL

-----------------------------------------------------------------------------
(* ShareData: thread-scoped data                                           *)

LEMMA ScriptFacts ==
  /\ Len(Script) = 6 /\ Calls = 1 .. 6
  /\ Script[1] = "setName" /\ Script[2] = "setAge"
  /\ \A k \in 1 .. 6 : Script[k] = "getName" => k > 2
  /\ \A k \in 1 .. 6 : Script[k] = "setName" => k = 1
  /\ \A k \in 1 .. 6 : Script[k] = "setAge" => k = 2
BY DEF Script, Calls

LEMMA ObjectFacts ==
  /\ Null \notin Objects
  /\ \A t \in Threads, k \in Calls : /\ Object(t, k) \in Objects
                                     /\ Object(t, k) # Null
                                     /\ Owner(Object(t, k)) = t
BY ShareDataAssumption DEF Objects, Object, Owner

(* What thread t may see in its call, and what it found, follow from the   *)
(* statement it is at.                                                     *)
CallInv ==
  \A t \in Threads :
    /\ InCall(t) <=> visible[t] # {}
    /\ pc[t] = "test" => map[t] \in visible[t]
    /\ pc[t] = "set" => Object(t, call[t]) \in visible[t]
    /\ pc[t] = "return" =>
         \A v \in Values : visible[t] = {v} => v = map[t] /\ v # Null

(* Without a race every entry of the map is the first object of its thread *)
(* and only its thread has set its name and age.                           *)
OwnInv ==
  ~ raced =>
    /\ \A t \in Threads : map[t] # Null => Owner(map[t]) = t
    /\ \A t \in Threads : pc[t] \in {"create", "set"} => map[t] = Null
    /\ \A t \in Threads : pc[t] \in {"use", "dead"} =>
                            result[t] = map[t] /\ map[t] # Null
    /\ \A t \in Threads : call[t] > 1 =>
                            map[t] # Null /\ t \in named[map[t]]
    /\ \A t \in Threads : call[t] > 2 => t \in aged[map[t]]
    /\ \A o \in Objects : named[o] \subseteq {Owner(o)} /\ aged[o] \subseteq {Owner(o)}

ShareInv == ShareTypeOK /\ CallInv /\ OwnInv

LEMMA InitShareInv == ShareInit => ShareInv
<1> SUFFICES ASSUME ShareInit
             PROVE  ShareInv
  OBVIOUS
<1>1. ShareTypeOK
  <2>1. call \in [Threads -> Calls]
    BY ScriptFacts DEF ShareInit
  <2>2. /\ pc \in [Threads -> {"get", "test", "create", "set", "return", "use",
                               "ended", "dead"}]
        /\ visible \in [Threads -> SUBSET Values]
    BY DEF ShareInit
  <2> QED
    BY <2>1, <2>2 DEF ShareInit, ShareTypeOK, Values
<1>2. CallInv
  BY DEF ShareInit, CallInv, InCall
<1>3. OwnInv
  BY ScriptFacts DEF ShareInit, OwnInv
<1> QED
  BY <1>1, <1>2, <1>3 DEF ShareInv

(* A write adds one value to what the calls in progress may see.           *)
LEMMA WriteFacts ==
  ASSUME ShareInv, NEW t \in Threads, NEW v \in Values, Write(t, v)
  PROVE  /\ visible' \in [Threads -> SUBSET Values]
         /\ visible'[t] = {v}
         /\ \A u \in Threads \ {t} :
              /\ visible[u] \subseteq visible'[u]
              /\ visible[u] = {} <=> visible'[u] = {}
              /\ \A w \in Values : visible'[u] = {w} => visible[u] = {w}
<1>1. visible' \in [Threads -> SUBSET Values] /\ visible'[t] = {v}
  BY DEF Write, ShareInv, ShareTypeOK
<1>2. ASSUME NEW u \in Threads \ {t}
      PROVE  /\ visible[u] \subseteq visible'[u]
             /\ visible[u] = {} <=> visible'[u] = {}
             /\ \A w \in Values : visible'[u] = {w} => visible[u] = {w}
  <2>1. visible'[u] = IF InCall(u) THEN visible[u] \cup {v} ELSE visible[u]
    BY DEF Write
  <2>2. InCall(u) <=> visible[u] # {}
    BY DEF ShareInv, CallInv
  <2> QED
    BY <2>1, <2>2
<1> QED
  BY <1>1, <1>2

LEMMA StepShareTypeOK == ShareInv /\ [ShareNext]_shareVars => ShareTypeOK'
<1> SUFFICES ASSUME ShareInv, [ShareNext]_shareVars
             PROVE  ShareTypeOK'
  OBVIOUS
<1> USE ScriptFacts, ObjectFacts DEF ShareInv, ShareTypeOK, Values
<1>1. ASSUME NEW t \in Threads, GetFromMap(t) PROVE ShareTypeOK'
  BY <1>1, WriteFacts DEF GetFromMap
<1>2. ASSUME NEW t \in Threads, TestNull(t) PROVE ShareTypeOK'
  BY <1>2 DEF TestNull, ReadAs
<1>3. ASSUME NEW t \in Threads, Create(t) PROVE ShareTypeOK'
  BY <1>3, WriteFacts DEF Create
<1>4. ASSUME NEW t \in Threads, SetMap(t) PROVE ShareTypeOK'
  <2>1. PICK v \in Values : ReadAs(t, v) /\ map' = [map EXCEPT ![t] = v]
    BY <1>4 DEF SetMap
  <2> QED
    BY <1>4, <2>1 DEF SetMap, ReadAs
<1>5. ASSUME NEW t \in Threads, Return(t) PROVE ShareTypeOK'
  <2>1. PICK v \in Values : ReadAs(t, v) /\ result' = [result EXCEPT ![t] = v]
    BY <1>5 DEF Return
  <2> QED
    BY <1>5, <2>1 DEF Return, ReadAs
<1>6. ASSUME NEW t \in Threads, SetName(t) PROVE ShareTypeOK'
  BY <1>6 DEF SetName, At, Continue
<1>7. ASSUME NEW t \in Threads, SetAge(t) PROVE ShareTypeOK'
  BY <1>7 DEF SetAge, At, Continue
<1>8. ASSUME NEW t \in Threads, PrintInstance(t) PROVE ShareTypeOK'
  BY <1>8 DEF PrintInstance, At, Continue
<1>9. ASSUME NEW t \in Threads, GetName(t) PROVE ShareTypeOK'
  BY <1>9 DEF GetName, At, Continue
<1>10. ASSUME NEW t \in Threads, CallOnNull(t) PROVE ShareTypeOK'
  BY <1>10 DEF CallOnNull, At
<1>11. CASE UNCHANGED shareVars
  BY <1>11 DEF shareVars
<1> QED
  BY <1>1, <1>2, <1>3, <1>4, <1>5, <1>6, <1>7, <1>8, <1>9, <1>10, <1>11
     DEF ShareNext, GetInstance, Use

LEMMA StepCallInv == ShareInv /\ [ShareNext]_shareVars => CallInv'
<1> SUFFICES ASSUME ShareInv, [ShareNext]_shareVars
             PROVE  CallInv'
  OBVIOUS
<1> USE DEF ShareInv, ShareTypeOK, CallInv, InCall
<1>1. ASSUME NEW t \in Threads, GetFromMap(t) PROVE CallInv'
  <2>1. map[t] \in Values /\ Write(t, map[t])
    BY <1>1 DEF GetFromMap
  <2> QED
    BY <1>1, <2>1, WriteFacts DEF GetFromMap
<1>2. ASSUME NEW t \in Threads, TestNull(t) PROVE CallInv'
  BY <1>2 DEF TestNull, ReadAs
<1>3. ASSUME NEW t \in Threads, Create(t) PROVE CallInv'
  <2>1. Object(t, call[t]) \in Values /\ Write(t, Object(t, call[t]))
    BY <1>3, ObjectFacts DEF Create, Values
  <2> QED
    BY <1>3, <2>1, WriteFacts DEF Create
<1>4. ASSUME NEW t \in Threads, SetMap(t) PROVE CallInv'
  <2>1. PICK v \in visible[t] : map' = [map EXCEPT ![t] = v]
    BY <1>4 DEF SetMap
  <2>2. \A w \in Values : visible[t] = {w} => w = v /\ w # Null
    BY <1>4, <2>1, ObjectFacts DEF SetMap
  <2> QED
    BY <1>4, <2>1, <2>2 DEF SetMap
<1>5. ASSUME NEW t \in Threads, Return(t) PROVE CallInv'
  <2>1. /\ visible' = [visible EXCEPT ![t] = {}]
        /\ pc' = [pc EXCEPT ![t] = "use"]
        /\ UNCHANGED <<call, map>>
    BY <1>5 DEF Return
  <2> QED
    BY <2>1
<1>6. ASSUME NEW t \in Threads, Use(t) PROVE CallInv'
  <2>1. /\ pc[t] = "use"
        /\ \/ pc' = [pc EXCEPT ![t] = "get"]
           \/ pc' = [pc EXCEPT ![t] = "ended"]
           \/ pc' = [pc EXCEPT ![t] = "dead"]
        /\ \A u \in Threads \ {t} : call'[u] = call[u]
        /\ UNCHANGED <<map, visible>>
    BY <1>6 DEF Use, SetName, SetAge, PrintInstance, GetName, CallOnNull, At,
                Continue
  <2> QED
    BY <2>1
<1>7. CASE UNCHANGED shareVars
  BY <1>7 DEF shareVars
<1> QED
  BY <1>1, <1>2, <1>3, <1>4, <1>5, <1>6, <1>7 DEF ShareNext, GetInstance

LEMMA StepOwnInv == ShareInv /\ [ShareNext]_shareVars => OwnInv'
<1> SUFFICES ASSUME ShareInv, [ShareNext]_shareVars, ~ raced'
             PROVE  OwnInv'
  BY DEF OwnInv
<1> USE ScriptFacts, ObjectFacts DEF ShareInv, ShareTypeOK, OwnInv
<1>1. ASSUME NEW t \in Threads, GetFromMap(t) PROVE OwnInv'
  BY <1>1 DEF GetFromMap
<1>2. ASSUME NEW t \in Threads, TestNull(t) PROVE OwnInv'
  BY <1>2 DEF TestNull, ReadAs, CallInv
<1>3. ASSUME NEW t \in Threads, Create(t) PROVE OwnInv'
  BY <1>3 DEF Create
<1>4. ASSUME NEW t \in Threads, SetMap(t) PROVE OwnInv'
  <2>1. PICK v \in visible[t] : ReadAs(t, v) /\ map' = [map EXCEPT ![t] = v]
    BY <1>4 DEF SetMap
  <2>2. ~ raced /\ visible[t] = {v}
    BY <2>1 DEF ReadAs
  <2>3. v = Object(t, call[t]) /\ map[t] = Null
    BY <1>4, <2>2 DEF SetMap, CallInv
  <2>4. v # Null /\ Owner(v) = t /\ ~ call[t] > 1
    BY <2>2, <2>3
  <2> QED
    BY <1>4, <2>1, <2>2, <2>4 DEF SetMap
<1>5. ASSUME NEW t \in Threads, Return(t) PROVE OwnInv'
  <2>1. PICK v \in Values : ReadAs(t, v) /\ result' = [result EXCEPT ![t] = v]
    BY <1>5 DEF Return
  <2>2. ~ raced /\ visible[t] = {v}
    BY <2>1 DEF ReadAs
  <2>3. v = map[t] /\ v # Null
    BY <1>5, <2>2 DEF Return, CallInv
  <2> QED
    BY <1>5, <2>1, <2>2, <2>3 DEF Return
<1>6. ASSUME NEW t \in Threads, SetName(t) PROVE OwnInv'
  BY <1>6 DEF SetName, At, Continue, Values
<1>7. ASSUME NEW t \in Threads, SetAge(t) PROVE OwnInv'
  BY <1>7 DEF SetAge, At, Continue, Values
<1>8. ASSUME NEW t \in Threads, PrintInstance(t) PROVE OwnInv'
  BY <1>8 DEF PrintInstance, At, Continue
<1>9. ASSUME NEW t \in Threads, GetName(t) PROVE OwnInv'
  BY <1>9 DEF GetName, At, Continue
<1>10. ASSUME NEW t \in Threads, CallOnNull(t) PROVE OwnInv'
  BY <1>10 DEF CallOnNull, At
<1>11. CASE UNCHANGED shareVars
  BY <1>11 DEF shareVars
<1> QED
  BY <1>1, <1>2, <1>3, <1>4, <1>5, <1>6, <1>7, <1>8, <1>9, <1>10, <1>11
     DEF ShareNext, GetInstance, Use

LEMMA ShareInvariance == ShareSpec => []ShareInv
<1>1. ShareInv /\ [ShareNext]_shareVars => ShareInv'
  BY StepShareTypeOK, StepCallInv, StepOwnInv DEF ShareInv
<1> QED
  BY InitShareInv, <1>1, PTL DEF ShareSpec

(* The types of ShareData's variables hold in every reachable state.       *)
THEOREM ShareTypeCorrect == ShareSpec => []ShareTypeOK
BY ShareInvariance, PTL DEF ShareInv

(* getInstance() is right for a caller that nobody disturbs, whatever has  *)
(* happened before.                                                        *)
THEOREM UndisturbedIsRight == ShareSpec => []UndisturbedReturnsOwn
<1>1. ShareInv => UndisturbedReturnsOwn
  BY DEF ShareInv, CallInv, UndisturbedReturnsOwn
<1> QED
  BY ShareInvariance, <1>1, PTL

(* Without a race, the data is thread-scoped.                              *)
THEOREM ScopedWithoutRaces == ShareSpec => []ScopedUnlessRaced
<1>1. ShareInv => ScopedUnlessRaced
  BY ScriptFacts DEF ShareInv, ShareTypeOK, OwnInv, ScopedUnlessRaced, At, Values
<1> QED
  BY ShareInvariance, <1>1, PTL

(* When every running thread has its object and no call has null in view,  *)
(* it stays so, and no call returns null any more.                         *)
THEOREM SettlesForGood == ShareSpec => SettledForGood
<1>1. ASSUME ShareInv, [ShareNext]_shareVars, Settled, NEW t \in Threads, Return(t)
      PROVE  result'[t] # Null
  BY <1>1 DEF ShareInv, ShareTypeOK, Return, ReadAs, Settled, Running
<1>2. ASSUME ShareInv, ShareNext, Settled
      PROVE  Settled'
  <2> USE <1>2, ScriptFacts, ObjectFacts
      DEF ShareInv, ShareTypeOK, Settled, Running
  <2>1. ASSUME NEW t \in Threads, GetFromMap(t) PROVE Settled'
    BY <2>1 DEF GetFromMap, Write
  <2>2. ASSUME NEW t \in Threads, TestNull(t) PROVE Settled'
    BY <2>2 DEF TestNull, ReadAs
  <2>3. ASSUME NEW t \in Threads, Create(t) PROVE Settled'
    BY <2>3 DEF Create, Write
  <2>4. ASSUME NEW t \in Threads, SetMap(t) PROVE Settled'
    BY <2>4 DEF SetMap, ReadAs
  <2>5. ASSUME NEW t \in Threads, Return(t) PROVE Settled'
    BY <2>5 DEF Return, ReadAs
  <2>6. ASSUME NEW t \in Threads, Use(t) PROVE Settled'
    BY <2>6 DEF Use, SetName, SetAge, PrintInstance, GetName, CallOnNull, At,
                Continue
  <2> QED
    BY <2>1, <2>2, <2>3, <2>4, <2>5, <2>6 DEF ShareNext, GetInstance
<1>3. ShareInv /\ [ShareNext]_shareVars => [\A t \in Threads : Settled =>
                                /\ Settled'
                                /\ Return(t) => result'[t] # Null]_shareVars
  BY <1>1, <1>2
<1> QED
  BY ShareInvariance, <1>3, PTL DEF ShareSpec, SettledForGood

-----------------------------------------------------------------------------
(* Gates: the barrier and the latch                                        *)

(* The barrier has been passed.                                            *)
Tripped == demo = "cycle" /\ \E i \in Tasks : task[i] = "done"

(* A latch has tasks that count down and waiters, a barrier neither.       *)
ShapeInv ==
  /\ demo = "cycle" => waiter[Main] \in {"start", "done"} /\ waiter[WaitTask] = "new"
  /\ demo = "latch" => \A i \in Tasks : task[i] \in {"new", "run", "done"}
  /\ waiter[Main] = "start" => waiter[WaitTask] = "new"

(* Until the barrier is passed the gate waits for who has not arrived.     *)
CountInv == ~ Tripped => count = N - Cardinality(Arrived)

(* The one task that runs the action is the last to arrive, and a barrier  *)
(* that was passed or that has let somebody go has everybody behind it.    *)
LastInv ==
  /\ \A i \in Tasks : task[i] = "sum" =>
       \A j \in Tasks \ {i} : task[j] = "wait"
  /\ Tripped \/ released # {} =>
       demo = "cycle" /\ \A i \in Tasks : task[i] \in {"wait", "done"}

(* The tasks from next on have not been started.                           *)
StartInv == \A i \in Tasks : i >= next => task[i] = "new"

GatesInv == GatesTypeOK /\ ShapeInv /\ CountInv /\ LastInv /\ StartInv

-----------------------------------------------------------------------------
(* A set of tasks has N members only when it is all of them.               *)
LEMMA AllTasks ==
  ASSUME NEW S \in SUBSET Tasks
  PROVE  /\ IsFiniteSet(S)
         /\ Cardinality(S) \in 0 .. N
         /\ Cardinality(S) = N => S = Tasks
<1>1. N \in Nat
  BY GatesAssumption
<1>2. IsFiniteSet(Tasks) /\ Cardinality(Tasks) = N
  BY <1>1, FS_Interval DEF Tasks
<1>3. IsFiniteSet(S) /\ Cardinality(S) <= N /\ (Cardinality(S) = N => S = Tasks)
  BY <1>2, FS_Subset
<1>4. Cardinality(S) \in Nat
  BY <1>3, FS_CardinalityType
<1> QED
  BY <1>1, <1>3, <1>4

(* One more arrival is one more in number.                                 *)
LEMMA OneMore ==
  ASSUME NEW S \in SUBSET Tasks, NEW i \in Tasks \ S
  PROVE  /\ Cardinality(S \cup {i}) = Cardinality(S) + 1
         /\ Cardinality(S) \in 0 .. N - 1
<1>1. IsFiniteSet(S) /\ Cardinality(S) \in 0 .. N
  BY AllTasks
<1>2. Cardinality(S \cup {i}) = Cardinality(S) + 1
  BY <1>1, FS_AddElement
<1>3. Cardinality(S) # N
  BY AllTasks
<1>4. N \in Nat
  BY GatesAssumption
<1> QED
  BY <1>1, <1>2, <1>3, <1>4

LEMMA InitGatesInv == GatesInit => GatesInv
<1> SUFFICES ASSUME GatesInit PROVE GatesInv
  OBVIOUS
<1> USE GatesAssumption DEF GatesInit
<1>1. GatesTypeOK
  <2>1. arr \in [0 .. ArrLength - 1 -> Numbers \cup {0}]
    BY DEF ArrLength
  <2>2. waiter \in [{Main, WaitTask} -> {"new", "start", "await", "done"}]
    OBVIOUS
  <2>3. next \in 1 .. N + 1 /\ count \in 0 .. Parties /\ index \in 0 .. ArrLength
    BY DEF Parties, ArrLength
  <2> QED
    BY <2>1, <2>2, <2>3 DEF GatesTypeOK, Tasks
<1>2. ShapeInv
  BY DEF ShapeInv, Tasks
<1>3. Arrived = {}
  BY DEF Arrived, Tasks
<1>4. CountInv
  BY <1>3, FS_EmptySet DEF CountInv, Parties
<1>5. LastInv
  BY DEF LastInv, Tripped, Tasks
<1>6. StartInv
  BY DEF StartInv, Tasks
<1> QED
  BY <1>1, <1>2, <1>4, <1>5, <1>6 DEF GatesInv

(* Steps that leave the arrivals alone keep the counting.                  *)
LEMMA SameArrivals ==
  ASSUME CountInv, Arrived' = Arrived, count' = count, Tripped' = Tripped
  PROVE  CountInv'
BY DEF CountInv

LEMMA StartTaskInv == GatesInv /\ StartTask => GatesInv'
<1> SUFFICES ASSUME GatesInv, StartTask PROVE GatesInv'
  OBVIOUS
<1> USE GatesAssumption DEF GatesInv, StartTask, sumVars
<1>1. next \in Tasks /\ task[next] = "new" /\ next \in Nat
  BY DEF StartInv, Tasks, GatesTypeOK
<1>2. GatesTypeOK'
  <2>1. next' \in 1 .. N + 1
    BY DEF Tasks
  <2>2. task' \in [Tasks -> {"new", "run", "arrive", "wait", "sum", "done"}]
    BY DEF GatesTypeOK
  <2> QED
    BY <2>1, <2>2 DEF GatesTypeOK, Parties, ArrLength
<1>3. Arrived' = Arrived /\ Tripped' = Tripped
  BY <1>1 DEF Arrived, Tripped, GatesTypeOK
<1>4. CountInv'
  BY <1>3, SameArrivals
<1>5. ShapeInv' /\ LastInv'
  BY <1>1, <1>3 DEF ShapeInv, LastInv, GatesTypeOK
<1>6. StartInv'
  BY <1>1 DEF StartInv, Tasks, GatesTypeOK
<1> QED
  BY <1>2, <1>4, <1>5, <1>6

(* Only the waiters move.                                                  *)
LEMMA WaitersInv ==
  GatesInv /\ (AllStarted \/ \E w \in {Main, WaitTask} : PassLatch(w)) => GatesInv'
<1> SUFFICES ASSUME GatesInv, AllStarted \/ \E w \in {Main, WaitTask} : PassLatch(w)
             PROVE  GatesInv'
  OBVIOUS
<1> USE GatesAssumption DEF GatesInv, AllStarted, PassLatch, sumVars
<1>1. UNCHANGED <<demo, next, task, arr, count, released, index, total>>
  OBVIOUS
<1>2. waiter' \in [{Main, WaitTask} -> {"new", "start", "await", "done"}]
  BY DEF GatesTypeOK
<1>3. GatesTypeOK'
  BY <1>1, <1>2 DEF GatesTypeOK, Tasks, Parties, ArrLength
<1>4. ShapeInv'
  BY <1>1 DEF ShapeInv, GatesTypeOK
<1>5. CountInv' /\ LastInv' /\ StartInv'
  BY <1>1 DEF CountInv, LastInv, StartInv, Tripped, Arrived, Tasks
<1> QED
  BY <1>3, <1>4, <1>5

LEMMA CountDownInv ==
  ASSUME NEW i \in Tasks, GatesInv, CountDown(i)
  PROVE  GatesInv'
<1> USE GatesAssumption DEF GatesInv, CountDown, sumVars
<1>1. i \notin Arrived /\ Arrived \subseteq Tasks /\ ~ Tripped
  BY DEF Arrived, Tripped
<1>2. Arrived' = Arrived \cup {i}
  BY DEF Arrived, GatesTypeOK
<1>3. Cardinality(Arrived') = Cardinality(Arrived) + 1 /\ Cardinality(Arrived) \in 0 .. N - 1
  BY <1>1, <1>2, OneMore
<1>4. count = N - Cardinality(Arrived)
  BY <1>1 DEF CountInv
<1>5. count' = count - 1 /\ count' \in 0 .. Parties
  BY <1>3, <1>4 DEF Parties
<1>6. GatesTypeOK'
  BY <1>5 DEF GatesTypeOK, Tasks, ArrLength
<1>7. CountInv'
  BY <1>3, <1>4, <1>5 DEF CountInv
<1>8. ~ Tripped' /\ ShapeInv'
  BY DEF ShapeInv, GatesTypeOK, Tripped
<1>9. LastInv'
  BY <1>1, <1>8 DEF LastInv, ShapeInv, GatesTypeOK
<1>10. StartInv'
  BY DEF StartInv, GatesTypeOK
<1> QED
  BY <1>6, <1>7, <1>8, <1>9, <1>10

LEMMA StoreInv ==
  ASSUME NEW i \in Tasks, GatesInv, Store(i)
  PROVE  GatesInv'
<1> USE GatesAssumption DEF GatesInv, Store, sumVars
<1>1. arr' \in [0 .. ArrLength - 1 -> Numbers \cup {0}]
  BY DEF GatesTypeOK
<1>2. GatesTypeOK'
  BY <1>1 DEF GatesTypeOK, Tasks, Parties, ArrLength
<1>3. Arrived' = Arrived /\ Tripped' = Tripped
  BY DEF Arrived, Tripped, GatesTypeOK
<1>4. CountInv'
  BY <1>3, SameArrivals
<1>5. ShapeInv' /\ StartInv'
  BY DEF ShapeInv, StartInv, GatesTypeOK
<1>6. LastInv'
  BY <1>3 DEF LastInv, GatesTypeOK
<1> QED
  BY <1>2, <1>4, <1>5, <1>6

(* A task at await() finds the barrier not yet passed and nobody in the    *)
(* action; if it is the last, all the others wait.                         *)
LEMMA AwaitFacts ==
  ASSUME NEW i \in Tasks, GatesInv, Await(i)
  PROVE  /\ demo = "cycle" /\ ~ Tripped /\ released = {}
         /\ \A j \in Tasks : task[j] # "sum"
         /\ Arrived' = Arrived \cup {i}
         /\ Cardinality(Arrived') = Cardinality(Arrived) + 1
         /\ count' = N - Cardinality(Arrived')
         /\ count' \in 0 .. Parties
         /\ count' = 0 => \A j \in Tasks \ {i} : task[j] = "wait"
<1> USE GatesAssumption DEF GatesInv, Await
<1>1. demo = "cycle" /\ ~ Tripped /\ released = {}
  BY DEF GatesTypeOK, ShapeInv, LastInv
<1>2. \A j \in Tasks : task[j] # "sum"
  BY DEF LastInv
<1>3. i \notin Arrived /\ Arrived \subseteq Tasks
  BY <1>1 DEF Arrived
<1>4. Arrived' = Arrived \cup {i}
  BY <1>1 DEF Arrived, GatesTypeOK
<1>5. Cardinality(Arrived') = Cardinality(Arrived) + 1 /\ Cardinality(Arrived) \in 0 .. N - 1
  BY <1>3, <1>4, OneMore
<1>6. count' = N - Cardinality(Arrived') /\ count' \in 0 .. Parties
  BY <1>1, <1>5 DEF CountInv, Parties
<1>7. ASSUME count' = 0 PROVE \A j \in Tasks \ {i} : task[j] = "wait"
  <2>1. Arrived' = Tasks
    BY <1>3, <1>4, <1>5, <1>6, <1>7, AllTasks
  <2>2. \A j \in Tasks \ {i} : j \in Arrived
    BY <1>4, <2>1
  <2> QED
    BY <1>1, <1>2, <2>2 DEF Arrived, Tripped
<1> QED
  BY <1>1, <1>2, <1>4, <1>5, <1>6, <1>7

LEMMA AwaitInv ==
  ASSUME NEW i \in Tasks, GatesInv, Await(i)
  PROVE  GatesInv'
<1> USE GatesAssumption, AwaitFacts DEF GatesInv, Await, sumVars
<1>1. GatesTypeOK'
  <2>1. index' \in 0 .. ArrLength /\ total' \in Nat
    BY DEF GatesTypeOK, ArrLength
  <2>2. task' \in [Tasks -> {"new", "run", "arrive", "wait", "sum", "done"}]
    BY DEF GatesTypeOK
  <2> QED
    BY <2>1, <2>2 DEF GatesTypeOK, ArrLength, Parties
<1>2. ~ Tripped' /\ ShapeInv' /\ StartInv'
  BY DEF Tripped, ShapeInv, StartInv, GatesTypeOK
<1>3. CountInv'
  BY DEF CountInv
<1>4. LastInv'
  BY <1>2 DEF LastInv, GatesTypeOK
<1> QED
  BY <1>1, <1>2, <1>3, <1>4

LEMMA NumbersAreNat == Numbers \cup {0} \subseteq Nat
BY GatesAssumption

LEMMA AddInv ==
  ASSUME NEW i \in Tasks, GatesInv, Add(i)
  PROVE  GatesInv'
<1> USE GatesAssumption DEF GatesInv, Add
<1>1. index' \in 0 .. ArrLength /\ total' \in Nat
  <2>1. index \in 0 .. ArrLength - 1
    BY DEF GatesTypeOK, ArrLength
  <2>2. arr[index] \in Numbers \cup {0}
    BY <2>1 DEF GatesTypeOK
  <2>3. arr[index] \in Nat
    BY <2>2, NumbersAreNat
  <2>4. index' \in 0 .. ArrLength
    BY <2>1 DEF ArrLength
  <2>5. total' \in Nat
    BY <2>3 DEF GatesTypeOK
  <2> QED
    BY <2>4, <2>5
<1>2. GatesTypeOK'
  BY <1>1 DEF GatesTypeOK, Tasks, ArrLength, Parties
<1>3. ShapeInv' /\ CountInv' /\ LastInv' /\ StartInv'
  BY DEF ShapeInv, CountInv, LastInv, StartInv, Tripped, Arrived, Tasks
<1> QED
  BY <1>2, <1>3

LEMMA PassBarrierInv ==
  ASSUME NEW i \in Tasks, GatesInv, Trip(i) \/ Wake(i)
  PROVE  GatesInv'
<1> USE GatesAssumption DEF GatesInv, Trip, Wake, sumVars
<1>1. demo = "cycle"
  BY DEF GatesTypeOK, ShapeInv
<1>2. \A j \in Tasks \ {i} : task[j] \in {"wait", "done"}
  BY DEF LastInv
<1>3. GatesTypeOK'
  <2>1. count' \in 0 .. Parties
    BY DEF GatesTypeOK, Parties
  <2>2. released' \in SUBSET Tasks
    BY DEF GatesTypeOK
  <2>3. task' \in [Tasks -> {"new", "run", "arrive", "wait", "sum", "done"}]
    BY DEF GatesTypeOK
  <2> QED
    BY <2>1, <2>2, <2>3 DEF GatesTypeOK, Tasks, ArrLength, Parties
<1>4. Tripped'
  BY <1>1 DEF Tripped, GatesTypeOK
<1>5. ShapeInv' /\ StartInv'
  BY DEF ShapeInv, StartInv, GatesTypeOK
<1>6. LastInv'
  BY <1>1, <1>2 DEF LastInv, GatesTypeOK
<1> QED
  BY <1>3, <1>4, <1>5, <1>6 DEF CountInv

LEMMA StepGatesInv == GatesInv /\ [GatesNext]_gatesVars => GatesInv'
<1> SUFFICES ASSUME GatesInv, [GatesNext]_gatesVars PROVE GatesInv'
  OBVIOUS
<1>1. CASE StartTask
  BY <1>1, StartTaskInv
<1>2. CASE AllStarted \/ \E w \in {Main, WaitTask} : PassLatch(w)
  BY <1>2, WaitersInv
<1>3. ASSUME NEW i \in Tasks, TaskStep(i) PROVE GatesInv'
  BY <1>3, CountDownInv, StoreInv, AwaitInv, AddInv, PassBarrierInv DEF TaskStep
<1>4. CASE UNCHANGED gatesVars
  <2>1. GatesTypeOK' /\ ShapeInv'
    BY <1>4 DEF gatesVars, sumVars, GatesInv, GatesTypeOK, ShapeInv, Tasks, ArrLength, Parties
  <2>2. CountInv' /\ LastInv' /\ StartInv'
    BY <1>4 DEF gatesVars, sumVars, GatesInv, CountInv, LastInv, StartInv, Tripped, Arrived, Tasks
  <2> QED
    BY <2>1, <2>2 DEF GatesInv
<1> QED
  BY <1>1, <1>2, <1>3, <1>4 DEF GatesNext, MainStep

LEMMA GatesInvariance == GatesSpec => []GatesInv
BY InitGatesInv, StepGatesInv, PTL DEF GatesSpec

(* Every variable of the two programs keeps its type: the count never      *)
(* becomes negative and the action's loop stays inside the array.          *)
THEOREM GatesTypeCorrect == GatesSpec => []GatesTypeOK
<1>1. GatesInv => GatesTypeOK
  BY DEF GatesInv
<1> QED
  BY <1>1, GatesInvariance, PTL

-----------------------------------------------------------------------------
(* The refinement: each step maps to an arrival, a pass or a stutter.      *)

LEMMA GateInit == GatesInit => Gate!Init
BY GatesAssumption DEF GatesInit, Gate!Init, Arrived, Passed, Tasks

LEMMA GateStep == GatesInv /\ [GatesNext]_gatesVars => [Gate!Next]_<<Arrived, Passed>>
<1> SUFFICES ASSUME GatesInv, [GatesNext]_gatesVars PROVE [Gate!Next]_<<Arrived, Passed>>
  OBVIOUS
<1> USE GatesAssumption DEF GatesInv, sumVars
<1>1. CASE StartTask
  <2>1. next \in Tasks /\ task[next] = "new"
    BY <1>1 DEF StartTask, StartInv, Tasks, GatesTypeOK
  <2> QED
    BY <1>1, <2>1 DEF StartTask, Arrived, Passed, GatesTypeOK
<1>2. CASE AllStarted
  <2>1. Arrived' = Arrived
    BY <1>2 DEF AllStarted, Arrived
  <2>2. Passed' = Passed
    BY <1>2 DEF AllStarted, Passed, GatesTypeOK, ShapeInv
  <2> QED
    BY <2>1, <2>2
<1>3. ASSUME NEW w \in {Main, WaitTask}, PassLatch(w)
      PROVE  [Gate!Next]_<<Arrived, Passed>>
  <2>1. demo = "latch" /\ ~ Tripped
    BY <1>3 DEF PassLatch, GatesTypeOK, ShapeInv, Tripped
  <2>2. Arrived = Tasks
    <3>1. Arrived \subseteq Tasks /\ Cardinality(Arrived) = N - count
      BY <2>1, AllTasks DEF Arrived, CountInv
    <3> QED
      BY <1>3, <3>1, AllTasks DEF PassLatch
  <2>3. Arrived' = Arrived /\ w \notin Passed /\ Passed' = Passed \cup {w}
    BY <1>3, <2>1 DEF PassLatch, Arrived, Passed, GatesTypeOK
  <2>4. Gate!Pass(w)
    BY <2>2, <2>3 DEF Gate!Pass
  <2> QED
    BY <2>4 DEF Gate!Next
<1>4. ASSUME NEW i \in Tasks, CountDown(i) PROVE Gate!Arrive(i)
  <2>1. i \notin Arrived /\ Arrived' = Arrived \cup {i}
    BY <1>4 DEF CountDown, Arrived, GatesTypeOK
  <2>2. Passed' = Passed
    BY <1>4 DEF CountDown, Passed
  <2> QED
    BY <2>1, <2>2 DEF Gate!Arrive
<1>5. ASSUME NEW i \in Tasks, Await(i) PROVE Gate!Arrive(i)
  <2>1. demo = "cycle" /\ Arrived' = Arrived \cup {i}
    BY <1>5, AwaitFacts
  <2>2. i \notin Arrived
    BY <1>5, <2>1 DEF Await, Arrived
  <2>3. Passed' = Passed
    BY <1>5, <2>1 DEF Await, Passed, GatesTypeOK
  <2> QED
    BY <2>1, <2>2, <2>3 DEF Gate!Arrive
<1>6. ASSUME NEW i \in Tasks, Store(i) \/ Add(i)
      PROVE  UNCHANGED <<Arrived, Passed>>
  <2>1. CASE Store(i)
    BY <2>1 DEF Store, Arrived, Passed, GatesTypeOK
  <2>2. CASE Add(i)
    BY <2>2 DEF Add, Arrived, Passed, GatesTypeOK
  <2> QED
    BY <1>6, <2>1, <2>2
<1>7. ASSUME NEW i \in Tasks, Trip(i) \/ Wake(i) PROVE Gate!Pass(i)
  <2>1. demo = "cycle" /\ \A j \in Tasks : task[j] \in {"wait", "sum", "done"}
    BY <1>7 DEF Trip, Wake, GatesTypeOK, ShapeInv, LastInv
  <2>2. Arrived = Tasks /\ Arrived' = Tasks
    BY <1>7, <2>1 DEF Trip, Wake, Arrived, GatesTypeOK
  <2>3. i \notin Passed /\ Passed' = Passed \cup {i}
    BY <1>7, <2>1 DEF Trip, Wake, Passed, GatesTypeOK
  <2> QED
    BY <2>2, <2>3 DEF Gate!Pass
<1>8. CASE UNCHANGED gatesVars
  BY <1>8 DEF gatesVars, Arrived, Passed
<1> QED
  BY <1>1, <1>2, <1>3, <1>4, <1>5, <1>6, <1>7, <1>8
  DEF GatesNext, MainStep, TaskStep, Gate!Next

(* At the barrier and at the latch nobody passes before every task has     *)
(* arrived, however many there are.                                        *)
THEOREM GatesRefine == GatesSpec => ImplementsRendezvous
BY GatesInvariance, GateInit, GateStep, PTL
   DEF GatesSpec, ImplementsRendezvous, Gate!Spec

-----------------------------------------------------------------------------
(* The sum of the numbers: SumFunctionOnSet adds the elements of a set in  *)
(* an order nobody knows.                                                  *)

(* The element that a fold over a set takes first.                         *)
Chosen(s) == CHOOSE x \in s : TRUE

(* The pairs of an index and a number up to its value: as many as the sum  *)
(* of the values.  Their number is a sum that no recursion defines.        *)
Units(f, s) == {u \in s \X Nat : u[2] \in 1 .. f[u[1]]}

LEMMA UnitsOfOne ==
  ASSUME NEW f, NEW x, f[x] \in Nat
  PROVE  IsFiniteSet({x} \X (1 .. f[x])) /\ Cardinality({x} \X (1 .. f[x])) = f[x]
<1> DEFINE n == f[x]
<1> HIDE DEF n
<1>1. IsFiniteSet(1 .. n) /\ Cardinality(1 .. n) = n
  BY FS_Interval DEF n
<1>2. IsFiniteSet({x}) /\ Cardinality({x}) = 1
  BY FS_Singleton
<1>3. /\ IsFiniteSet({x} \X (1 .. n))
      /\ Cardinality({x} \X (1 .. n)) = Cardinality({x}) * Cardinality(1 .. n)
  BY <1>1, <1>2, FS_Product, ZenonT(60)
<1>4. n \in Nat
  BY DEF n
<1>5. Cardinality({x} \X (1 .. n)) = n
  BY <1>1, <1>2, <1>3, <1>4
<1> QED
  BY <1>3, <1>5 DEF n

LEMMA UnitsOfMore ==
  ASSUME NEW f, NEW s, NEW x \in s, IsFiniteSet(Units(f, s \ {x})), f[x] \in Nat
  PROVE  /\ IsFiniteSet(Units(f, s))
         /\ Cardinality(Units(f, s)) = f[x] + Cardinality(Units(f, s \ {x}))
<1> DEFINE A == {x} \X (1 .. f[x])
           B == Units(f, s \ {x})
<1>1. Units(f, s) = A \cup B /\ A \cap B = {}
  BY DEF Units
<1>2. IsFiniteSet(A) /\ Cardinality(A) = f[x]
  BY UnitsOfOne
<1>3. Cardinality(B) \in Nat
  BY FS_CardinalityType
<1> HIDE DEF A, B
<1>4. /\ IsFiniteSet(A \cup B)
      /\ Cardinality(A \cup B) = Cardinality(A) + Cardinality(B) - Cardinality(A \cap B)
  BY <1>2, FS_Union DEF B
<1>5. Cardinality(A \cap B) = 0
  BY <1>1, FS_EmptySet
<1> QED
  BY <1>1, <1>2, <1>3, <1>4, <1>5 DEF B

LEMMA SmallestSet ==
  ASSUME NEW S, IsFiniteSet(S), NEW F \in SUBSET (SUBSET S), F # {}
  PROVE  \E s \in F : \A t \in F : t \subseteq s => t = s
<1>1. F \subseteq FiniteSubsetsOf(S)
  BY FS_Subset DEF FiniteSubsetsOf
<1>2. PICK s \in F : \A t \in F : <<t, s>> \notin StrictSubsetOrdering(S)
  BY <1>1, FS_StrictSubsetOrderingWellFounded, WFMin
<1> QED
  BY <1>2 DEF StrictSubsetOrdering

LEMMA UnitsAreFinite ==
  ASSUME NEW S, IsFiniteSet(S), NEW f, \A x \in S : f[x] \in Nat
  PROVE  \A s \in SUBSET S : IsFiniteSet(Units(f, s))
<1> DEFINE F == {s \in SUBSET S : ~ IsFiniteSet(Units(f, s))}
<1> SUFFICES ASSUME F # {} PROVE FALSE
  OBVIOUS
<1>1. PICK s \in F : \A t \in F : t \subseteq s => t = s
  <2>1. F \in SUBSET (SUBSET S)
    OBVIOUS
  <2> HIDE DEF F
  <2> QED
    BY <2>1, SmallestSet
<1>2. s # {}
  <2>1. Units(f, {}) = {}
    BY DEF Units
  <2> QED
    BY <2>1, FS_EmptySet
<1>3. PICK x \in s : TRUE
  BY <1>2
<1>4. s \ {x} \in SUBSET S /\ s \ {x} # s /\ f[x] \in Nat
  OBVIOUS
<1>5. IsFiniteSet(Units(f, s \ {x}))
  BY <1>1, <1>4
<1> QED
  BY <1>4, <1>5, UnitsOfMore

(* One turn of the recursion that SumFunctionOnSet stands for.             *)
SumStep(f, g, s) ==
  IF s = {} THEN 0 ELSE f[Chosen(s)] + g[s \ {Chosen(s)}]

LEMMA SumUnfolded ==
  ASSUME NEW f, NEW S
  PROVE  SumFunctionOnSet(f, S) =
           (CHOOSE g : g = [s \in SUBSET S |-> SumStep(f, g, s)])[S]
BY DEF SumFunctionOnSet, FoldFunctionOnSet, MapThenFoldSet, SumStep, Chosen

LEMMA SumSolved ==
  ASSUME NEW S, IsFiniteSet(S), NEW f, \A x \in S : f[x] \in Nat
  PROVE  \E g : g = [s \in SUBSET S |-> SumStep(f, g, s)]
<1> DEFINE g == [s \in SUBSET S |-> Cardinality(Units(f, s))]
<1>1. ASSUME NEW s \in SUBSET S PROVE g[s] = SumStep(f, g, s)
  <2>1. CASE s = {}
    <3>1. Units(f, s) = {}
      BY <2>1 DEF Units
    <3> QED
      BY <2>1, <3>1, FS_EmptySet DEF SumStep
  <2>2. CASE s # {}
    <3>1. Chosen(s) \in s /\ s \ {Chosen(s)} \in SUBSET S /\ f[Chosen(s)] \in Nat
      BY <2>2 DEF Chosen
    <3>2. IsFiniteSet(Units(f, s \ {Chosen(s)}))
      BY <3>1, UnitsAreFinite
    <3>3. Cardinality(Units(f, s)) =
            f[Chosen(s)] + Cardinality(Units(f, s \ {Chosen(s)}))
      BY <3>1, <3>2, UnitsOfMore
    <3> QED
      BY <2>2, <3>1, <3>3 DEF SumStep
  <2> QED
    BY <2>1, <2>2
<1>2. g = [s \in SUBSET S |-> SumStep(f, g, s)]
  <2> DEFINE h == [s \in SUBSET S |-> SumStep(f, g, s)]
  <2>1. \A s \in SUBSET S : g[s] = h[s]
    BY <1>1
  <2>2. g = [s \in SUBSET S |-> g[s]] /\ h = [s \in SUBSET S |-> h[s]]
    OBVIOUS
  <2> HIDE DEF g, h
  <2>3. g = h
    BY <2>1, <2>2
  <2> QED
    BY <2>3 DEF h
<1> HIDE DEF g
<1> QED
  BY <1>2

(* The sum over a finite set of natural numbers is what it counts.         *)
LEMMA SumIsCount ==
  ASSUME NEW S, IsFiniteSet(S), NEW f, \A x \in S : f[x] \in Nat
  PROVE  SumFunctionOnSet(f, S) = Cardinality(Units(f, S))
<1> DEFINE g == CHOOSE h : h = [s \in SUBSET S |-> SumStep(f, h, s)]
<1>1. g = [s \in SUBSET S |-> SumStep(f, g, s)]
  BY SumSolved
<1>2. SumFunctionOnSet(f, S) = g[S]
  BY SumUnfolded
<1> HIDE DEF g
<1> DEFINE F == {s \in SUBSET S : g[s] # Cardinality(Units(f, s))}
<1>3. F = {}
  <2> SUFFICES ASSUME F # {} PROVE FALSE
    OBVIOUS
  <2>1. PICK s \in F : \A t \in F : t \subseteq s => t = s
    <3>1. F \in SUBSET (SUBSET S)
      OBVIOUS
    <3> HIDE DEF F
    <3> QED
      BY <3>1, SmallestSet
  <2>2. g[s] = SumStep(f, g, s)
    BY <1>1
  <2>3. CASE s = {}
    <3>1. Units(f, s) = {}
      BY <2>3 DEF Units
    <3> QED
      BY <2>2, <2>3, <3>1, FS_EmptySet DEF SumStep
  <2>4. CASE s # {}
    <3> DEFINE x == Chosen(s)
    <3>1. x \in s /\ s \ {x} \in SUBSET S /\ s \ {x} # s /\ f[x] \in Nat
      BY <2>4 DEF Chosen
    <3>2. g[s] = f[x] + g[s \ {x}]
      BY <2>2, <2>4 DEF SumStep
    <3> HIDE DEF x
    <3>3. g[s \ {x}] = Cardinality(Units(f, s \ {x}))
      BY <2>1, <3>1
    <3>4. Cardinality(Units(f, s)) = f[x] + Cardinality(Units(f, s \ {x}))
      BY <3>1, UnitsAreFinite, UnitsOfMore
    <3> QED
      BY <3>2, <3>3, <3>4
  <2> QED
    BY <2>3, <2>4
<1> QED
  BY <1>2, <1>3

(* An element more adds its number.                                        *)
LEMMA SumOfMore ==
  ASSUME NEW S, IsFiniteSet(S), NEW x, x \notin S, NEW f,
         \A y \in S \cup {x} : f[y] \in Nat
  PROVE  /\ SumFunctionOnSet(f, S \cup {x}) = SumFunctionOnSet(f, S) + f[x]
         /\ SumFunctionOnSet(f, S) \in Nat
<1>1. IsFiniteSet(S \cup {x}) /\ (S \cup {x}) \ {x} = S
  BY FS_AddElement
<1>2. /\ SumFunctionOnSet(f, S \cup {x}) = Cardinality(Units(f, S \cup {x}))
      /\ SumFunctionOnSet(f, S) = Cardinality(Units(f, S))
  BY <1>1, SumIsCount
<1>3. IsFiniteSet(Units(f, S))
  BY UnitsAreFinite
<1>4. Cardinality(Units(f, S \cup {x})) = f[x] + Cardinality(Units(f, S))
  <2> DEFINE T == S \cup {x}
  <2>1. x \in T /\ T \ {x} = S /\ f[x] \in Nat
    OBVIOUS
  <2> HIDE DEF T
  <2>2. Cardinality(Units(f, T)) = f[x] + Cardinality(Units(f, T \ {x}))
    <3>1. IsFiniteSet(Units(f, T \ {x}))
      BY <1>3, <2>1
    <3> QED
      BY <2>1, <3>1, UnitsOfMore
  <2> QED
    BY <2>1, <2>2 DEF T
<1>5. f[x] \in Nat /\ Cardinality(Units(f, S)) \in Nat
  BY <1>3, FS_CardinalityType
<1> QED
  BY <1>2, <1>4, <1>5

LEMMA SumOfNone == ASSUME NEW f PROVE SumFunctionOnSet(f, {}) = 0
<1>1. Units(f, {}) = {}
  BY DEF Units
<1>2. SumFunctionOnSet(f, {}) = Cardinality(Units(f, {}))
  BY SumIsCount, FS_EmptySet
<1> QED
  BY <1>1, <1>2, FS_EmptySet

-----------------------------------------------------------------------------
(* The barrier action's total                                              *)

(* The elements of arr that the barrier action has added, and that belong  *)
(* to a task.                                                              *)
Summed == Tasks \cap (0 .. index - 1)

(* Nobody stores into the first and the last element, a task past run has  *)
(* stored its number, the action has the sum of what it has read, and the  *)
(* sum stays that of all the numbers once the barrier has been passed.     *)
SumInv ==
  demo = "cycle" =>
    /\ arr[0] = 0 /\ arr[N + 1] = 0
    /\ \A i \in Tasks : task[i] \notin {"new", "run"} => arr[i] \in Numbers
    /\ (\E i \in Tasks : task[i] = "sum") => total = SumFunctionOnSet(arr, Summed)
    /\ Tripped \/ released # {} => total = SumFunctionOnSet(arr, Tasks)

LEMMA InitSumInv == GatesInit => SumInv
<1> SUFFICES ASSUME GatesInit PROVE SumInv
  OBVIOUS
<1>1. 0 \in 0 .. ArrLength - 1 /\ N + 1 \in 0 .. ArrLength - 1
  BY GatesAssumption DEF ArrLength
<1>2. arr[0] = 0 /\ arr[N + 1] = 0
  BY <1>1 DEF GatesInit
<1>3. released = {} /\ \A i \in Tasks : task[i] = "new"
  BY DEF GatesInit
<1> QED
  BY <1>2, <1>3 DEF SumInv, Tripped

(* A store is over before anybody adds: a task that still runs has kept    *)
(* the barrier closed.                                                     *)
LEMMA StoreSumInv ==
  ASSUME NEW i \in Tasks, GatesInv, SumInv, Store(i)
  PROVE  SumInv'
<1> USE GatesAssumption
<1>1. \A j \in Tasks : task[j] # "sum" /\ task'[j] # "sum"
  BY DEF Store, GatesInv, LastInv, GatesTypeOK
<1>2. ~ Tripped' /\ released' = {}
  BY DEF Store, GatesInv, LastInv, GatesTypeOK, Tripped
<1>3. PICK x \in Numbers : arr' = [arr EXCEPT ![i] = x]
  BY DEF Store
<1>4. i \in 0 .. ArrLength - 1 /\ i # 0 /\ i # N + 1 /\ Tasks \subseteq 0 .. ArrLength - 1
  BY DEF Tasks, ArrLength
<1>5. arr'[i] = x /\ (\A k \in 0 .. ArrLength - 1 : k # i => arr'[k] = arr[k])
  BY <1>3, <1>4 DEF GatesInv, GatesTypeOK
<1>6. arr'[0] = 0 /\ arr'[N + 1] = 0
  <2>1. 0 \in 0 .. ArrLength - 1 /\ N + 1 \in 0 .. ArrLength - 1
    BY DEF ArrLength
  <2> QED
    BY <1>4, <1>5, <2>1 DEF SumInv, Store
<1>7. ASSUME NEW j \in Tasks, task'[j] \notin {"new", "run"} PROVE arr'[j] \in Numbers
  <2>1. CASE j = i
    BY <1>5, <2>1
  <2>2. CASE j # i
    <3>1. task'[j] = task[j]
      BY <2>2 DEF Store, GatesInv, GatesTypeOK
    <3>2. arr'[j] = arr[j]
      BY <1>4, <1>5, <2>2
    <3> QED
      BY <1>7, <3>1, <3>2 DEF SumInv, Store
  <2> QED
    BY <2>1, <2>2
<1> QED
  BY <1>1, <1>2, <1>6, <1>7 DEF SumInv

(* The last to arrive starts the action with nothing added.                *)
LEMMA AwaitSumInv ==
  ASSUME NEW i \in Tasks, GatesInv, SumInv, Await(i)
  PROVE  SumInv'
<1>1. demo = "cycle" /\ ~ Tripped /\ \A j \in Tasks : task[j] # "sum"
  BY AwaitFacts
<1>2. arr' = arr /\ demo' = demo /\ ~ Tripped' /\ released' = {}
  BY <1>1, AwaitFacts DEF Await, Tripped, GatesInv, GatesTypeOK
<1>3. \A j \in Tasks : task'[j] \notin {"new", "run"} => task[j] \notin {"new", "run"}
  BY DEF Await, GatesInv, GatesTypeOK
<1>4. ASSUME NEW j \in Tasks, task'[j] = "sum"
      PROVE  total' = SumFunctionOnSet(arr', Summed')
  <2>1. count' = 0
    BY <1>1, <1>4 DEF Await, GatesInv, GatesTypeOK
  <2>2. index' = 0 /\ total' = 0
    BY <2>1 DEF Await
  <2>3. Summed' = {}
    BY <2>2 DEF Summed
  <2> QED
    BY <2>2, <2>3, SumOfNone
<1> QED
  BY <1>1, <1>2, <1>3, <1>4 DEF SumInv

LEMMA AddSumInv ==
  ASSUME NEW i \in Tasks, GatesInv, SumInv, Add(i)
  PROVE  SumInv'
<1> USE GatesAssumption
<1>1. /\ demo = "cycle" /\ demo' = demo /\ arr' = arr /\ task' = task
      /\ total' = total + arr[index] /\ index' = index + 1
  BY DEF Add, GatesInv, GatesTypeOK, ShapeInv
<1>2. ~ Tripped' /\ released' = {}
  <2>1. ~ Tripped /\ released = {}
    BY DEF Add, GatesInv, LastInv, Tripped
  <2> QED
    BY <1>1, <2>1 DEF Tripped, Add
<1>3. index \in 0 .. ArrLength - 1 /\ total = SumFunctionOnSet(arr, Summed)
  BY <1>1 DEF Add, GatesInv, GatesTypeOK, SumInv, ArrLength
<1>4. total' = SumFunctionOnSet(arr', Summed')
  <2>1. IsFiniteSet(Summed) /\ Summed \subseteq Tasks /\ index \notin Summed
    BY <1>3, AllTasks DEF Summed
  <2>2. CASE index \in Tasks
    <3>1. Summed' = Summed \cup {index}
      BY <1>1, <1>3, <2>2 DEF Summed
    <3>2. \A k \in Summed \cup {index} : arr[k] \in Nat
      <4>1. \A k \in Tasks : k \in 0 .. ArrLength - 1
        BY DEF Tasks, ArrLength
      <4>2. \A k \in Tasks : arr[k] \in Nat
        BY <4>1, NumbersAreNat DEF GatesInv, GatesTypeOK
      <4> QED
        BY <2>1, <2>2, <4>2
    <3>3. SumFunctionOnSet(arr, Summed \cup {index}) =
            SumFunctionOnSet(arr, Summed) + arr[index]
      BY <2>1, <3>2, SumOfMore
    <3> QED
      BY <1>1, <1>3, <3>1, <3>3
  <2>3. CASE index \notin Tasks
    <3>1. Summed' = Summed
      BY <1>1, <1>3, <2>3 DEF Summed
    <3>2. index = 0 \/ index = N + 1
      BY <1>3, <2>3 DEF Tasks, ArrLength
    <3>3. arr[index] = 0
      BY <1>1, <3>2 DEF SumInv
    <3>4. total' = total
      BY <1>1, <3>3 DEF GatesInv, GatesTypeOK
    <3> QED
      BY <1>1, <1>3, <3>1, <3>4
  <2> QED
    BY <2>2, <2>3
<1> QED
  BY <1>1, <1>2, <1>4 DEF SumInv

(* When the action returns it has read the whole array.                    *)
LEMMA PassBarrierSumInv ==
  ASSUME NEW i \in Tasks, GatesInv, SumInv, Trip(i) \/ Wake(i)
  PROVE  SumInv'
<1> USE GatesAssumption
<1>1. demo = "cycle" /\ demo' = demo /\ arr' = arr /\ total' = total
  BY DEF Trip, Wake, sumVars, GatesInv, GatesTypeOK, ShapeInv
<1>2. total = SumFunctionOnSet(arr, Tasks)
  <2>1. CASE Trip(i)
    <3>1. Summed = Tasks
      BY <2>1 DEF Trip, Summed, Tasks, ArrLength
    <3> QED
      BY <1>1, <2>1, <3>1 DEF Trip, SumInv
  <2>2. CASE Wake(i)
    BY <1>1, <2>2 DEF SumInv, Wake
  <2> QED
    BY <2>1, <2>2
<1>3. \A j \in Tasks : /\ task'[j] \notin {"new", "run"}
                       /\ task[j] \notin {"new", "run"}
                       /\ task'[j] # "sum"
  BY DEF Trip, Wake, GatesInv, LastInv, GatesTypeOK
<1> QED
  BY <1>1, <1>2, <1>3 DEF SumInv

LEMMA StepSumInv == GatesInv /\ SumInv /\ [GatesNext]_gatesVars => SumInv'
<1> SUFFICES ASSUME GatesInv, SumInv, [GatesNext]_gatesVars PROVE SumInv'
  OBVIOUS
<1>1. CASE StartTask
  <2>1. next \in Tasks /\ task[next] = "new"
    BY <1>1, GatesAssumption DEF StartTask, GatesInv, GatesTypeOK, StartInv, Tasks
  <2>2. task' = [task EXCEPT ![next] = "run"]
    BY <1>1 DEF StartTask
  <2>3. \A j \in Tasks : task'[j] # task[j] => task'[j] = "run"
    BY <2>1, <2>2 DEF GatesInv, GatesTypeOK
  <2>4. Tripped' => Tripped
    BY <1>1, <2>3 DEF StartTask, Tripped
  <2>5. Summed' = Summed
    BY <1>1 DEF StartTask, sumVars, Summed
  <2> QED
    BY <1>1, <2>3, <2>4, <2>5 DEF StartTask, sumVars, SumInv
<1>2. CASE AllStarted \/ (\E w \in {Main, WaitTask} : PassLatch(w)) \/ UNCHANGED gatesVars
  BY <1>2 DEF AllStarted, PassLatch, gatesVars, sumVars, SumInv, Tripped, Summed
<1>3. ASSUME NEW i \in Tasks, TaskStep(i) PROVE SumInv'
  <2>1. CASE CountDown(i)
    BY <2>1 DEF CountDown, SumInv
  <2> QED
    BY <1>3, <2>1, StoreSumInv, AwaitSumInv, AddSumInv, PassBarrierSumInv DEF TaskStep
<1> QED
  BY <1>1, <1>2, <1>3 DEF GatesNext, MainStep

(* A task that is past the barrier finds the total of all the numbers:     *)
(* every task has stored its own in an element of its own, and the action  *)
(* of the last to arrive has added each of them once.                      *)
THEOREM TotalIsComplete == GatesSpec => []TotalIsOfAll
<1>1. GatesSpec => []SumInv
  BY GatesInvariance, InitSumInv, StepSumInv, PTL DEF GatesSpec
<1>2. GatesInv /\ SumInv => TotalIsOfAll
  BY DEF GatesInv, GatesTypeOK, LastInv, SumInv, Tripped, TotalIsOfAll
<1> QED
  BY GatesInvariance, <1>1, <1>2, PTL

-----------------------------------------------------------------------------
(* Nobody waits for a thread that never comes                              *)

(* Some thread may execute its next statement.                             *)
SomebodyCanGo ==
  \/ waiter[Main] = "start"
  \/ \E w \in {Main, WaitTask} : waiter[w] = "await" /\ count = 0
  \/ \E i \in Tasks : \/ task[i] \in {"run", "arrive", "sum"}
                      \/ task[i] = "wait" /\ i \in released

EverybodyHasPassed ==
  /\ waiter[Main] = "done"
  /\ demo = "latch" => waiter[WaitTask] = "done"
  /\ \A i \in Tasks : task[i] = "done"

(* Only main starts threads, and it starts all.  A closed barrier that     *)
(* waits for nobody has its action running, and a barrier that was passed  *)
(* has let go everybody who waited.                                        *)
AliveInv ==
  /\ \A i \in Tasks : task[i] = "new" => i >= next /\ waiter[Main] = "start"
  /\ waiter[Main] # "new"
  /\ demo = "latch" /\ waiter[Main] # "start" => waiter[WaitTask] # "new"
  /\ waiter[WaitTask] # "start"
  /\ demo = "cycle" /\ ~ Tripped /\ count = 0 => \E i \in Tasks : task[i] = "sum"
  /\ Tripped \/ released # {} =>
       \A i \in Tasks : task[i] = "wait" => i \in released

LEMMA InitAliveInv == GatesInit => AliveInv
<1> SUFFICES ASSUME GatesInit PROVE AliveInv
  OBVIOUS
<1>1. waiter[Main] = "start" /\ waiter[WaitTask] = "new" /\ count # 0 /\ next = 1
  BY GatesAssumption DEF GatesInit, Parties
<1>2. \A i \in Tasks : task[i] = "new" /\ i >= 1
  BY DEF GatesInit, Tasks
<1> QED
  BY <1>1, <1>2 DEF AliveInv, Tripped

(* Main starts the tasks and the WaitTask, and the waiters pass.           *)
LEMMA WaitersAliveInv ==
  ASSUME GatesInv, AliveInv,
         \/ StartTask \/ AllStarted
         \/ \E w \in {Main, WaitTask} : PassLatch(w)
  PROVE  AliveInv'
<1> USE GatesAssumption DEF GatesInv, AliveInv
<1>1. CASE StartTask
  <2>1. next \in Tasks /\ task[next] = "new" /\ next' = next + 1
    BY <1>1 DEF StartTask, StartInv, Tasks, GatesTypeOK
  <2>2. \A i \in Tasks : task'[i] = IF i = next THEN "run" ELSE task[i]
    BY <1>1 DEF StartTask, GatesTypeOK
  <2>3. \A i \in Tasks : task'[i] = "new" => i >= next'
    BY <2>1, <2>2 DEF Tasks
  <2>4. Tripped' = Tripped
    BY <1>1, <2>1, <2>2 DEF StartTask, Tripped
  <2> QED
    BY <1>1, <2>1, <2>2, <2>3, <2>4 DEF StartTask
<1>2. CASE AllStarted
  <2>1. \A i \in Tasks : task[i] # "new"
    BY <1>2 DEF AllStarted, Tasks
  <2>2. Tripped' = Tripped
    BY <1>2 DEF AllStarted, Tripped
  <2>3. /\ waiter'[Main] \notin {"new", "start"} /\ waiter'[WaitTask] # "start"
        /\ demo = "latch" => waiter'[WaitTask] # "new"
    BY <1>2 DEF AllStarted, GatesTypeOK
  <2> QED
    BY <1>2, <2>1, <2>2, <2>3 DEF AllStarted
<1>3. ASSUME NEW w \in {Main, WaitTask}, PassLatch(w) PROVE AliveInv'
  <2>1. Tripped' = Tripped
    BY <1>3 DEF PassLatch, Tripped
  <2>2. waiter'[Main] \in {waiter[Main], "done"}
        /\ waiter'[WaitTask] \in {waiter[WaitTask], "done"}
        /\ (waiter[Main] = "start" => waiter'[Main] = "start")
    BY <1>3 DEF PassLatch, GatesTypeOK
  <2> QED
    BY <1>3, <2>1, <2>2 DEF PassLatch
<1> QED
  BY <1>1, <1>2, <1>3

LEMMA TaskAliveInv ==
  ASSUME NEW i \in Tasks, GatesInv, AliveInv, TaskStep(i)
  PROVE  AliveInv'
<1> USE GatesAssumption DEF GatesInv, AliveInv
<1>1. UNCHANGED <<demo, next, waiter>>
  BY DEF TaskStep, CountDown, Store, Await, Add, Trip, Wake
<1>2. \A j \in Tasks : task'[j] = "new" => task[j] = "new"
  BY DEF TaskStep, CountDown, Store, Await, Add, Trip, Wake, GatesTypeOK
<1>3. CASE CountDown(i)
  BY <1>1, <1>2, <1>3 DEF CountDown, Tripped
<1>4. CASE Store(i) \/ Add(i)
  <2>1. \A j \in Tasks : /\ task'[j] = "done" <=> task[j] = "done"
                         /\ task'[j] = "wait" <=> task[j] = "wait"
                         /\ task'[j] = "sum" <=> task[j] = "sum"
    BY <1>4 DEF Store, Add, GatesTypeOK
  <2>2. count' = count /\ released' = released
    BY <1>4 DEF Store, Add
  <2>3. Tripped' = Tripped
    BY <1>1, <2>1 DEF Tripped
  <2> QED
    BY <1>1, <1>2, <2>1, <2>2, <2>3
<1>5. CASE Await(i)
  <2>1. ~ Tripped' /\ released' = {}
    BY <1>5, AwaitFacts DEF Await, Tripped, GatesTypeOK
  <2>2. count' = 0 => task'[i] = "sum"
    BY <1>5 DEF Await, GatesTypeOK
  <2> QED
    BY <1>1, <1>2, <2>1, <2>2
<1>6. CASE Trip(i)
  <2>1. Tripped'
    BY <1>6 DEF Trip, Tripped, GatesTypeOK, ShapeInv
  <2>2. \A j \in Tasks : task'[j] = "wait" => j \in released'
    BY <1>6 DEF Trip, GatesTypeOK
  <2> QED
    BY <1>1, <1>2, <2>1, <2>2
<1>7. CASE Wake(i)
  <2>1. Tripped' /\ released # {}
    BY <1>7 DEF Wake, Tripped, GatesTypeOK, LastInv
  <2>2. released' = released /\ (\A j \in Tasks : task'[j] = "wait" => task[j] = "wait")
    BY <1>7 DEF Wake, GatesTypeOK
  <2> QED
    BY <1>1, <1>2, <2>1, <2>2
<1> QED
  BY <1>3, <1>4, <1>5, <1>6, <1>7 DEF TaskStep

LEMMA StepAliveInv == GatesInv /\ AliveInv /\ [GatesNext]_gatesVars => AliveInv'
<1>1. AliveInv /\ UNCHANGED gatesVars => AliveInv'
  BY DEF AliveInv, gatesVars, sumVars, Tripped
<1> QED
  BY <1>1, WaitersAliveInv, TaskAliveInv DEF GatesNext, MainStep

(* At the barrier and at the latch nobody waits for ever: as long as a     *)
(* task, main or the WaitTask has not passed, some thread can go on.       *)
THEOREM NobodyIsStuck == GatesSpec => [](SomebodyCanGo \/ EverybodyHasPassed)
<1>1. GatesSpec => []AliveInv
  BY GatesInvariance, InitAliveInv, StepAliveInv, PTL DEF GatesSpec
<1>2. GatesInv /\ AliveInv => SomebodyCanGo \/ EverybodyHasPassed
  <2> SUFFICES ASSUME GatesInv, AliveInv, ~ SomebodyCanGo PROVE EverybodyHasPassed
    OBVIOUS
  <2> USE GatesAssumption
  <2>1. \A i \in Tasks : task[i] \in {"wait", "done"} /\ (task[i] = "wait" => i \notin released)
    BY DEF GatesInv, GatesTypeOK, AliveInv, SomebodyCanGo
  <2>2. CASE demo = "cycle"
    <3>1. Tripped
      <4> SUFFICES ASSUME ~ Tripped PROVE FALSE
        OBVIOUS
      <4>1. Arrived = Tasks
        BY <2>1, <2>2 DEF Arrived
      <4>2. count = 0
        BY <4>1, FS_Interval DEF GatesInv, CountInv, Tasks
      <4> QED
        BY <2>1, <2>2, <4>2 DEF AliveInv
    <3>2. waiter[Main] = "done"
      BY <2>2 DEF GatesInv, ShapeInv, SomebodyCanGo
    <3> QED
      BY <2>1, <2>2, <3>1, <3>2 DEF AliveInv, EverybodyHasPassed
  <2>3. CASE demo = "latch"
    <3>1. \A i \in Tasks : task[i] = "done"
      BY <2>1, <2>3 DEF GatesInv, ShapeInv
    <3>2. Arrived = Tasks /\ ~ Tripped
      BY <2>3, <3>1 DEF Arrived, Tripped
    <3>3. count = 0
      BY <3>2, FS_Interval DEF GatesInv, CountInv, Tasks
    <3>4. waiter[Main] = "done" /\ waiter[WaitTask] = "done"
      BY <2>3, <3>3 DEF GatesInv, GatesTypeOK, AliveInv, SomebodyCanGo
    <3> QED
      BY <3>1, <3>4 DEF EverybodyHasPassed
  <2> QED
    BY <2>2, <2>3 DEF GatesInv, GatesTypeOK
<1> QED
  BY GatesInvariance, <1>1, <1>2, PTL

=============================================================================

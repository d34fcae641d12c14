------------------------------- MODULE Gates --------------------------------
(***************************************************************************)
(* com.tool.thread: MainCycle with CycleSubTask, and CountDownLatchTest.   *)
(*                                                                         *)
(* In both programs the main thread starts N tasks that arrive at a gate.  *)
(* In MainCycle (demo = "cycle") the gate is a CyclicBarrier: the tasks    *)
(* themselves wait behind it, and the last to arrive first runs the        *)
(* barrier action, which adds up the numbers the tasks have stored without *)
(* a lock.  In CountDownLatchTest (demo = "latch") it is a CountDownLatch: *)
(* the tasks count down and go on, the main thread and a WaitTask wait.    *)
(*                                                                         *)
(* The two java.util.concurrent classes are not in the repository; they    *)
(* are modelled from how the programs use them.  Nothing interrupts a      *)
(* thread, so no await() throws.                                           *)
(***************************************************************************)
EXTENDS Integers, Functions

CONSTANTS N,              \* tasks that main starts (3 and 4 in the code)
          Numbers,        \* what a task may draw (bound)
          Main, WaitTask  \* the threads that wait for the latch

ASSUME GatesAssumption ==
  /\ N \in Nat \ {0}
  /\ Numbers \subseteq Nat \ {0}
  /\ Numbers # {}
  /\ Main \notin 1 .. N
  /\ WaitTask \notin 1 .. N
  /\ Main # WaitTask

VARIABLES
  demo,     \* the program that runs, "cycle" or "latch"
  next,     \* the loop variable i of the main thread
  waiter,   \* main and the WaitTask: "new", "start", "await", "done"
  task,     \* each task: the statement it executes next
  arr,      \* MainCycle's arr
  count,    \* what the barrier or the latch still waits for
  released, \* the tasks a trip of the barrier has let go
  index,    \* the barrier action's loop variable i
  total     \* its total

gatesVars == <<demo, next, waiter, task, arr, count, released, index, total>>
sumVars == <<index, total>>

Tasks == 1 .. N

(* new long[5] for the ids 1, 2 and 3.                                     *)
ArrLength == N + 2

(* Faulty variant: a gate for one thread fewer.                            *)
PartiesLess == N - 1

(* Faulty variant: a gate for one thread more.                             *)
PartiesMore == N + 1

(* new CyclicBarrier(3, ...), new CountDownLatch(4).                       *)
Parties == N

GatesTypeOK ==
  /\ demo \in {"cycle", "latch"}
  /\ next \in 1 .. N + 1
  /\ waiter \in [{Main, WaitTask} -> {"new", "start", "await", "done"}]
  /\ task \in [Tasks -> {"new", "run", "arrive", "wait", "sum", "done"}]
  /\ arr \in [0 .. ArrLength - 1 -> Numbers \cup {0}]
  /\ count \in 0 .. Parties
  /\ released \in SUBSET Tasks
  /\ index \in 0 .. ArrLength
  /\ total \in Nat

GatesInit ==
  /\ demo \in {"cycle", "latch"}
  /\ next = 1
  /\ waiter = [w \in {Main, WaitTask} |-> IF w = Main THEN "start" ELSE "new"]
  /\ task = [i \in Tasks |-> "new"]
  /\ arr = [k \in 0 .. ArrLength - 1 |-> 0]
  /\ count = Parties
  /\ released = {}
  /\ index = 0
  /\ total = 0

-----------------------------------------------------------------------------
(* The main thread.                                                        *)

StartTask ==
  /\ waiter[Main] = "start"
  /\ next \in Tasks
  /\ task' = [task EXCEPT ![next] = "run"]
  /\ next' = next + 1
  /\ UNCHANGED <<demo, waiter, arr, count, released, sumVars>>

(* MainCycle's main ends; doMain starts the WaitTask and awaits the latch. *)
AllStarted ==
  /\ waiter[Main] = "start"
  /\ next = N + 1
  /\ waiter' = IF demo = "cycle"
                 THEN [waiter EXCEPT ![Main] = "done"]
                 ELSE [w \in {Main, WaitTask} |-> "await"]
  /\ UNCHANGED <<demo, next, task, arr, count, released, sumVars>>

(* latch.await() of main or of the WaitTask returns.                       *)
PassLatch(w) ==
  /\ waiter[w] = "await"
  /\ count = 0
  /\ waiter' = [waiter EXCEPT ![w] = "done"]
  /\ UNCHANGED <<demo, next, task, arr, count, released, sumVars>>

-----------------------------------------------------------------------------
(* CountDownLatchTest's Task.                                              *)

CountDown(i) ==
  /\ demo = "latch"
  /\ task[i] = "run"
  /\ count' = IF count = 0 THEN 0 ELSE count - 1
  /\ task' = [task EXCEPT ![i] = "done"]
  /\ UNCHANGED <<demo, next, waiter, arr, released, sumVars>>

-----------------------------------------------------------------------------
(* CycleSubTask.run.                                                       *)

(* Faulty variant: the tasks' ids from 0 on, an element for two of them.   *)
StoreShared(i) ==
  /\ demo = "cycle"
  /\ task[i] = "run"
  /\ \E x \in Numbers : arr' = [arr EXCEPT ![i \div 2] = x]
  /\ task' = [task EXCEPT ![i] = "arrive"]
  /\ UNCHANGED <<demo, next, waiter, count, released, sumVars>>

Store(i) ==
  /\ demo = "cycle"
  /\ task[i] = "run"
  /\ \E x \in Numbers : arr' = [arr EXCEPT ![i] = x]
  /\ task' = [task EXCEPT ![i] = "arrive"]
  /\ UNCHANGED <<demo, next, waiter, count, released, sumVars>>

(* await(): the last thread to arrive runs the barrier action with fresh   *)
(* locals, the others wait.                                                *)
Await(i) ==
  /\ task[i] = "arrive"
  /\ count' = count - 1
  /\ IF count' = 0
       THEN /\ task' = [task EXCEPT ![i] = "sum"]
            /\ index' = 0
            /\ total' = 0
       ELSE /\ task' = [task EXCEPT ![i] = "wait"]
            /\ UNCHANGED sumVars
  /\ UNCHANGED <<demo, next, waiter, arr, released>>

(* One turn of the action's loop.                                          *)
Add(i) ==
  /\ task[i] = "sum"
  /\ index < ArrLength
  /\ total' = total + arr[index]
  /\ index' = index + 1
  /\ UNCHANGED <<demo, next, waiter, task, arr, count, released>>

(* The action returns; its thread resets the barrier, lets the tasks that  *)
(* wait go and goes on.                                                    *)
Trip(i) ==
  /\ task[i] = "sum"
  /\ index = ArrLength
  /\ task' = [task EXCEPT ![i] = "done"]
  /\ count' = Parties
  /\ released' = released \cup {j \in Tasks : task[j] = "wait"}
  /\ UNCHANGED <<demo, next, waiter, arr, sumVars>>

Wake(i) ==
  /\ task[i] = "wait"
  /\ i \in released
  /\ task' = [task EXCEPT ![i] = "done"]
  /\ UNCHANGED <<demo, next, waiter, arr, count, released, sumVars>>
-----------------------------------------------------------------------------
MainStep == StartTask \/ AllStarted

TaskStep(i) ==
  CountDown(i) \/ Store(i) \/ Await(i) \/ Add(i) \/ Trip(i) \/ Wake(i)

GatesNext ==
  \/ MainStep
  \/ \E w \in {Main, WaitTask} : PassLatch(w)
  \/ \E i \in Tasks : TaskStep(i)

GatesSpec == GatesInit /\ [][GatesNext]_gatesVars

(* The JVM schedules every runnable thread.                                *)
Fairness ==
  /\ WF_gatesVars(MainStep)
  /\ \A w \in {Main, WaitTask} : WF_gatesVars(PassLatch(w))
  /\ \A i \in Tasks : WF_gatesVars(TaskStep(i))

GatesFairSpec == GatesSpec /\ Fairness

-----------------------------------------------------------------------------
(* Properties. *)

(* The total a task finds when it is past the barrier is that of all the   *)
(* numbers: the action runs after every task has stored its own, in an     *)
(* element of its own, and before any task goes on.                        *)
TotalIsOfAll ==
  demo = "cycle" /\ (\E i \in Tasks : task[i] = "done")
    => /\ \A i \in Tasks : arr[i] \in Numbers
       /\ total = SumFunctionOnSet(arr, Tasks)

(* Both programs are a rendezvous: whoever waits, the tasks themselves or  *)
(* main and the WaitTask, goes on only after every task has arrived.       *)
Arrived ==
  {i \in Tasks : task[i] \in IF demo = "cycle" THEN {"wait", "sum", "done"}
                                              ELSE {"done"}}

Passed ==
  IF demo = "cycle" THEN {i \in Tasks : task[i] = "done"}
                    ELSE {w \in {Main, WaitTask} : waiter[w] = "done"}

Gate == INSTANCE Rendezvous WITH
  Arrivers <- Tasks,
  Waiters  <- Tasks \cup {Main, WaitTask},
  arrived  <- Arrived,
  passed   <- Passed

ImplementsRendezvous == Gate!Spec

(* Nobody is left at the gate: every task and every thread that waits for  *)
(* the tasks ends, in whatever order they arrive.                          *)
EverybodyPasses ==
  <> [] (/\ waiter[Main] = "done"
         /\ demo = "latch" => waiter[WaitTask] = "done"
         /\ \A i \in Tasks : task[i] = "done")
=============================================================================

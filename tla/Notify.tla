------------------------------- MODULE Notify -------------------------------
(***************************************************************************)
(* com.tool.thread.NotifyTest: createAndDispatch() starts a worker per     *)
(* turn of its loop, setting lock.i to the number of workers each time and *)
(* without the lock, and then notifies all waiters until lock.i is used    *)
(* up.  A worker waits once, decrements lock.i and ends.                   *)
(*                                                                         *)
(* wait() is not in a loop: a wakeup without a notification, which the JVM *)
(* is allowed (Spurious), counts like a notification.  The workers         *)
(* decrement under the monitor, but the read and the write are two steps,  *)
(* because lock.i = 5 in the creation loop takes no lock.  notifyAll() and *)
(* the entry into wait() are one step each: nothing in their synchronized  *)
(* blocks can be observed before the block ends.  The reads of lock.i in   *)
(* the loop condition may be stale only until main's next synchronized     *)
(* block, which an earlier evaluation of the condition covers.             *)
(***************************************************************************)
EXTENDS Naturals, FiniteSets

CONSTANTS Workers,     \* the threads createAndDispatch() starts
          Spurious     \* whether wait() may return without a notification

ASSUME NotifyAssumption ==
  /\ IsFiniteSet(Workers) /\ Workers # {}
  /\ Spurious \in BOOLEAN

VARIABLES
  main,        \* createAndDispatch(): "reset", "start", "check", "notify", "ended"
  started,     \* the workers started
  worker,      \* each worker: "new", "enter" (of the monitor), "waiting",
               \* "woken", "read" (has read lock.i, in the monitor), "done"
  lockI,       \* lock.i
  value,       \* the lock.i each worker has read
  early        \* whether a worker was woken before all were started (history)

notifyVars == <<main, started, worker, lockI, value, early>>

Size == Cardinality(Workers)

NotifyTypeOK ==
  /\ main \in {"reset", "start", "check", "notify", "ended"}
  /\ started \in SUBSET Workers
  /\ worker \in [Workers -> {"new", "enter", "waiting", "woken", "read", "done"}]
  /\ lockI \in 0 .. Size
  /\ value \in [Workers -> 0 .. Size]
  /\ early \in BOOLEAN

NotifyInit ==
  /\ main = "reset"
  /\ started = {}
  /\ worker = [w \in Workers |-> "new"]
  /\ lockI = 1
  /\ value = [w \in Workers |-> 0]
  /\ early = FALSE

-----------------------------------------------------------------------------
(* The main thread.                                                        *)

(* Faulty variant: the count is left at the 1 MonitorLock starts with.     *)
NoReset ==
  /\ main = "reset"
  /\ main' = IF started # Workers THEN "start" ELSE "check"
  /\ UNCHANGED <<started, worker, lockI, value, early>>

(* lock.i = 5, at the head of each turn of the creation loop.              *)
ResetCount ==
  /\ main = "reset"
  /\ IF started # Workers
       THEN lockI' = Size /\ main' = "start"
       ELSE main' = "check" /\ UNCHANGED lockI
  /\ UNCHANGED <<started, worker, value, early>>

StartWorker(w) ==
  /\ main = "start"
  /\ w \notin started
  /\ started' = started \cup {w}
  /\ worker' = [worker EXCEPT ![w] = "enter"]
  /\ main' = "reset"
  /\ UNCHANGED <<lockI, value, early>>

Check ==
  /\ main = "check"
  /\ main' = IF lockI > 0 THEN "notify" ELSE "ended"
  /\ UNCHANGED <<started, worker, lockI, value, early>>

InMonitor(w) == worker[w] = "read"

MonitorFree == \A w \in Workers : ~ InMonitor(w)

(* Faulty variant: if (lock.i > 0) in place of the while.                  *)
NotifyAllOnce ==
  /\ main = "notify"
  /\ MonitorFree
  /\ worker' = [w \in Workers |->
                  IF worker[w] = "waiting" THEN "woken" ELSE worker[w]]
  /\ main' = "ended"
  /\ UNCHANGED <<started, lockI, value, early>>

NotifyAll ==
  /\ main = "notify"
  /\ MonitorFree
  /\ worker' = [w \in Workers |->
                  IF worker[w] = "waiting" THEN "woken" ELSE worker[w]]
  /\ main' = "check"
  /\ UNCHANGED <<started, lockI, value, early>>

-----------------------------------------------------------------------------
(* The workers.                                                            *)

Wait(w) ==
  /\ worker[w] = "enter"
  /\ MonitorFree
  /\ worker' = [worker EXCEPT ![w] = "waiting"]
  /\ UNCHANGED <<main, started, lockI, value, early>>

WakeSpuriously(w) ==
  /\ Spurious
  /\ worker[w] = "waiting"
  /\ worker' = [worker EXCEPT ![w] = "woken"]
  /\ early' = (early \/ main \in {"reset", "start"})
  /\ UNCHANGED <<main, started, lockI, value>>

(* Faulty variant: the worker decrements without the monitor.              *)
ReadUnlocked(w) ==
  /\ worker[w] = "woken"
  /\ value' = [value EXCEPT ![w] = lockI]
  /\ worker' = [worker EXCEPT ![w] = "read"]
  /\ UNCHANGED <<main, started, lockI, early>>

(* wait() takes the monitor back; llock.i = llock.i - 1.                   *)
Read(w) ==
  /\ worker[w] = "woken"
  /\ MonitorFree
  /\ value' = [value EXCEPT ![w] = lockI]
  /\ worker' = [worker EXCEPT ![w] = "read"]
  /\ UNCHANGED <<main, started, lockI, early>>

Decrement(w) ==
  /\ worker[w] = "read"
  /\ lockI' = value[w] - 1
  /\ worker' = [worker EXCEPT ![w] = "done"]
  /\ UNCHANGED <<main, started, value, early>>

-----------------------------------------------------------------------------
Dispatch == ResetCount \/ (\E w \in Workers : StartWorker(w)) \/ Check \/ NotifyAll

WorkerStep(w) == Wait(w) \/ Read(w) \/ Decrement(w)

NotifyNext == Dispatch \/ \E w \in Workers : WorkerStep(w) \/ WakeSpuriously(w)

NotifySpec == NotifyInit /\ [][NotifyNext]_notifyVars

(* Every thread is scheduled.  A worker's request for the monitor needs no *)
(* more than that: it is refused only while another worker decrements, and *)
(* each worker does so once.                                               *)
NotifyFairSpec ==
  /\ NotifySpec
  /\ WF_notifyVars(Dispatch)
  /\ \A w \in Workers : WF_notifyVars(WorkerStep(w))

-----------------------------------------------------------------------------
(* Properties.                                                             *)

(* When createAndDispatch() returns nobody is left waiting: every worker   *)
(* has been woken and is done, whatever was woken early.                   *)
NobodyLeftWaiting == main = "ended" => \A w \in Workers : worker[w] = "done"

Undone == {w \in Workers : worker[w] # "done"}

(* From the first turn of the creation loop on, lock.i has a unit for every*)
(* worker that has not decremented it; a wakeup during the creation loop   *)
(* can only make it more.                                                  *)
CountCoversWorkers ==
  started # {} \/ main = "start" => lockI >= Cardinality(Undone)

(* createAndDispatch() returns, unless a worker was woken while others     *)
(* were still to be started: that worker's decrement can be overwritten,   *)
(* and main then notifies nobody forever.                                  *)
EndsUnlessEarlyWakeup == <> (main = "ended" \/ early)

(* Every worker that is started gets its wakeup, though the notifications  *)
(* that arrive before its wait() are lost.                                 *)
EveryWorkerEnds == \A w \in Workers : <> (worker[w] = "done")
=============================================================================

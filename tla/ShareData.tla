----------------------------- MODULE ShareData -----------------------------
(***************************************************************************)
(* com.tool.thread.ThreadScopeShareData and ThreadScopeShareData2: every   *)
(* thread keeps its own MyThreadScopeData in the ThreadLocal map, but      *)
(* getInstance() works through the static field instance, which all        *)
(* threads write and read without synchronization:                         *)
(*                                                                         *)
(*     instance = map.get();                                               *)
(*     if (instance == null) {                                             *)
(*         instance = new MyThreadScopeData();  map.set(instance);  }      *)
(*     return instance;                                                    *)
(*                                                                         *)
(* The reads of instance are data races.  Each of them may return what the *)
(* thread itself wrote last or anything written since by another thread,   *)
(* whether or not a later value has been read already: a compiler may keep *)
(* a value in a register or reorder the reads.  visible[t] is the set of   *)
(* these values, so instance itself needs no variable.                     *)
(*                                                                         *)
(* The two programs differ in the number of threads and in what they       *)
(* print.  The values read back from the objects are only printed, so an   *)
(* object is the sets of threads that have set its name and its age.       *)
(***************************************************************************)
EXTENDS Naturals, Sequences

CONSTANTS Threads,      \* the threads main() starts
          Null          \* Java's null

(* What run(), A.get() and B.get() do with the results of getInstance(),   *)
(* in this order; the two name reads are those of A and B.                 *)
Script == <<"setName", "setAge", "print", "getName", "print", "getName">>

Calls == 1 .. Len(Script)

(* A thread creates at most one object in each call.                       *)
Objects == Threads \X Calls

Object(t, k) == <<t, k>>

Owner(o) == o[1]

ASSUME ShareDataAssumption == Null \notin Objects

VARIABLES
  pc,          \* next statement of each thread: those of getInstance() are
               \* "get", "test", "create", "set" and "return"; "use" is what
               \* is done with the result; "ended"; "dead", by an exception
  call,        \* the element of Script each thread is at
  map,         \* the ThreadLocal: each thread's object or Null
  visible,     \* what a read of instance in a thread's current call may return
  result,      \* what each thread's last call of getInstance() returned
  named,       \* the threads that have called setName of each object
  aged,        \* the threads that have called setAge of each object
  raced        \* whether a thread ever read instance when there was more
               \* than one value to be read (history)

shareVars == <<pc, call, map, visible, result, named, aged, raced>>

Values == Objects \cup {Null}

InCall(t) == pc[t] \in {"test", "create", "set", "return"}

ShareTypeOK ==
  /\ pc \in [Threads -> {"get", "test", "create", "set", "return", "use",
                         "ended", "dead"}]
  /\ call \in [Threads -> Calls]
  /\ map \in [Threads -> Values]
  /\ visible \in [Threads -> SUBSET Values]
  /\ result \in [Threads -> Values]
  /\ named \in [Objects -> SUBSET Threads]
  /\ aged \in [Objects -> SUBSET Threads]
  /\ raced \in BOOLEAN

ShareInit ==
  /\ pc = [t \in Threads |-> "get"]
  /\ call = [t \in Threads |-> 1]
  /\ map = [t \in Threads |-> Null]
  /\ visible = [t \in Threads |-> {}]
  /\ result = [t \in Threads |-> Null]
  /\ named = [o \in Objects |-> {}]
  /\ aged = [o \in Objects |-> {}]
  /\ raced = FALSE

-----------------------------------------------------------------------------
(* getInstance().                                                          *)

(* Thread t writes v to instance.                                          *)
Write(t, v) ==
  visible' = [u \in Threads |-> IF u = t THEN {v}
                                ELSE IF InCall(u) THEN visible[u] \cup {v}
                                ELSE visible[u]]

(* Thread t reads instance and gets v.                                     *)
ReadAs(t, v) ==
  /\ v \in visible[t]
  /\ raced' = IF visible[t] = {v} THEN raced ELSE TRUE

(* instance = map.get()                                                    *)
GetFromMap(t) ==
  /\ pc[t] = "get"
  /\ Write(t, map[t])
  /\ pc' = [pc EXCEPT ![t] = "test"]
  /\ UNCHANGED <<call, map, result, named, aged, raced>>

(* if (instance == null)                                                   *)
TestNull(t) ==
  /\ pc[t] = "test"
  /\ \E v \in visible[t] :
       /\ ReadAs(t, v)
       /\ pc' = [pc EXCEPT ![t] = IF v = Null THEN "create" ELSE "return"]
  /\ UNCHANGED <<call, map, visible, result, named, aged>>

(* Faulty variant: the new object is not put into the map.                 *)
CreateOnly(t) ==
  /\ pc[t] = "create"
  /\ Write(t, Object(t, call[t]))
  /\ pc' = [pc EXCEPT ![t] = "return"]
  /\ UNCHANGED <<call, map, result, named, aged, raced>>

(* instance = new MyThreadScopeData()                                      *)
Create(t) ==
  /\ pc[t] = "create"
  /\ Write(t, Object(t, call[t]))
  /\ pc' = [pc EXCEPT ![t] = "set"]
  /\ UNCHANGED <<call, map, result, named, aged, raced>>

(* Faulty variant: a plain static map in place of the ThreadLocal.         *)
SetMapOfAll(t) ==
  /\ pc[t] = "set"
  /\ \E v \in visible[t] : ReadAs(t, v) /\ map' = [u \in Threads |-> v]
  /\ pc' = [pc EXCEPT ![t] = "return"]
  /\ UNCHANGED <<call, visible, result, named, aged>>

(* map.set(instance)                                                       *)
SetMap(t) ==
  /\ pc[t] = "set"
  /\ \E v \in visible[t] : ReadAs(t, v) /\ map' = [map EXCEPT ![t] = v]
  /\ pc' = [pc EXCEPT ![t] = "return"]
  /\ UNCHANGED <<call, visible, result, named, aged>>

(* Faulty variant: the field is set to null when the call is over.         *)
ReturnAndClear(t) ==
  /\ pc[t] = "return"
  /\ \E v \in visible[t] : ReadAs(t, v) /\ result' = [result EXCEPT ![t] = v]
  /\ visible' = [u \in Threads |-> IF u = t THEN {}
                                   ELSE IF InCall(u) THEN visible[u] \cup {Null}
                                   ELSE visible[u]]
  /\ pc' = [pc EXCEPT ![t] = "use"]
  /\ UNCHANGED <<call, map, named, aged>>

(* return instance                                                         *)
Return(t) ==
  /\ pc[t] = "return"
  /\ \E v \in visible[t] : ReadAs(t, v) /\ result' = [result EXCEPT ![t] = v]
  /\ visible' = [visible EXCEPT ![t] = {}]
  /\ pc' = [pc EXCEPT ![t] = "use"]
  /\ UNCHANGED <<call, map, named, aged>>

GetInstance(t) ==
  GetFromMap(t) \/ TestNull(t) \/ Create(t) \/ SetMap(t) \/ Return(t)

-----------------------------------------------------------------------------
(* What is done with the result.                                           *)

At(t, use) == pc[t] = "use" /\ Script[call[t]] = use

(* The thread goes on to its next call.                                    *)
Continue(t) ==
  IF call[t] = Len(Script)
    THEN pc' = [pc EXCEPT ![t] = "ended"] /\ UNCHANGED call
    ELSE /\ pc' = [pc EXCEPT ![t] = "get"]
         /\ call' = [call EXCEPT ![t] = @ + 1]

(* getInstance().setName("name" + data)                                    *)
SetName(t) ==
  /\ At(t, "setName") /\ result[t] # Null
  /\ named' = [named EXCEPT ![result[t]] = @ \cup {t}]
  /\ Continue(t)
  /\ UNCHANGED <<map, visible, result, aged, raced>>

(* getInstance().setAge(data)                                              *)
SetAge(t) ==
  /\ At(t, "setAge") /\ result[t] # Null
  /\ aged' = [aged EXCEPT ![result[t]] = @ \cup {t}]
  /\ Continue(t)
  /\ UNCHANGED <<map, visible, result, named, raced>>

(* println of the object, which does not mind a null.                      *)
PrintInstance(t) ==
  /\ At(t, "print")
  /\ Continue(t)
  /\ UNCHANGED <<map, visible, result, named, aged, raced>>

(* A.get() and B.get(): the name of the object returned.                   *)
GetName(t) ==
  /\ At(t, "getName") /\ result[t] # Null
  /\ Continue(t)
  /\ UNCHANGED <<map, visible, result, named, aged, raced>>

(* A method call on null ends the thread with a NullPointerException.      *)
CallOnNull(t) ==
  /\ pc[t] = "use" /\ ~ At(t, "print") /\ result[t] = Null
  /\ pc' = [pc EXCEPT ![t] = "dead"]
  /\ UNCHANGED <<call, map, visible, result, named, aged, raced>>

Use(t) ==
  SetName(t) \/ SetAge(t) \/ PrintInstance(t) \/ GetName(t) \/ CallOnNull(t)

ShareNext == \E t \in Threads : GetInstance(t) \/ Use(t)

ShareSpec == ShareInit /\ [][ShareNext]_shareVars

-----------------------------------------------------------------------------
(* Properties.                                                             *)

(* A call during which no other thread writes instance returns the         *)
(* caller's own entry of the map, never null - whatever other threads did  *)
(* to the field, and to the entry, in earlier calls.                       *)
UndisturbedReturnsOwn ==
  \A t \in Threads : \A v \in Values :
    pc[t] = "return" /\ visible[t] = {v} => v = map[t] /\ v # Null

(* As long as no read has had a choice, the data is thread-scoped: no two  *)
(* threads share an object, and a thread that reads a name reads the one   *)
(* it has set itself, of an object whose age is its own too.               *)
ScopedUnlessRaced ==
  ~ raced =>
    /\ \A t, u \in Threads : map[t] # Null /\ map[t] = map[u] => t = u
    /\ \A t \in Threads : At(t, "getName") =>
         named[result[t]] = {t} /\ aged[result[t]] = {t}

Running(t) == pc[t] \notin {"ended", "dead"}

(* Every thread that still runs has an object and no call can see null.    *)
Settled ==
  \A t \in Threads : Running(t) => map[t] # Null /\ Null \notin visible[t]

(* Once every running thread has its object and no call is left that saw   *)
(* an empty entry, the field never becomes null again: no call returns     *)
(* null, and no thread loses its entry, from then on.                      *)
SettledForGood ==
  [][\A t \in Threads : Settled =>
       /\ Settled'
       /\ Return(t) => result'[t] # Null]_shareVars
=============================================================================

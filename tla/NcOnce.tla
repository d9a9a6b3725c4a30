------------------------------- MODULE NcOnce -------------------------------
(***************************************************************************)
(* pthread_once of the untrusted pthread library (nc_mutex.c): `done' is   *)
(* looked at before and after the control's mutex is taken.  The mutex is  *)
(* NcMutex's, and is taken here to exclude.                                *)
(***************************************************************************)
EXTENDS Naturals

CONSTANT Threads

VARIABLES
  done, lock, \* of the control: done, and those who have the mutex
  pc,         \* where each thread is
  res,        \* what it read of done
  runs        \* ghost: the times the routine has begun and ended

vars == <<done, lock, pc, res, runs>>

TypeOK ==
  /\ done \in Nat
  /\ lock \subseteq Threads
  /\ pc \in [Threads -> {"call", "test", "lock", "retest", "run", "mark", "unlock",
                         "return"}]
  /\ res \in [Threads -> Nat]
  /\ runs \in [begun : Nat, ended : Nat]

Init ==
  /\ done = 0
  /\ lock = {}
  /\ pc = [t \in Threads |-> "call"]
  /\ res = [t \in Threads |-> 0]
  /\ runs = [begun |-> 0, ended |-> 0]

Goto(t, from, to) == pc[t] = from /\ pc' = [pc EXCEPT ![t] = to]

(* done is read, by an atomic increment of 0.                              *)
FirstRead(t) ==
  /\ Goto(t, "call", "test")
  /\ res' = [res EXCEPT ![t] = done]
  /\ UNCHANGED <<done, lock, runs>>

FirstTest(t) ==
  /\ Goto(t, "test", IF res[t] = 0 THEN "lock" ELSE "return")
  /\ UNCHANGED <<done, lock, res, runs>>

(* The mutex is taken and done is read again.                              *)
Lock(t) ==
  /\ lock = {}
  /\ Goto(t, "lock", "retest")
  /\ lock' = {t}
  /\ res' = [res EXCEPT ![t] = done]
  /\ UNCHANGED <<done, runs>>

(* Faulty variant: done is not looked at again.                            *)
BeginUnchecked(t) ==
  /\ Goto(t, "retest", "run")
  /\ runs' = [runs EXCEPT !.begun = @ + 1]
  /\ UNCHANGED <<done, lock, res>>

BeginRoutine(t) ==
  /\ res[t] = 0
  /\ Goto(t, "retest", "run")
  /\ runs' = [runs EXCEPT !.begun = @ + 1]
  /\ UNCHANGED <<done, lock, res>>

FoundDone(t) ==
  /\ res[t] # 0
  /\ Goto(t, "retest", "unlock")
  /\ UNCHANGED <<done, lock, res, runs>>

EndRoutine(t) ==
  /\ Goto(t, "run", "mark")
  /\ runs' = [runs EXCEPT !.ended = @ + 1]
  /\ UNCHANGED <<done, lock, res>>

Mark(t) ==
  /\ Goto(t, "mark", "unlock")
  /\ done' = done + 1
  /\ UNCHANGED <<lock, res, runs>>

Unlock(t) ==
  /\ Goto(t, "unlock", "return")
  /\ lock' = {}
  /\ UNCHANGED <<done, res, runs>>

Step(t) ==
  \/ FirstRead(t) \/ FirstTest(t) \/ Lock(t) \/ BeginRoutine(t) \/ FoundDone(t)
  \/ EndRoutine(t) \/ Mark(t) \/ Unlock(t)

Next == \E t \in Threads : Step(t)

Spec == Init /\ [][Next]_vars

(* The routine begins at most once, and no call of pthread_once returns    *)
(* before it has ended, in whatever order the calls read done.             *)
OnceBeforeReturn ==
  /\ runs.begun <= 1
  /\ \A t \in Threads : pc[t] = "return" => runs.ended = 1

(* The invariant that carries it: only the thread with the mutex is past   *)
(* the second test, and done is set by the only one that runs the routine. *)
Inside == {"retest", "run", "mark", "unlock"}
OnceInvariant ==
  /\ TypeOK
  /\ \A t \in Threads : pc[t] \in Inside <=> lock = {t}
  /\ runs.begun = IF done = 0 /\ \A t \in Threads : pc[t] \notin {"run", "mark"}
                  THEN 0 ELSE 1
  /\ runs.ended = IF done = 0 /\ \A t \in Threads : pc[t] # "mark" THEN 0 ELSE 1
  /\ done \in {0, 1}
  /\ done = 1 => \A t \in Threads : pc[t] \notin {"run", "mark"}
  /\ \A t \in Threads : pc[t] \in {"run", "mark"} => done = 0
  /\ \A t \in Threads : pc[t] = "retest" => res[t] = done
  /\ \A t \in Threads : pc[t] = "test" /\ res[t] # 0 => done = 1
  /\ \A t \in Threads : pc[t] \in {"unlock", "return"} => done = 1

=============================================================================

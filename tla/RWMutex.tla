------------------------------ MODULE RWMutex ------------------------------
(***************************************************************************)
(* Go's sync.RWMutex, as the code under src/ uses it: a record and the     *)
(* operators that take it from one state to the next.  The lock prefers    *)
(* writers: from the moment a Lock is called no new RLock is granted, not  *)
(* even to a thread that already reads, and the readers that had to wait   *)
(* are let in by the Unlock.  A thread is blocked in RLock while it is in  *)
(* waiting, and in Lock until HoldsWrite is true of it.                    *)
(***************************************************************************)
EXTENDS Naturals, FiniteSets

CONSTANTS
    Thread,      \* the goroutines that use the lock
    NoThread     \* none of them

Mutex == [readers : [Thread -> Nat],          \* read locks held by each thread
          waiting : SUBSET Thread,            \* blocked in RLock
          writer : Thread \cup {NoThread}]    \* in Lock, or holding it

Unlocked == [readers |-> [t \in Thread |-> 0], waiting |-> {}, writer |-> NoThread]

HoldsRead(m, t) == m.readers[t] > 0 /\ t \notin m.waiting

HoldsWrite(m, t) == m.writer = t /\ \A u \in Thread : m.readers[u] = 0

CanLock(m) == m.writer = NoThread

RLock(m, t) ==
    IF m.writer = NoThread THEN [m EXCEPT !.readers[t] = @ + 1]
    ELSE [m EXCEPT !.waiting = @ \cup {t}]

RUnlock(m, t) == [m EXCEPT !.readers[t] = @ - 1]

Lock(m, t) == [m EXCEPT !.writer = t]

Unlock(m) ==
    [readers |-> [u \in Thread |->
                    IF u \in m.waiting THEN m.readers[u] + 1 ELSE m.readers[u]],
     waiting |-> {},
     writer |-> NoThread]

=============================================================================

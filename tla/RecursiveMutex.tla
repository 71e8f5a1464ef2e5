--------------------------- MODULE RecursiveMutex ---------------------------
(***************************************************************************)
(* What g_network_mutex is: a POSIX mutex of type PTHREAD_MUTEX_RECURSIVE  *)
(* (main.c:284-287).  The pthread library is external to the repository;   *)
(* its three calls are modelled as functions from a mutex value and the    *)
(* calling thread to the next mutex value.                                 *)
(*                                                                         *)
(* Two facts of this mutex type decide how the vDC behaves.  The owner can *)
(* take it again, one level deeper each time.  A thread that is not the    *)
(* owner and calls pthread_mutex_unlock gets EPERM and changes nothing.    *)
(***************************************************************************)
EXTENDS Naturals

CONSTANTS
  Threads,   \* the threads that use the mutex
  NoOwner    \* the owner field of a mutex nobody holds

ASSUME NoOwnerAssumption == NoOwner \notin Threads

MutexType == [owner : Threads \cup {NoOwner}, count : Nat]

FreeMutex == [owner |-> NoOwner, count |-> 0]

\* A mutex whose owner cannot take it again.
CanLockOnce(m, t) == m.owner = NoOwner

\* pthread_mutex_trylock returns 0 exactly in these states.
CanLock(m, t) == m.owner \in {NoOwner, t}

Locked(m, t) == [owner |-> t, count |-> m.count + 1]

\* A mutex that forgets to ask who is calling (type NORMAL instead of
\* RECURSIVE): any thread's unlock releases a level.
UnlockedByAnyone(m, t) ==
  IF m.count <= 1 THEN FreeMutex ELSE [m EXCEPT !.count = @ - 1]

Unlocked(m, t) ==
  CASE m.owner # t                    -> m          \* EPERM
    [] m.owner = t /\ m.count <= 1    -> FreeMutex
    [] m.owner = t /\ m.count > 1     -> [m EXCEPT !.count = @ - 1]

=============================================================================

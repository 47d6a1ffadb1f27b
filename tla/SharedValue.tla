------------------------------ MODULE SharedValue ------------------------------
(***************************************************************************)
(* The two implementations of the Shared trait in src/shared/src/lib.rs,   *)
(* as tasks call them on one shared value: LocalShared, an Rc<RefCell>     *)
(* with the RefCell's borrow flag, and MutexShared, an Arc<Mutex> with its *)
(* lock and poison flag.  What lib.rs decides is which std call each       *)
(* method makes and what it does with the result: lock and lock_mut panic  *)
(* on failure (borrow, borrow_mut, lock().unwrap()), try_lock_mut maps     *)
(* every failure to None.  The guards it returns are std's Ref, RefMut and *)
(* MutexGuard, whose drop gives the borrow or the lock back.               *)
(*                                                                         *)
(* A task holds at most one guard; it drops it, or panics while holding it *)
(* (user code between lock and drop).  A panicking task is gone: its guard *)
(* is dropped during unwinding (a MutexGuard dropped while panicking       *)
(* poisons the mutex) and it makes no further calls.                       *)
(***************************************************************************)
EXTENDS Integers

CONSTANT Tasks   \* the tasks (or threads) sharing the value

(* The implementation the program instantiated: LocalShared or MutexShared. *)
Flavours == {"local", "mutex"}

VARIABLES
  flavour,     \* the implementation of the shared value, fixed at its creation
  held,        \* the guard each task holds: "none", "ref" (lock) or "mut"
  borrowFlag,  \* RefCell's borrow flag: the number of Refs, or -1 for a RefMut
  locked,      \* the Mutex is locked
  poisoned,    \* the Mutex is poisoned
  dead,        \* tasks that panicked
  tryResult    \* the result of each task's last try_lock_mut: "idle", "some", "none"

vars == <<flavour, held, borrowFlag, locked, poisoned, dead, tryResult>>

Guards == {"ref", "mut"}

(* A task that is alive and holds no guard can make a call.                *)
Idle(t) == t \notin dead /\ held[t] = "none"

(* A task that makes a call and panics: nothing it holds, nothing changes  *)
(* but its death.                                                          *)
PanicIdle(t) ==
  /\ dead' = dead \cup {t}
  /\ UNCHANGED <<held, borrowFlag, locked, poisoned, tryResult>>

-----------------------------------------------------------------------------
(* LocalShared::lock (lines 53-55): RefCell::borrow panics if the value is *)
(* mutably borrowed.                                                       *)
LocalLock(t) ==
  /\ flavour = "local"
  /\ Idle(t)
  /\ \/ /\ borrowFlag >= 0
        /\ borrowFlag' = borrowFlag + 1
        /\ held' = [held EXCEPT ![t] = "ref"]
        /\ UNCHANGED <<locked, poisoned, dead, tryResult>>
     \/ /\ borrowFlag < 0
        /\ PanicIdle(t)

(* LocalShared::lock_mut (lines 57-59): RefCell::borrow_mut panics if the  *)
(* value is borrowed at all.                                               *)
LocalLockMut(t) ==
  /\ flavour = "local"
  /\ Idle(t)
  /\ \/ /\ borrowFlag = 0
        /\ borrowFlag' = -1
        /\ held' = [held EXCEPT ![t] = "mut"]
        /\ UNCHANGED <<locked, poisoned, dead, tryResult>>
     \/ /\ borrowFlag # 0
        /\ PanicIdle(t)

(* LocalShared::try_lock_mut (lines 61-67): try_borrow_mut, None when the  *)
(* value is borrowed.                                                      *)
LocalTryLockMut(t) ==
  /\ flavour = "local"
  /\ Idle(t)
  /\ \/ /\ borrowFlag = 0
        /\ borrowFlag' = -1
        /\ held' = [held EXCEPT ![t] = "mut"]
        /\ tryResult' = [tryResult EXCEPT ![t] = "some"]
     \/ /\ borrowFlag # 0
        /\ tryResult' = [tryResult EXCEPT ![t] = "none"]
        /\ UNCHANGED <<held, borrowFlag>>
  /\ UNCHANGED <<locked, poisoned, dead>>

(***************************************************************************)
(* MutexShared::lock and lock_mut (lines 102-108), the same call:          *)
(* Mutex::lock blocks while the mutex is locked; on a poisoned mutex it    *)
(* returns the guard in a PoisonError, and unwrap panics (dropping that    *)
(* guard, which unlocks again).  A guard taken by lock is a "ref", by      *)
(* lock_mut a "mut".                                                       *)
(***************************************************************************)
MutexLock(t, g) ==
  /\ flavour = "mutex"
  /\ Idle(t)
  /\ ~locked
  /\ \/ /\ ~poisoned
        /\ locked' = TRUE
        /\ held' = [held EXCEPT ![t] = g]
        /\ UNCHANGED <<borrowFlag, poisoned, dead, tryResult>>
     \/ /\ poisoned
        /\ PanicIdle(t)

(* MutexShared::try_lock_mut (lines 110-116): Mutex::try_lock fails with   *)
(* WouldBlock while locked and with Poisoned once poisoned; the match's    *)
(* catch-all arm makes both None.                                          *)
MutexTryLockMut(t) ==
  /\ flavour = "mutex"
  /\ Idle(t)
  /\ \/ /\ ~locked /\ ~poisoned
        /\ locked' = TRUE
        /\ held' = [held EXCEPT ![t] = "mut"]
        /\ tryResult' = [tryResult EXCEPT ![t] = "some"]
     \/ /\ locked \/ poisoned
        /\ tryResult' = [tryResult EXCEPT ![t] = "none"]
        /\ UNCHANGED <<held, locked>>
  /\ UNCHANGED <<borrowFlag, poisoned, dead>>

(* The try_lock_mut of the implementation in use.                          *)
TryLockMut(t) == LocalTryLockMut(t) \/ MutexTryLockMut(t)

(* The guard a task holds is dropped: std's Ref gives back one borrow, a   *)
(* RefMut the exclusive one (the guard types of lines 45-51), a            *)
(* MutexGuard unlocks (lines 94-100).                                      *)
ReleaseGuard(t) ==
  /\ held' = [held EXCEPT ![t] = "none"]
  /\ borrowFlag' = IF flavour = "local" /\ held[t] = "ref" THEN borrowFlag - 1
                   ELSE IF flavour = "local" THEN 0 ELSE borrowFlag
  /\ locked' = FALSE

(* A task drops its guard at the end of its scope.                         *)
Drop(t) ==
  /\ t \notin dead
  /\ held[t] \in Guards
  /\ ReleaseGuard(t)
  /\ UNCHANGED <<poisoned, dead, tryResult>>

(* A task panics while it holds a guard: the guard is dropped during       *)
(* unwinding, and a MutexGuard dropped while panicking poisons the mutex.  *)
Panic(t) ==
  /\ t \notin dead
  /\ held[t] \in Guards
  /\ ReleaseGuard(t)
  /\ poisoned' = (poisoned \/ flavour = "mutex")
  /\ dead' = dead \cup {t}
  /\ UNCHANGED tryResult

-----------------------------------------------------------------------------
Init ==
  /\ flavour \in Flavours
  /\ held = [t \in Tasks |-> "none"]
  /\ borrowFlag = 0
  /\ locked = FALSE
  /\ poisoned = FALSE
  /\ dead = {}
  /\ tryResult = [t \in Tasks |-> "idle"]

Next ==
  /\ \E t \in Tasks :
       \/ LocalLock(t) \/ LocalLockMut(t) \/ LocalTryLockMut(t)
       \/ \E g \in Guards : MutexLock(t, g)
       \/ MutexTryLockMut(t)
       \/ Drop(t)
       \/ Panic(t)
  /\ UNCHANGED flavour

Spec == Init /\ [][Next]_vars

-----------------------------------------------------------------------------
(***************************************************************************)
(* The comment on the None arm of both try_lock_mut implementations (lines *)
(* 64 and 113): try_lock_mut returns None only because the value is       *)
(* currently borrowed, that is, while some task holds a guard on it.       *)
(***************************************************************************)
TryLockNoneOnlyIfBorrowed ==
  [][\A t \in Tasks :
       TryLockMut(t) /\ tryResult'[t] = "none" => \E u \in Tasks : held[u] \in Guards]_vars

=============================================================================

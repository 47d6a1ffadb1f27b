--------------------------- MODULE TcpAdapter_proofs ---------------------------
(***************************************************************************)
(* Proofs about the TCP adapter model: every handle is closed exactly once *)
(* by its owner, and never while registered with the poller, for every    *)
(* set of tokens and drivers and both threading flavours.                  *)
(***************************************************************************)
EXTENDS TcpAdapter, TLAPS

(***************************************************************************)
(* ClosedExactlyOnce is not inductive: a fresh token must carry no close,  *)
(* no owner and no registration yet, and DropClose must know that the      *)
(* handle it closes is no longer registered.  Both facts are kept as       *)
(* invariants: tokens not handed out are untouched, and only a live        *)
(* adapter's handle is registered (Drop deregisters before giving it up).  *)
(***************************************************************************)
Untouched ==
  \A fd \in Fds \ used :
    closes[fd] = 0 /\ adapter[fd] = None /\ fd \notin dropping /\ fd \notin registered

RegisteredOwned == \A fd \in registered : adapter[fd] \in Kinds

IInv == TypeOK /\ ClosedExactlyOnce /\ Untouched /\ RegisteredOwned


LEMMA InitIInv == Init => IInv
<1> SUFFICES ASSUME Init PROVE IInv
  OBVIOUS
<1>1. polling \in BOOLEAN
  BY Zenon DEF Init
<1>2. TypeOK
  BY <1>1 DEF Init, TypeOK, None, Kinds
<1>. QED
  BY <1>2 DEF Init, IInv, ClosedExactlyOnce, Untouched, RegisteredOwned

(* An open handle the program obtained is owned by its adapter or by the   *)
(* Drop in progress, and by nothing else.                                  *)
LEMMA OwnedHandle ==
  ASSUME IInv, NEW fd \in Fds, adapter[fd] \in Kinds \/ fd \in dropping
  PROVE  /\ fd \in used /\ fd \in open /\ closes[fd] = 0
         /\ (adapter[fd] \in Kinds) # (fd \in dropping)
  <1>1. fd \in used
    BY DEF IInv, Untouched, None, Kinds
  <1>. QED
    BY <1>1 DEF IInv, ClosedExactlyOnce, None, Kinds

(* The construction of an adapter on a fresh token: bind, connect, accept. *)
LEMMA SetupInv ==
  ASSUME IInv, NEW fd \in Fds, NEW kind \in Kinds, Fresh(fd), RegisterOrClose(fd, kind),
         UNCHANGED <<driver, dropping, polling, ready, events>>
  PROVE  IInv'
<1>1. /\ fd \notin used /\ fd \notin open /\ closes[fd] = 0 /\ adapter[fd] = None
      /\ fd \notin dropping /\ fd \notin registered
      /\ used' = used \cup {fd}
  <2>1. open \subseteq used
    BY DEF IInv, TypeOK
  <2>. QED
    BY <2>1 DEF Fresh, IInv, Untouched
<1>2. closes \in [Fds -> 0 .. 2] /\ adapter \in [Fds -> Kinds \cup {None}]
  BY DEF IInv, TypeOK
<1>3. CASE /\ registered' = registered \cup {fd}
           /\ adapter' = [adapter EXCEPT ![fd] = kind]
           /\ open' = open \cup {fd}
           /\ UNCHANGED closes
  <2>1. TypeOK'
    BY <1>1, <1>3 DEF IInv, TypeOK, Kinds
  <2>2. ClosedExactlyOnce'
    BY <1>1, <1>3 DEF IInv, TypeOK, ClosedExactlyOnce, Kinds, None
  <2>3. RegisteredOwned'
    BY <1>1, <1>3 DEF IInv, TypeOK, RegisteredOwned
  <2>4. Untouched'
    BY <1>1, <1>2, <1>3 DEF IInv, Untouched
  <2>. QED
    BY <2>1, <2>2, <2>3, <2>4 DEF IInv
<1>4. CASE /\ FdClose(fd)
           /\ UNCHANGED <<registered, adapter>>
  <2>1. open' = open \ {fd} /\ closes' = [closes EXCEPT ![fd] = 1]
    BY <1>1, <1>4 DEF FdClose
  <2>2. TypeOK'
    BY <1>1, <1>4, <2>1 DEF IInv, TypeOK
  <2>3. ClosedExactlyOnce'
    BY <1>1, <1>4, <2>1 DEF IInv, TypeOK, ClosedExactlyOnce
  <2>4. RegisteredOwned'
    BY <1>4 DEF IInv, RegisteredOwned
  <2>5. Untouched'
    BY <1>1, <1>2, <1>4, <2>1 DEF IInv, Untouched
  <2>. QED
    BY <2>2, <2>3, <2>4, <2>5 DEF IInv
<1>. QED
  BY <1>3, <1>4 DEF RegisterOrClose

LEMMA DropDeregisterInv ==
  ASSUME IInv, NEW fd \in Fds, DropDeregister(fd)
  PROVE  IInv'
<1>1. fd \in used /\ fd \in open /\ closes[fd] = 0 /\ fd \notin dropping
  BY OwnedHandle DEF DropDeregister
<1>. QED
  BY <1>1 DEF DropDeregister, IInv, TypeOK, ClosedExactlyOnce, Untouched,
              RegisteredOwned, Kinds, None

LEMMA DropCloseInv ==
  ASSUME IInv, NEW fd \in Fds, DropClose(fd)
  PROVE  IInv'
<1>1. fd \in used /\ fd \in open /\ closes[fd] = 0 /\ adapter[fd] = None
  BY OwnedHandle DEF DropClose, IInv, TypeOK, Kinds, None
<1>2. open' = open \ {fd} /\ closes' = [closes EXCEPT ![fd] = 1]
  BY <1>1 DEF DropClose, FdClose
<1>. QED
  BY <1>1, <1>2 DEF DropClose, IInv, TypeOK, ClosedExactlyOnce, Untouched,
                    RegisteredOwned

LEMMA NextIInv == IInv /\ [Next]_vars => IInv'
<1> SUFFICES ASSUME IInv, [Next]_vars PROVE IInv'
  OBVIOUS
<1>1. ASSUME NEW d \in Drivers, RegisterDriver(d) PROVE IInv'
  BY <1>1 DEF RegisterDriver, IInv, TypeOK, ClosedExactlyOnce, Untouched, RegisteredOwned
<1>2. ASSUME NEW fd \in Fds, BindWith(fd) \/ ConnectWith(fd) PROVE IInv'
  BY <1>2, SetupInv DEF BindWith, ConnectWith, Kinds
<1>3. ASSUME NEW l \in Fds, NEW fd \in Fds, AcceptWith(l, fd) PROVE IInv'
  BY <1>3, SetupInv DEF AcceptWith, Kinds
<1>4. CASE PollWait
  BY <1>4 DEF PollWait, IInv, TypeOK, ClosedExactlyOnce, Untouched, RegisteredOwned
<1>5. CASE PollReturn
  BY <1>5 DEF PollReturn, IInv, TypeOK, ClosedExactlyOnce, Untouched, RegisteredOwned
<1>6. CASE UNCHANGED vars
  BY <1>6 DEF vars, IInv, TypeOK, ClosedExactlyOnce, Untouched, RegisteredOwned
<1>. QED
  BY <1>1, <1>2, <1>3, <1>4, <1>5, <1>6, DropDeregisterInv, DropCloseInv DEF Next, Bind

(* Every handle the adapters obtain is closed exactly once, by its owner:  *)
(* the error paths of bind_with and new_with close what they opened, and   *)
(* Drop closes only what its adapter owned.                                *)
THEOREM ClosedExactlyOnceThm == Spec => []ClosedExactlyOnce
<1>1. IInv => ClosedExactlyOnce
  BY DEF IInv
<1>. QED
  BY InitIInv, NextIInv, <1>1, PTL DEF Spec


(* Every state of the adapters, the driver table and the poller is well   *)
(* typed; in particular no handle is ever closed more than twice.          *)
THEOREM TcpTypeCorrect == Spec => []TypeOK
<1>1. IInv => TypeOK
  BY DEF IInv
<1>. QED
  BY InitIInv, NextIInv, <1>1, PTL DEF Spec

-----------------------------------------------------------------------------
(***************************************************************************)
(* In the single-threaded flavour poll_once reports only live handles.     *)
(* Between its wait and its return the reactor thread runs nothing else:   *)
(* no Drop starts (Quiet) and none is half done (a Drop runs to its end     *)
(* before the reactor polls), so what mio reported stays registered, and   *)
(* registered handles are open.                                            *)
(***************************************************************************)
ReadyIdle == ~polling => ready = {}

ReadyLive == ~MT => /\ ready \subseteq registered \cap open
                    /\ polling => dropping = {}

SInv == IInv /\ ReadyIdle /\ ReadyLive

LEMMA InitSInv == Init => SInv
<1> SUFFICES ASSUME Init PROVE SInv
  OBVIOUS
<1>. QED
  BY InitIInv DEF Init, SInv, ReadyIdle, ReadyLive

(* The poller only ever holds handles that are open in the driver.         *)
LEMMA RegisteredOpen ==
  ASSUME IInv
  PROVE  registered \subseteq open
  BY OwnedHandle DEF IInv, RegisteredOwned, TypeOK

(* A call that waits for the reactor to be quiet leaves poll_once's        *)
(* report alone.                                                           *)
LEMMA QuietStep ==
  ASSUME SInv, Quiet, UNCHANGED <<polling, ready>>
  PROVE  (ReadyIdle /\ ReadyLive)'
<1>1. ReadyIdle'
  BY DEF SInv, ReadyIdle
<1>2. ~MT => ~polling' /\ ready' = {}
  BY DEF SInv, ReadyIdle, Quiet
<1>. QED
  BY <1>1, <1>2 DEF ReadyLive

LEMMA NextSInv == SInv /\ [Next]_vars => SInv'
<1> SUFFICES ASSUME SInv, [Next]_vars PROVE SInv'
  OBVIOUS
<1>1. IInv'
  BY NextIInv DEF SInv
<1>2. ASSUME \E d \in Drivers : RegisterDriver(d) PROVE (ReadyIdle /\ ReadyLive)'
  BY <1>2 DEF RegisterDriver, SInv, ReadyIdle, ReadyLive
<1>3. ASSUME NEW fd \in Fds,
             \/ BindWith(fd) \/ ConnectWith(fd) \/ DropDeregister(fd)
             \/ \E l \in Fds : AcceptWith(l, fd)
      PROVE  (ReadyIdle /\ ReadyLive)'
  <2>1. Quiet /\ UNCHANGED <<polling, ready>>
    BY <1>3 DEF BindWith, ConnectWith, DropDeregister, AcceptWith
  <2>. QED
    BY <2>1, QuietStep
<1>4. ASSUME NEW fd \in Fds, DropClose(fd) PROVE (ReadyIdle /\ ReadyLive)'
  <2>1. fd \in dropping /\ UNCHANGED <<polling, ready>>
    BY <1>4 DEF DropClose
  <2>2. ~MT => ~polling /\ ready = {}
    BY <2>1 DEF SInv, ReadyIdle, ReadyLive
  <2>. QED
    BY <2>1, <2>2 DEF SInv, ReadyIdle, ReadyLive
<1>5. ASSUME PollWait PROVE (ReadyIdle /\ ReadyLive)'
  <2>1. ready' \subseteq registered /\ polling' = TRUE
        /\ UNCHANGED <<registered, open, dropping>>
    BY <1>5 DEF PollWait
  <2>2. registered \subseteq open
    BY RegisteredOpen DEF SInv
  <2>3. ~MT => dropping = {}
    BY <1>5 DEF PollWait, Quiet
  <2>. QED
    BY <2>1, <2>2, <2>3 DEF ReadyIdle, ReadyLive
<1>6. ASSUME PollReturn PROVE (ReadyIdle /\ ReadyLive)'
  BY <1>6 DEF PollReturn, ReadyIdle, ReadyLive
<1>7. ASSUME UNCHANGED vars PROVE (ReadyIdle /\ ReadyLive)'
  BY <1>7 DEF vars, SInv, ReadyIdle, ReadyLive
<1>. QED
  BY <1>1, <1>2, <1>3, <1>4, <1>5, <1>6, <1>7 DEF Next, Bind, SInv

(***************************************************************************)
(* With the single-threaded ThreadModel, every handle poll_once returns is *)
(* registered and open (spec section 8, invariant 1), for every set of     *)
(* tokens and drivers.  The multi-threaded flavour violates it (run        *)
(* tcp_stale_event): there a Drop may run while the reactor polls.         *)
(***************************************************************************)
THEOREM SingleThreadEventsOnlyForLive ==
  ASSUME ~MT
  PROVE  Spec => EventsOnlyForLive
<1>1. SInv /\ [Next]_vars => [PollReturn => events' \subseteq registered' \cap open']_vars
  <2> SUFFICES ASSUME SInv, PollReturn PROVE events' \subseteq registered' \cap open'
    OBVIOUS
  <2>. QED
    BY DEF PollReturn, SInv, ReadyLive
<1>. QED
  BY <1>1, InitSInv, NextSInv, PTL DEF Spec, EventsOnlyForLive

-----------------------------------------------------------------------------
(***************************************************************************)
(* The refinement of HandleLifecycle.  Construction is one abstract step:  *)
(* Open when registration succeeds, OpenFailed when new_with closes the    *)
(* handle again; Drop is a Deregister and then a Close, which finds the   *)
(* handle open (its owner held it) and no longer registered (only a live  *)
(* adapter's handle is).  Everything else leaves the driver table and the  *)
(* registrations alone.                                                    *)
(***************************************************************************)
LifecycleVars == <<HandlePhase, registered>>

LEMMA ConstructStep ==
  ASSUME IInv, NEW fd \in Fds, NEW kind \in Kinds, Fresh(fd), RegisterOrClose(fd, kind)
  PROVE  Lifecycle!Next
<1>1. fd \notin used /\ fd \notin open /\ used' = used \cup {fd}
  BY DEF Fresh, IInv, TypeOK
<1>2. HandlePhase[fd] = "free"
  BY <1>1 DEF HandlePhase
<1>3. CASE /\ registered' = registered \cup {fd}
           /\ open' = open \cup {fd}
  <2>1. HandlePhase' = [HandlePhase EXCEPT ![fd] = "open"]
    BY <1>1, <1>3 DEF HandlePhase
  <2>2. Lifecycle!Open(fd)
    BY <1>2, <1>3, <2>1 DEF Lifecycle!Open
  <2>. QED
    BY <2>2 DEF Lifecycle!Next
<1>4. CASE FdClose(fd) /\ UNCHANGED registered
  <2>1. HandlePhase' = [HandlePhase EXCEPT ![fd] = "closed"]
    BY <1>1, <1>4 DEF HandlePhase, FdClose
  <2>2. Lifecycle!OpenFailed(fd)
    BY <1>2, <1>4, <2>1 DEF Lifecycle!OpenFailed
  <2>. QED
    BY <2>2 DEF Lifecycle!Next
<1>. QED
  BY <1>3, <1>4 DEF RegisterOrClose

LEMMA DropDeregisterStep ==
  ASSUME IInv, NEW fd \in Fds, DropDeregister(fd)
  PROVE  Lifecycle!Next
<1>1. fd \in used /\ fd \in open
  BY OwnedHandle DEF DropDeregister
<1>2. UNCHANGED <<used, open>> /\ registered' = registered \ {fd}
  BY DEF DropDeregister
<1>3. Lifecycle!Deregister(fd)
  BY <1>1, <1>2 DEF Lifecycle!Deregister, HandlePhase
<1>. QED
  BY <1>3 DEF Lifecycle!Next

LEMMA DropCloseStep ==
  ASSUME IInv, NEW fd \in Fds, DropClose(fd)
  PROVE  Lifecycle!Next
<1>1. fd \in used /\ fd \in open /\ adapter[fd] = None
  BY OwnedHandle DEF DropClose, IInv, TypeOK, Kinds, None
<1>2. fd \notin registered
  BY <1>1 DEF IInv, RegisteredOwned, Kinds, None
<1>3. UNCHANGED <<used, registered>> /\ open' = open \ {fd}
  BY DEF DropClose, FdClose
<1>4. HandlePhase[fd] = "open" /\ HandlePhase' = [HandlePhase EXCEPT ![fd] = "closed"]
  BY <1>1, <1>3 DEF HandlePhase
<1>5. Lifecycle!Close(fd)
  BY <1>2, <1>3, <1>4 DEF Lifecycle!Close
<1>. QED
  BY <1>5 DEF Lifecycle!Next

LEMMA NextLifecycle == IInv /\ [Next]_vars => [Lifecycle!Next]_LifecycleVars
<1> SUFFICES ASSUME IInv, [Next]_vars PROVE [Lifecycle!Next]_LifecycleVars
  OBVIOUS
<1>1. ASSUME NEW fd \in Fds, NEW kind \in Kinds, Fresh(fd), RegisterOrClose(fd, kind)
      PROVE  [Lifecycle!Next]_LifecycleVars
  BY <1>1, ConstructStep
<1>2. ASSUME NEW fd \in Fds, DropDeregister(fd) \/ DropClose(fd)
      PROVE  [Lifecycle!Next]_LifecycleVars
  BY <1>2, DropDeregisterStep, DropCloseStep
<1>3. ASSUME UNCHANGED <<used, open, registered>> PROVE [Lifecycle!Next]_LifecycleVars
  BY <1>3 DEF LifecycleVars, HandlePhase
<1>4. CASE \/ \E d \in Drivers : RegisterDriver(d)
           \/ PollWait \/ PollReturn \/ UNCHANGED vars
  BY <1>3, <1>4 DEF RegisterDriver, PollWait, PollReturn, vars
<1>. QED
  BY <1>1, <1>2, <1>4 DEF Next, Bind, BindWith, ConnectWith, AcceptWith, Kinds

(***************************************************************************)
(* TcpListener and TcpStream keep the handle lifecycle of spec section 3   *)
(* in both threading flavours: a handle is registered when its adapter is *)
(* built, closed at once if that fails, and otherwise deregistered before  *)
(* its single close; a closed handle never comes back.                     *)
(***************************************************************************)
THEOREM TcpRefinesLifecycle == Spec => RefinesHandleLifecycle
<1>1. Init => Lifecycle!Init
  BY DEF Init, Lifecycle!Init, HandlePhase
<1>. QED
  BY <1>1, InitIInv, NextIInv, NextLifecycle, PTL
     DEF Spec, RefinesHandleLifecycle, Lifecycle!Spec, LifecycleVars

=============================================================================

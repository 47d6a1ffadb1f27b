------------------------------ MODULE TcpAdapter ------------------------------
(***************************************************************************)
(* The TCP adapters of src/crates/net/tcp (TcpListener, TcpStream) over a  *)
(* driver and a mio poller, with the process-wide driver registration of   *)
(* src/hala-io-util/src/current/driver.rs.                                 *)
(*                                                                         *)
(* An adapter owns a handle {fd, driver, poller}.  Construction opens the  *)
(* fd, registers it with the poller and closes it again if registration    *)
(* fails; Drop deregisters and then closes.  The driver's handle table     *)
(* (fd_open, fd_close) is not in this repository and follows spec section  *)
(* 4.1: a handle is open from fd_open until its fd_close.                  *)
(*                                                                         *)
(* The poller is the socket side of BasicMioPoller (the timer side is      *)
(* MioPoller).  Its poll_once takes mio's events under the `poll` guard    *)
(* (line 175) and returns them at line 197, while deregister goes through  *)
(* the unguarded Arc<mio::Registry> (lines 328-332).  In the               *)
(* single-threaded flavour every call runs to its end on the reactor       *)
(* thread; in the multi-threaded flavour (MT) a Drop on another thread can *)
(* run between the wait and the return, and between its own deregister    *)
(* and close.  One reactor thread polls.                                   *)
(***************************************************************************)
EXTENDS Naturals, FiniteSets

CONSTANTS
  Fds,      \* the tokens the driver can hand out (fd_open, Accept)
  Drivers,  \* driver instances a program may register
  NoDriver, \* the empty OnceLock
  MT        \* the threading flavour: TRUE for MTModel, FALSE for STModel

ASSUME AdapterAssumption == MT \in BOOLEAN /\ NoDriver \notin Drivers

(* The adapter that owns a handle: a TcpListener, a TcpStream, or none.    *)
Kinds == {"listener", "stream"}
None == "none"

VARIABLES
  driver,      \* the OnceLock DRIVER
  used,        \* tokens handed out so far (tokens are process-unique)
  open,        \* handles open in the driver's table
  closes,      \* history: fd_close calls per handle
  adapter,     \* the live adapter owning each handle
  registered,  \* handles registered with the poller
  dropping,    \* handles whose Drop has deregistered and not yet closed
  polling,     \* poll_once is between its OS wait and its return
  ready,       \* the tokens mio reported in the wait in progress
  events       \* the tokens of the last poll_once result

vars == <<driver, used, open, closes, adapter, registered, dropping, polling,
          ready, events>>

-----------------------------------------------------------------------------
(* get_driver (driver.rs 12-20): NotFound until a driver is registered.    *)
DriverRegistered == driver # NoDriver

(* register_driver (driver.rs 23-30): OnceLock::set installs the first     *)
(* driver; a second call fails PermissionDenied and changes nothing.       *)
RegisterDriver(d) ==
  /\ driver' = IF driver = NoDriver THEN d ELSE driver
  /\ UNCHANGED <<used, open, closes, adapter, registered, dropping, polling,
                 ready, events>>

(* In the single-threaded flavour another call starts only when the        *)
(* reactor is not inside poll_once and no Drop is half done (the TM::Guard *)
(* of BasicMioPoller, poller.rs 127-132, is a RefCell there).              *)
Quiet == MT \/ (~polling /\ dropping = {})

(* fd_close of the driver (spec section 4.1).                              *)
FdClose(fd) ==
  /\ open' = open \ {fd}
  /\ closes' = [closes EXCEPT ![fd] = @ + 1]

(***************************************************************************)
(* TcpStream::new_with (stream.rs 28-44), and the same code inline in      *)
(* TcpListener::bind_with (listener.rs 43-57), for a handle fd_open just   *)
(* returned: Register with the poller; on success the adapter owns fd, on  *)
(* failure fd is closed (the close's own result ignored) and the error     *)
(* returned.                                                               *)
(***************************************************************************)
RegisterOrCloseLeak(fd, kind) ==
  \/ /\ registered' = registered \cup {fd}
     /\ adapter' = [adapter EXCEPT ![fd] = kind]
     /\ open' = open \cup {fd}
     /\ UNCHANGED closes
  \/ /\ open' = open \cup {fd}
     /\ UNCHANGED <<closes, registered, adapter>>

RegisterOrClose(fd, kind) ==
  \/ /\ registered' = registered \cup {fd}
     /\ adapter' = [adapter EXCEPT ![fd] = kind]
     /\ open' = open \cup {fd}
     /\ UNCHANGED closes
  \/ /\ FdClose(fd)
     /\ UNCHANGED <<registered, adapter>>

(* A fresh token from the driver: fd_open, or the handle Accept returns.   *)
Fresh(fd) ==
  /\ fd \in Fds \ used
  /\ used' = used \cup {fd}

(* TcpListener::bind_with (listener.rs 34-58), with the driver the caller *)
(* passes: fd_open(Bind), then register Readable or close.  A failed       *)
(* fd_open changes nothing.                                                *)
BindWith(fd) ==
  /\ Quiet
  /\ Fresh(fd)
  /\ RegisterOrClose(fd, "listener")
  /\ UNCHANGED <<driver, dropping, polling, ready, events>>

(* TcpListener::bind (listener.rs 30-32): bind_with the registered driver. *)
Bind(fd) ==
  /\ DriverRegistered
  /\ BindWith(fd)

(* TcpStream::connect_with (stream.rs 46-60).                              *)
ConnectWith(fd) ==
  /\ Quiet
  /\ DriverRegistered
  /\ Fresh(fd)
  /\ RegisterOrClose(fd, "stream")
  /\ UNCHANGED <<driver, dropping, polling, ready, events>>

(* TcpListener::accept_with (listener.rs 60-79): Accept yields an incoming *)
(* handle fd, wrapped by new_with.  A WouldBlock changes nothing; the      *)
(* listener is borrowed, so it cannot be dropped meanwhile.                *)
AcceptWith(l, fd) ==
  /\ Quiet
  /\ adapter[l] = "listener"
  /\ Fresh(fd)
  /\ RegisterOrClose(fd, "stream")
  /\ UNCHANGED <<driver, dropping, polling, ready, events>>

(* Drop (stream.rs 183-190, listener.rs 89-96), first call:                *)
(* fd_cntl(poller, Deregister(fd)).unwrap().                               *)
DropDeregisterKeep(fd) ==
  /\ Quiet
  /\ adapter[fd] \in Kinds
  /\ adapter' = [adapter EXCEPT ![fd] = None]
  /\ dropping' = dropping \cup {fd}
  /\ UNCHANGED <<driver, used, open, closes, registered, polling, ready, events>>

DropDeregister(fd) ==
  /\ Quiet
  /\ adapter[fd] \in Kinds
  /\ registered' = registered \ {fd}
  /\ adapter' = [adapter EXCEPT ![fd] = None]
  /\ dropping' = dropping \cup {fd}
  /\ UNCHANGED <<driver, used, open, closes, polling, ready, events>>

(* Drop, second call: fd_close(fd).unwrap().                              *)
DropCloseUnguarded(fd) ==
  /\ FdClose(fd)
  /\ dropping' = dropping \ {fd}
  /\ UNCHANGED <<driver, used, adapter, registered, polling, ready, events>>

DropClose(fd) ==
  /\ fd \in dropping
  /\ FdClose(fd)
  /\ dropping' = dropping \ {fd}
  /\ UNCHANGED <<driver, used, adapter, registered, polling, ready, events>>

(* poll_once (poller.rs 170-190), up to the OS wait and the translation:   *)
(* mio reports any of the registered sockets.                              *)
PollWait ==
  /\ Quiet
  /\ ~polling
  /\ \E r \in SUBSET registered : ready' = r
  /\ polling' = TRUE
  /\ UNCHANGED <<driver, used, open, closes, adapter, registered, dropping, events>>

(* poll_once (lines 191-197): after the wheel's tick, return hala_events.  *)
PollReturnStale ==
  /\ polling
  /\ events' = events \cup ready
  /\ polling' = FALSE
  /\ ready' = {}
  /\ UNCHANGED <<driver, used, open, closes, adapter, registered, dropping>>

PollReturn ==
  /\ polling
  /\ events' = ready
  /\ polling' = FALSE
  /\ ready' = {}
  /\ UNCHANGED <<driver, used, open, closes, adapter, registered, dropping>>

-----------------------------------------------------------------------------
Init ==
  /\ driver = NoDriver
  /\ used = {}
  /\ open = {}
  /\ closes = [fd \in Fds |-> 0]
  /\ adapter = [fd \in Fds |-> None]
  /\ registered = {}
  /\ dropping = {}
  /\ polling = FALSE
  /\ ready = {}
  /\ events = {}

Next ==
  \/ \E d \in Drivers : RegisterDriver(d)
  \/ \E fd \in Fds : Bind(fd) \/ BindWith(fd) \/ ConnectWith(fd) \/ DropDeregister(fd) \/ DropClose(fd)
  \/ \E l, fd \in Fds : AcceptWith(l, fd)
  \/ PollWait
  \/ PollReturn

Spec == Init /\ [][Next]_vars

-----------------------------------------------------------------------------
TypeOK ==
  /\ driver \in Drivers \cup {NoDriver}
  /\ used \subseteq Fds
  /\ open \subseteq used
  /\ closes \in [Fds -> 0 .. 2]
  /\ adapter \in [Fds -> Kinds \cup {None}]
  /\ registered \subseteq Fds
  /\ dropping \subseteq Fds
  /\ polling \in BOOLEAN
  /\ ready \subseteq Fds
  /\ events \subseteq Fds


-----------------------------------------------------------------------------
(***************************************************************************)
(* Every live handle is closed exactly once (spec section 3), by its       *)
(* owner: while a handle the program obtained is open, exactly one party   *)
(* owns it, its adapter or the Drop in progress; once closed, nobody does  *)
(* and it was closed once.  It covers the error path of bind_with and      *)
(* new_with, which must close the fd it just opened.                       *)
(***************************************************************************)
ClosedExactlyOnce ==
  \A fd \in used :
    \/ /\ fd \in open
       /\ closes[fd] = 0
       /\ (adapter[fd] \in Kinds) # (fd \in dropping)
    \/ /\ fd \notin open
       /\ closes[fd] = 1
       /\ adapter[fd] = None
       /\ fd \notin dropping

(***************************************************************************)
(* Every handle poll_once returns was registered and not yet deregistered  *)
(* (spec section 8, invariant 1), and is still open in the driver, so the  *)
(* reactor's lookup of its token finds it.                                 *)
(***************************************************************************)
EventsOnlyForLive ==
  [][PollReturn => events' \subseteq registered' \cap open']_vars

(***************************************************************************)
(* The adapters keep the handle lifecycle of spec section 3: seen through  *)
(* the driver table (a token not handed out is free, then open until its  *)
(* fd_close) and the poller's registrations, every step is a step of       *)
(* HandleLifecycle or changes neither.                                     *)
(***************************************************************************)
HandlePhase ==
  [fd \in Fds |-> IF fd \notin used THEN "free" ELSE IF fd \in open THEN "open" ELSE "closed"]

Lifecycle == INSTANCE HandleLifecycle WITH Handles <- Fds, phase <- HandlePhase, polled <- registered

RefinesHandleLifecycle == Lifecycle!Spec

=============================================================================

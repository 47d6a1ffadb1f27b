--------------------------- MODULE HandleLifecycle ---------------------------
(***************************************************************************)
(* What the socket adapters promise about the handles they own (spec       *)
(* section 3, "Lifecycle" and "Invariants"): a handle comes out of fd_open *)
(* and is registered with the poller before the adapter is returned; it is *)
(* deregistered, and only then closed, once; a closed handle is never used *)
(* again.  A handle whose registration fails is closed at once and never   *)
(* reaches the poller.                                                     *)
(***************************************************************************)
CONSTANT Handles

VARIABLES
  phase,   \* each handle: "free" (not handed out), "open" or "closed"
  polled   \* the handles registered with the poller

Phases == {"free", "open", "closed"}

Init ==
  /\ phase = [h \in Handles |-> "free"]
  /\ polled = {}

(* fd_open and Register: the adapter is built around a watched handle.     *)
Open(h) ==
  /\ phase[h] = "free"
  /\ phase' = [phase EXCEPT ![h] = "open"]
  /\ polled' = polled \cup {h}

(* fd_open, a Register that fails, and the fd_close of the error path.     *)
OpenFailed(h) ==
  /\ phase[h] = "free"
  /\ phase' = [phase EXCEPT ![h] = "closed"]
  /\ UNCHANGED polled

Deregister(h) ==
  /\ phase[h] = "open"
  /\ polled' = polled \ {h}
  /\ UNCHANGED phase

(* fd_close of a handle the poller no longer watches.                      *)
Close(h) ==
  /\ phase[h] = "open"
  /\ h \notin polled
  /\ phase' = [phase EXCEPT ![h] = "closed"]
  /\ UNCHANGED polled

Next == \E h \in Handles : Open(h) \/ OpenFailed(h) \/ Deregister(h) \/ Close(h)

Spec == Init /\ [][Next]_<<phase, polled>>

(***************************************************************************)
(* The poller watches only open handles.                                   *)
(***************************************************************************)
PolledOpen == \A h \in polled : phase[h] = "open"

=============================================================================

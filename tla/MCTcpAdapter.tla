----------------------------- MODULE MCTcpAdapter -----------------------------
(***************************************************************************)
(* Model-checking instance of TcpAdapter: three tokens (a listener, a      *)
(* stream it accepts and a connected stream, or any other mix) and two     *)
(* drivers, so that a second register_driver can be tried.                 *)
(***************************************************************************)
EXTENDS TcpAdapter, TLC

CONSTANTS f1, f2, f3, d1, d2

MCFds == {f1, f2, f3}
MCDrivers == {d1, d2}

(* Tokens and drivers are interchangeable model values.                    *)
MCSymmetry == Permutations(MCFds) \cup Permutations(MCDrivers)

=============================================================================

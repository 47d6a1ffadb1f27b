-------------------------- MODULE MCQuicConnState --------------------------
(***************************************************************************)
(* Instances of QuicConnState for TLC.  A client connection: open_stream   *)
(* hands out the ids 0, 4, ..., the peer initiates odd ids.                *)
(***************************************************************************)
EXTENDS QuicConnState

(* The peer may open stream 1.                                             *)
MCPeerStreams == {1}

(* No peer stream: only streams of open_stream.                            *)
MCNoPeerStreams == {}

(* incoming_streams is a deque the code never bounds; a stream re-enters   *)
(* it every time it leaves opened_streams, so TLC explores it up to a      *)
(* length of MaxIncoming.                                                  *)
MaxIncoming == 2

IncomingBound == Len(incoming) <= MaxIncoming
=============================================================================

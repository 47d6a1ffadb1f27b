--------------------------- MODULE QuicConnState ---------------------------
(***************************************************************************)
(* The QUIC connection state of hala-net: AsyncQuicConnState in            *)
(* src/hala-net/src/quic/conn_state.rs.                                    *)
(*                                                                         *)
(* One connection.  Its interior state (the quiche connection, the         *)
(* opened_streams set and the incoming_streams deque) sits behind a        *)
(* mediator that pairs the state with a registry of parked tasks keyed by  *)
(* event.  Every operation is one on_poll closure: it runs atomically      *)
(* under the mediator's lock and either completes (Ready) or parks the     *)
(* calling task under its event (Pending).  notify(e) unparks the task     *)
(* parked under e, wakeup_all unparks every task.                          *)
(*                                                                         *)
(* The quiche engine is an external collaborator: it is the record `conn`  *)
(* whose fields are the facts of quiche's API that the code reads          *)
(* (is_closed, readable(), writable(), timeout(), ...), and the results    *)
(* of its calls are the sets of engine states quiche may move to.          *)
(*                                                                         *)
(* Tasks: one task per event.  The send loop and the recv loop are the     *)
(* connection's own tasks; the other tasks are the application's, which    *)
(* may call stream_send / stream_recv on the streams it holds (opened by   *)
(* open_stream or returned by accept), open_stream, accept and close.      *)
(***************************************************************************)
EXTENDS Naturals, Sequences, FiniteSets

CONSTANTS
  StreamIdSeed,  \* initial value of stream_id_seed (AsyncQuicConnState::new)
  MaxOpen,       \* bound on the number of open_stream calls
  PeerStreams,   \* stream ids the peer may initiate
  IdleTimeout    \* TRUE iff the engine has an idle timer (max_idle_timeout > 0)

ASSUME ConstAssumption ==
  /\ StreamIdSeed \in Nat
  /\ MaxOpen \in Nat
  /\ PeerStreams \subseteq Nat
  /\ IsFiniteSet(PeerStreams)
  /\ IdleTimeout \in BOOLEAN

(* Ids handed out by open_stream: the seed advances by 4 on every call.    *)
LocalStreams == {StreamIdSeed + 4 * k : k \in 0 .. (MaxOpen - 1)}

Streams == LocalStreams \cup PeerStreams

(***************************************************************************)
(* The mediator's event keys (QuicConnEvents).  The trace id is the same   *)
(* for every event of one connection and is left out.                      *)
(***************************************************************************)
EvSend == <<"Send", 0>>
EvRecv == <<"Recv", 0>>
EvAccept == <<"Accept", 0>>
EvOpenStream == <<"OpenStream", 0>>
EvStreamSend(s) == <<"StreamSend", s>>
EvStreamRecv(s) == <<"StreamRecv", s>>

Events ==
  {EvSend, EvRecv, EvAccept, EvOpenStream}
    \cup {EvStreamSend(s) : s \in Streams} \cup {EvStreamRecv(s) : s \in Streams}

(***************************************************************************)
(* The engine state the code observes.                                     *)
(*   closed    is_closed()                                                 *)
(*   draining  close() was called or the connection failed: quiche is     *)
(*             closing or draining and will close when its timer expires   *)
(*   received  at least one packet was processed (quiche's recv_count > 0) *)
(*   output    send() has a packet to return                               *)
(*   inflight  ack-eliciting packets are unacknowledged (loss timer armed) *)
(*   expired   the earliest engine deadline has passed                     *)
(*   alive     streams the engine holds; readable(), writable() are       *)
(*             subsets; localFin / peerFin: the side that sent a fin;      *)
(*   collected streams that completed and are gone for good.               *)
(***************************************************************************)
EngineStates ==
  [closed : BOOLEAN, draining : BOOLEAN, received : BOOLEAN, output : BOOLEAN,
   inflight : BOOLEAN, expired : BOOLEAN,
   alive : SUBSET Streams, readable : SUBSET Streams, writable : SUBSET Streams,
   localFin : SUBSET Streams, peerFin : SUBSET Streams, collected : SUBSET Streams]

EngineInit ==
  [closed |-> FALSE, draining |-> FALSE, received |-> FALSE, output |-> TRUE,
   inflight |-> FALSE, expired |-> FALSE,
   alive |-> {}, readable |-> {}, writable |-> {},
   localFin |-> {}, peerFin |-> {}, collected |-> {}]

SleepStates == {"none", "armed", "fired"}

VARIABLES
  conn,       \* the quiche connection (QuicConnState::quiche_conn)
  opened,     \* QuicConnState::opened_streams
  incoming,   \* QuicConnState::incoming_streams
  seed,       \* AsyncQuicConnState::stream_id_seed
  parked,     \* events under which a task is parked in the mediator
  sleep,      \* the `sleep` local of the running send future
  owned,      \* streams the application holds a QuicStream for
  accepted    \* history: how often accept returned each stream (capped at 2)

vars == <<conn, opened, incoming, seed, parked, sleep, owned, accepted>>

-----------------------------------------------------------------------------
(***************************************************************************)
(* The engine (quiche), as far as the code depends on it.                  *)
(***************************************************************************)

(* timeout(): none, an expired deadline (zero) or a later one.             *)
HasTimer(c) == ~c.closed /\ (IdleTimeout \/ c.draining \/ c.inflight)

Timeout(c) ==
  IF ~HasTimer(c) THEN "none" ELSE IF c.expired THEN "zero" ELSE "later"

(* on_timeout(): a passed draining deadline closes the connection; an idle *)
(* deadline closes it, a loss deadline queues a probe.                     *)
OnTimeoutResults(c) ==
  IF ~c.expired \/ c.closed THEN {c}
  ELSE IF c.draining THEN {[c EXCEPT !.closed = TRUE, !.expired = FALSE]}
  ELSE (IF IdleTimeout THEN {[c EXCEPT !.closed = TRUE, !.expired = FALSE]} ELSE {})
       \cup (IF c.inflight THEN {[c EXCEPT !.output = TRUE, !.expired = FALSE]} ELSE {})

(* send() returning a packet; while closing only the close frame is sent. *)
SendOkResults(c) ==
  {[c EXCEPT !.output = more /\ ~c.draining, !.inflight = c.inflight \/ ~c.draining]
     : more \in BOOLEAN}

(* The frames a peer packet may carry that the code reacts to.             *)
Packets(c) ==
  {<<"data", s>> : s \in (c.alive \cup PeerStreams) \ (c.collected \cup c.peerFin)}
    \cup {<<"fin", s>> : s \in (c.alive \cup PeerStreams) \ (c.collected \cup c.peerFin)}
    \cup {<<"credit", 0>>, <<"ack", 0>>, <<"close", 0>>, <<"reset", 0>>}

StreamFrame(c, s) ==
  [c EXCEPT !.alive = @ \cup {s}, !.readable = @ \cup {s},
            !.writable = IF s \in c.alive THEN @ ELSE @ \cup {s}]

PacketEffect(c, p) ==
  CASE p[1] = "data"   -> StreamFrame(c, p[2])
    [] p[1] = "fin"    -> [StreamFrame(c, p[2]) EXCEPT !.peerFin = @ \cup {p[2]}]
    [] p[1] = "credit" -> [c EXCEPT !.writable = c.alive \ c.localFin]
    [] p[1] = "ack"    -> [c EXCEPT !.inflight = FALSE]
    [] p[1] = "close"  -> [c EXCEPT !.draining = TRUE]
    [] p[1] = "reset"  -> [c EXCEPT !.closed = TRUE]

(* recv() returning Ok: a closing or draining engine drops the packet.     *)
RecvOkResults(c) ==
  IF c.draining THEN {c}
  ELSE {LET c1 == PacketEffect(c, p)
        IN [c1 EXCEPT !.received = TRUE, !.expired = FALSE,
                      !.output = c1.output \/ (ack /\ ~c1.draining)]
          : p \in Packets(c), ack \in BOOLEAN}

(* recv() returning an error: the frames before the bad one took effect,   *)
(* then quiche closes the connection with the error (a close frame).       *)
RecvErrResults(c) ==
  {[c1 EXCEPT !.draining = TRUE, !.output = TRUE]
     : c1 \in {c} \cup {PacketEffect(c, p) : p \in Packets(c)}}

-----------------------------------------------------------------------------
(***************************************************************************)
(* The mediator (future_mediator::LocalMediator, an external crate).       *)
(***************************************************************************)

(* The ways to enumerate a set, for loops over readable() / writable().    *)
Orderings(S) ==
  {f \in [1 .. Cardinality(S) -> S] :
     \A i, j \in 1 .. Cardinality(S) : i # j => f[i] # f[j]}

(***************************************************************************)
(* handle_stream (lines 56-88) run on engine state c: every readable or    *)
(* writable stream not yet in opened_streams goes through handle_accept    *)
(* (inserted, pushed on incoming_streams, Accept notified), and every      *)
(* readable (writable) stream has StreamRecv (StreamSend) notified.        *)
(* Readable streams are visited before writable ones.                      *)
(***************************************************************************)
NewReadable(c) == c.readable \ opened

NewWritable(c) == c.writable \ (opened \cup c.readable)

StreamNotified(c) ==
  (IF NewReadable(c) \cup NewWritable(c) # {} THEN {EvAccept} ELSE {})
    \cup {EvStreamRecv(s) : s \in c.readable} \cup {EvStreamSend(s) : s \in c.writable}

(* A handle_stream that forgets the Accept wakeup of handle_accept.         *)
HandleStreamNoAcceptNotify(c, notified) ==
  /\ opened' = opened \cup c.readable \cup c.writable
  /\ \E r \in Orderings(NewReadable(c)), w \in Orderings(NewWritable(c)) :
        incoming' = incoming \o r \o w
  /\ parked' = parked \ (notified \cup (StreamNotified(c) \ {EvAccept}))

HandleStream(c, notified) ==
  /\ opened' = opened \cup c.readable \cup c.writable
  /\ \E r \in Orderings(NewReadable(c)), w \in Orderings(NewWritable(c)) :
        incoming' = incoming \o r \o w
  /\ parked' = parked \ (notified \cup StreamNotified(c))

-----------------------------------------------------------------------------
(***************************************************************************)
(* send (lines 118-197).  The closure is one atomic poll.  A fired sleep   *)
(* runs on_timeout; a sleep still pending is dropped by sleep.take().      *)
(* The loop then calls quiche send: a packet completes the call after      *)
(* handle_stream; Done on a closed engine wakes everyone and fails; a      *)
(* zero timeout runs on_timeout and loops; a later one arms a new sleep;   *)
(* then the task parks under Send.                                         *)
(***************************************************************************)
(* A send loop that parks without arming the Sleep of a later timeout.      *)
SendIterationNoSleep(c) ==
  \/ /\ c.output
     /\ \E c2 \in SendOkResults(c) : conn' = c2 /\ HandleStream(c2, {})
     /\ sleep' = "none"
  \/ /\ ~c.output /\ c.closed
     /\ conn' = c /\ parked' = {} /\ sleep' = "none"
     /\ UNCHANGED <<opened, incoming>>
  \/ /\ ~c.output /\ ~c.closed /\ Timeout(c) # "zero"
     /\ conn' = c
     /\ sleep' = "none"
     /\ parked' = parked \cup {EvSend}
     /\ UNCHANGED <<opened, incoming>>

SendIteration(c) ==
  \/ /\ c.output
     /\ \E c2 \in SendOkResults(c) : conn' = c2 /\ HandleStream(c2, {})
     /\ sleep' = "none"
  \/ /\ ~c.output /\ c.closed
     /\ conn' = c /\ parked' = {} /\ sleep' = "none"
     /\ UNCHANGED <<opened, incoming>>
  \/ /\ ~c.output /\ ~c.closed /\ Timeout(c) # "zero"
     /\ conn' = c
     /\ sleep' = IF Timeout(c) = "later" THEN "armed" ELSE "none"
     /\ parked' = parked \cup {EvSend}
     /\ UNCHANGED <<opened, incoming>>

Send ==
  /\ EvSend \notin parked
  /\ \/ /\ conn.closed
        /\ parked' = {} /\ sleep' = "none"
        /\ UNCHANGED <<conn, opened, incoming>>
     \/ /\ ~conn.closed
        /\ \E c1 \in (IF sleep = "fired" THEN OnTimeoutResults(conn) ELSE {conn}) :
             \/ SendIteration(c1)
             \/ /\ ~c1.output /\ ~c1.closed /\ Timeout(c1) = "zero"
                /\ \E c2 \in OnTimeoutResults(c1) : SendIteration(c2)
  /\ UNCHANGED <<seed, owned, accepted>>

(***************************************************************************)
(* recv (lines 200-251), called by the recv loop with the next datagram.   *)
(***************************************************************************)
Recv ==
  /\ EvRecv \notin parked
  /\ \/ /\ conn.closed
        /\ parked' = {}
        /\ UNCHANGED <<conn, opened, incoming>>
     \/ /\ ~conn.closed
        /\ \E c2 \in RecvOkResults(conn) :
             /\ conn' = c2
             /\ IF c2.closed
                  THEN parked' = {} /\ UNCHANGED <<opened, incoming>>
                  ELSE HandleStream(c2, {EvSend})
     \/ /\ ~conn.closed
        /\ parked' = parked \cup {EvRecv}
        /\ UNCHANGED <<conn, opened, incoming>>
     \/ /\ ~conn.closed /\ ~conn.draining
        /\ \E c2 \in RecvErrResults(conn) :
             /\ conn' = c2
             /\ parked' = IF c2.closed THEN {} ELSE parked
        /\ UNCHANGED <<opened, incoming>>
  /\ UNCHANGED <<seed, sleep, owned, accepted>>

(***************************************************************************)
(* stream_send (lines 254-316) on a stream the application holds.  quiche  *)
(* creates a local stream on its first write, returns Done for a stream    *)
(* without capacity or already collected, and an error (FinalSize) for a   *)
(* write after fin.                                                        *)
(***************************************************************************)
(* A stream_send that writes without notifying the Send task.               *)
StreamSendNoNotify(s, fin) ==
  /\ s \in owned
  /\ EvStreamSend(s) \notin parked
  /\ \/ /\ conn.closed
        /\ parked' = {}
        /\ UNCHANGED <<conn, opened>>
     \/ /\ ~conn.closed
        /\ s \notin conn.collected \cup conn.localFin
        /\ s \in conn.writable \/ s \in LocalStreams \ conn.alive
        /\ \E room \in BOOLEAN :
             conn' = [conn EXCEPT
                        !.alive = @ \cup {s},
                        !.writable = IF room /\ ~fin THEN @ \cup {s} ELSE @ \ {s},
                        !.localFin = IF fin THEN @ \cup {s} ELSE @,
                        !.output = @ \/ ~conn.draining]
        /\ UNCHANGED parked
        /\ opened' = IF fin THEN opened \ {s} ELSE opened
     \/ /\ ~conn.closed
        /\ \/ s \in conn.collected
           \/ s \in conn.alive \ (conn.writable \cup conn.localFin)
        /\ parked' = parked \cup {EvStreamSend(s)}
        /\ UNCHANGED <<conn, opened>>
     \/ /\ ~conn.closed
        /\ s \in conn.localFin \ conn.collected
        /\ opened' = IF fin THEN opened \ {s} ELSE opened
        /\ UNCHANGED <<conn, parked>>
  /\ UNCHANGED <<incoming, seed, sleep, owned, accepted>>

StreamSend(s, fin) ==
  /\ s \in owned
  /\ EvStreamSend(s) \notin parked
  /\ \/ /\ conn.closed
        /\ parked' = {}
        /\ UNCHANGED <<conn, opened>>
     \/ /\ ~conn.closed
        /\ s \notin conn.collected \cup conn.localFin
        /\ s \in conn.writable \/ s \in LocalStreams \ conn.alive
        /\ \E room \in BOOLEAN :
             conn' = [conn EXCEPT
                        !.alive = @ \cup {s},
                        !.writable = IF room /\ ~fin THEN @ \cup {s} ELSE @ \ {s},
                        !.localFin = IF fin THEN @ \cup {s} ELSE @,
                        !.output = @ \/ ~conn.draining]
        /\ parked' = parked \ {EvSend}
        /\ opened' = IF fin THEN opened \ {s} ELSE opened
     \/ /\ ~conn.closed
        /\ \/ s \in conn.collected
           \/ s \in conn.alive \ (conn.writable \cup conn.localFin)
        /\ parked' = parked \cup {EvStreamSend(s)}
        /\ UNCHANGED <<conn, opened>>
     \/ /\ ~conn.closed
        /\ s \in conn.localFin \ conn.collected
        /\ opened' = IF fin THEN opened \ {s} ELSE opened
        /\ UNCHANGED <<conn, parked>>
  /\ UNCHANGED <<incoming, seed, sleep, owned, accepted>>

(***************************************************************************)
(* stream_recv (lines 319-374).  Reading the last data of a stream whose   *)
(* peer sent fin reads the fin; a stream finished both ways is collected.  *)
(***************************************************************************)
StreamRecv(s) ==
  /\ s \in owned
  /\ EvStreamRecv(s) \notin parked
  /\ \/ /\ conn.closed
        /\ parked' = {}
        /\ UNCHANGED conn
     \/ /\ ~conn.closed
        /\ s \in conn.readable
        /\ \E more, update \in BOOLEAN :
             LET done == ~more /\ s \in conn.peerFin /\ s \in conn.localFin
             IN conn' = [conn EXCEPT
                           !.readable = IF more THEN @ ELSE @ \ {s},
                           !.alive = IF done THEN @ \ {s} ELSE @,
                           !.writable = IF done THEN @ \ {s} ELSE @,
                           !.collected = IF done THEN @ \cup {s} ELSE @,
                           !.output = @ \/ (update /\ ~conn.draining)]
        /\ parked' = parked \ {EvRecv, EvSend}
     \/ /\ ~conn.closed
        /\ s \in conn.alive \ conn.readable
        /\ parked' = parked \cup {EvStreamRecv(s)}
        /\ UNCHANGED conn
     \/ /\ ~conn.closed
        /\ s \notin conn.alive
        /\ UNCHANGED <<conn, parked>>
  /\ UNCHANGED <<opened, incoming, seed, sleep, owned, accepted>>

(***************************************************************************)
(* open_stream (lines 377-400): the id is taken from the seed before the   *)
(* poll, so a failed call still consumes it.                               *)
(***************************************************************************)
(* An open_stream that hands out the seed's value after fetch_add.          *)
OpenStreamAddFetch ==
  /\ EvOpenStream \notin parked
  /\ seed < StreamIdSeed + 4 * MaxOpen
  /\ seed' = seed + 4
  /\ \/ /\ conn.closed
        /\ UNCHANGED <<parked, owned>>
     \/ /\ ~conn.closed
        /\ parked' = parked \ {EvSend}
        /\ owned' = owned \cup {seed + 4}
  /\ UNCHANGED <<conn, opened, incoming, sleep, accepted>>

OpenStream ==
  /\ EvOpenStream \notin parked
  /\ seed < StreamIdSeed + 4 * MaxOpen
  /\ seed' = seed + 4
  /\ \/ /\ conn.closed
        /\ UNCHANGED <<parked, owned>>
     \/ /\ ~conn.closed
        /\ parked' = parked \ {EvSend}
        /\ owned' = owned \cup {seed}
  /\ UNCHANGED <<conn, opened, incoming, sleep, accepted>>

(***************************************************************************)
(* accept (lines 432-451).                                                 *)
(***************************************************************************)
(* An accept that parks without checking whether the connection is closed.  *)
AcceptNoClosedCheck ==
  /\ EvAccept \notin parked
  /\ \/ /\ ~conn.closed
        /\ incoming # <<>>
        /\ incoming' = Tail(incoming)
        /\ owned' = owned \cup {Head(incoming)}
        /\ accepted' = [accepted EXCEPT ![Head(incoming)] = IF @ < 2 THEN @ + 1 ELSE @]
        /\ UNCHANGED parked
     \/ /\ incoming = <<>>
        /\ parked' = parked \cup {EvAccept}
        /\ UNCHANGED <<incoming, owned, accepted>>
  /\ UNCHANGED <<conn, opened, seed, sleep>>

Accept ==
  /\ EvAccept \notin parked
  /\ \/ /\ conn.closed
        /\ UNCHANGED <<incoming, parked, owned, accepted>>
     \/ /\ ~conn.closed
        /\ incoming # <<>>
        /\ incoming' = Tail(incoming)
        /\ owned' = owned \cup {Head(incoming)}
        /\ accepted' = [accepted EXCEPT ![Head(incoming)] = IF @ < 2 THEN @ + 1 ELSE @]
        /\ UNCHANGED parked
     \/ /\ ~conn.closed
        /\ incoming = <<>>
        /\ parked' = parked \cup {EvAccept}
        /\ UNCHANGED <<incoming, owned, accepted>>
  /\ UNCHANGED <<conn, opened, seed, sleep>>

(***************************************************************************)
(* close (lines 419-426): quiche close under the lock, nobody is woken.    *)
(* quiche refuses a second close, and closes at once when no packet was    *)
(* ever processed.                                                         *)
(***************************************************************************)
Close ==
  /\ ~conn.closed /\ ~conn.draining
  /\ conn' = [conn EXCEPT !.draining = TRUE, !.output = TRUE,
                          !.closed = ~conn.received]
  /\ UNCHANGED <<opened, incoming, seed, parked, sleep, owned, accepted>>

-----------------------------------------------------------------------------
(***************************************************************************)
(* The environment: time passes the engine's deadline, and the reactor     *)
(* fires the send future's Sleep, waking the send task.                    *)
(***************************************************************************)
Expire ==
  /\ HasTimer(conn) /\ ~conn.expired
  /\ conn' = [conn EXCEPT !.expired = TRUE]
  /\ UNCHANGED <<opened, incoming, seed, parked, sleep, owned, accepted>>

SleepFire ==
  /\ sleep = "armed"
  /\ sleep' = "fired"
  /\ parked' = parked \ {EvSend}
  /\ UNCHANGED <<conn, opened, incoming, seed, owned, accepted>>

-----------------------------------------------------------------------------
Init ==
  /\ conn = EngineInit
  /\ opened = {}
  /\ incoming = <<>>
  /\ seed = StreamIdSeed
  /\ parked = {}
  /\ sleep = "none"
  /\ owned = {}
  /\ accepted = [s \in Streams |-> 0]

Next ==
  \/ Send
  \/ Recv
  \/ \E s \in Streams, fin \in BOOLEAN : StreamSend(s, fin)
  \/ \E s \in Streams : StreamRecv(s)
  \/ OpenStream
  \/ Accept
  \/ Close
  \/ Expire
  \/ SleepFire

(* The send loop and the reactor never stop, and time passes.              *)
Fairness ==
  /\ WF_vars(Send)
  /\ WF_vars(SleepFire)
  /\ WF_vars(Expire)

Spec == Init /\ [][Next]_vars

FairSpec == Spec /\ Fairness

-----------------------------------------------------------------------------
TypeOK ==
  /\ conn \in EngineStates
  /\ opened \in SUBSET Streams
  /\ incoming \in Seq(Streams)
  /\ seed \in Nat
  /\ parked \in SUBSET Events
  /\ sleep \in SleepStates
  /\ owned \in SUBSET Streams
  /\ accepted \in [Streams -> 0 .. 2]

-----------------------------------------------------------------------------
(***************************************************************************)
(* No lost wakeup.  While the connection is healthy (neither closing nor   *)
(* closed), no task stays parked whose poll would now complete: every      *)
(* change that makes a parked poll ready is followed, in the same step,    *)
(* by a notify of its event (handle_stream after send and recv, the        *)
(* notifies of stream_send and stream_recv), and a parked send loop whose  *)
(* engine has a deadline has a Sleep armed to wake it.                     *)
(***************************************************************************)
NoLostWakeup ==
  ~conn.closed /\ ~conn.draining =>
    /\ EvAccept \in parked => incoming = <<>>
    /\ \A s \in Streams : EvStreamRecv(s) \in parked => s \notin conn.readable
    /\ \A s \in Streams : EvStreamSend(s) \in parked => s \notin conn.writable
    /\ EvSend \in parked => ~conn.output /\ (HasTimer(conn) => sleep = "armed")

(***************************************************************************)
(* No operation parks its task on a closed connection (spec section 8,     *)
(* invariant 5): every closure checks is_closed before it returns Pending. *)
(***************************************************************************)
NoParkOnClosed ==
  [][\A e \in Events : e \notin parked /\ e \in parked' => ~conn'.closed]_vars

(***************************************************************************)
(* Closing the connection, by close() or by the engine, eventually closes  *)
(* it and wakes every task parked on it: the send loop's Sleep brings the  *)
(* send task back, on_timeout closes the engine and wakeup_all runs.       *)
(***************************************************************************)
WaitersWokenOnClose ==
  \A e \in Events :
    (e \in parked /\ (conn.draining \/ conn.closed)) ~> (conn.closed /\ e \notin parked)

(***************************************************************************)
(* accept only returns streams the peer opened (the Accept event is the    *)
(* server-side stream acceptor of spec section 4.5): it never hands the    *)
(* application a stream that open_stream gave it.                          *)
(***************************************************************************)
AcceptOnlyPeerStreams == \A s \in LocalStreams : accepted[s] = 0

(***************************************************************************)
(* accept returns every stream at most once.                               *)
(***************************************************************************)
AcceptOnce == \A s \in Streams : accepted[s] <= 1

=============================================================================

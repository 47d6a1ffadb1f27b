------------------------ MODULE QuicConnState_proofs ------------------------
(***************************************************************************)
(* Proofs about QuicConnState, for every value of the constants that       *)
(* satisfies ConstAssumption.                                              *)
(***************************************************************************)
EXTENDS QuicConnState, FiniteSetTheorems, SequenceTheorems, TLAPS

-----------------------------------------------------------------------------
(* Lemmas about the operators the model is built from.                     *)

(* There are finitely many stream ids: open_stream is bounded by MaxOpen.  *)
LEMMA StreamsFinite == IsFiniteSet(Streams)
<1>. DEFINE Top == StreamIdSeed + 4 * MaxOpen
<1>1. LocalStreams \subseteq 0 .. Top
  BY ConstAssumption DEF LocalStreams
<1>2. IsFiniteSet(0 .. Top)
  BY ConstAssumption, FS_Interval
<1>3. IsFiniteSet(LocalStreams)
  BY <1>1, <1>2, FS_Subset
<1>. QED
  BY <1>3, ConstAssumption, FS_Union DEF Streams

(* Every enumeration of a set of stream ids is a sequence of stream ids.   *)
LEMMA OrderingsType ==
  ASSUME NEW S \in SUBSET Streams
  PROVE  Orderings(S) \subseteq Seq(Streams)
<1>1. Cardinality(S) \in Nat
  BY StreamsFinite, FS_Subset, FS_CardinalityType
<1>. QED
  BY <1>1 DEF Orderings

(* The engine's results stay engine states.                                *)
LEMMA StreamFrameType ==
  ASSUME NEW c \in EngineStates, NEW s \in Streams
  PROVE  StreamFrame(c, s) \in EngineStates
BY DEF StreamFrame, EngineStates

LEMMA PacketEffectType ==
  ASSUME NEW c \in EngineStates, NEW p \in Packets(c)
  PROVE  PacketEffect(c, p) \in EngineStates
<1>. DEFINE Fresh == (c.alive \cup PeerStreams) \ (c.collected \cup c.peerFin)
<1>1. Fresh \subseteq Streams
  BY DEF EngineStates, Streams
<1>2. ASSUME NEW s \in Fresh PROVE PacketEffect(c, <<"data", s>>) \in EngineStates
  <2>1. StreamFrame(c, s) \in EngineStates
    BY <1>1, StreamFrameType
  <2>. QED
    BY <2>1 DEF PacketEffect
<1>3. ASSUME NEW s \in Fresh PROVE PacketEffect(c, <<"fin", s>>) \in EngineStates
  <2>1. StreamFrame(c, s) \in EngineStates
    BY <1>1, StreamFrameType
  <2>2. [StreamFrame(c, s) EXCEPT !.peerFin = @ \cup {s}] \in EngineStates
    BY <1>1, <2>1 DEF EngineStates
  <2>. QED
    BY <2>2 DEF PacketEffect
<1>4. PacketEffect(c, <<"credit", 0>>) \in EngineStates
  BY DEF PacketEffect, EngineStates
<1>5. PacketEffect(c, <<"ack", 0>>) \in EngineStates
  BY DEF PacketEffect, EngineStates
<1>6. PacketEffect(c, <<"close", 0>>) \in EngineStates
  BY DEF PacketEffect, EngineStates
<1>7. PacketEffect(c, <<"reset", 0>>) \in EngineStates
  BY DEF PacketEffect, EngineStates
<1>. QED
  BY <1>2, <1>3, <1>4, <1>5, <1>6, <1>7 DEF Packets

LEMMA OnTimeoutType ==
  ASSUME NEW c \in EngineStates
  PROVE  OnTimeoutResults(c) \subseteq EngineStates
<1>1. [c EXCEPT !.closed = TRUE, !.expired = FALSE] \in EngineStates
  BY DEF EngineStates
<1>2. [c EXCEPT !.output = TRUE, !.expired = FALSE] \in EngineStates
  BY DEF EngineStates
<1>. QED
  BY <1>1, <1>2 DEF OnTimeoutResults

LEMMA SendOkType ==
  ASSUME NEW c \in EngineStates
  PROVE  SendOkResults(c) \subseteq EngineStates
<1>1. ASSUME NEW more \in BOOLEAN
      PROVE  [c EXCEPT !.output = more /\ ~c.draining,
                       !.inflight = c.inflight \/ ~c.draining] \in EngineStates
  BY DEF EngineStates
<1>. QED
  BY <1>1 DEF SendOkResults

(* The bookkeeping recv() does after the frames of a packet took effect.   *)
RecvUpd(c1, ack) ==
  [c1 EXCEPT !.received = TRUE, !.expired = FALSE,
             !.output = c1.output \/ (ack /\ ~c1.draining)]

LEMMA RecvOkForm ==
  ASSUME NEW c, ~c.draining
  PROVE  RecvOkResults(c) = {RecvUpd(PacketEffect(c, p), ack) : p \in Packets(c), ack \in BOOLEAN}
BY DEF RecvOkResults, RecvUpd

LEMMA RecvOkType ==
  ASSUME NEW c \in EngineStates
  PROVE  RecvOkResults(c) \subseteq EngineStates
<1>1. ASSUME NEW c1 \in EngineStates, NEW ack \in BOOLEAN
      PROVE  RecvUpd(c1, ack) \in EngineStates
  BY DEF RecvUpd, EngineStates
<1>2. CASE c.draining
  BY <1>2 DEF RecvOkResults
<1>3. CASE ~c.draining
  <2>1. RecvOkResults(c) = {RecvUpd(PacketEffect(c, p), ack) : p \in Packets(c), ack \in BOOLEAN}
    BY <1>3, RecvOkForm
  <2>2. \A p \in Packets(c), ack \in BOOLEAN : RecvUpd(PacketEffect(c, p), ack) \in EngineStates
    BY <1>1, PacketEffectType
  <2>. SUFFICES ASSUME NEW x \in RecvOkResults(c) PROVE x \in EngineStates
    OBVIOUS
  <2>3. PICK p \in Packets(c), ack \in BOOLEAN : x = RecvUpd(PacketEffect(c, p), ack)
    BY <2>1
  <2>. QED
    BY <2>2, <2>3
<1>. QED
  BY <1>2, <1>3

LEMMA RecvErrType ==
  ASSUME NEW c \in EngineStates
  PROVE  RecvErrResults(c) \subseteq EngineStates
<1>1. ASSUME NEW c1 \in EngineStates
      PROVE  [c1 EXCEPT !.draining = TRUE, !.output = TRUE] \in EngineStates
  BY DEF EngineStates
<1>2. \A p \in Packets(c) : PacketEffect(c, p) \in EngineStates
  BY PacketEffectType
<1>. QED
  BY <1>1, <1>2 DEF RecvErrResults

-----------------------------------------------------------------------------
(* handle_stream keeps the types of opened_streams, incoming_streams and   *)
(* the mediator's parked set.                                              *)
LEMMA HandleStreamType ==
  ASSUME TypeOK, NEW c \in EngineStates, NEW notified, HandleStream(c, notified)
  PROVE  /\ opened' \in SUBSET Streams
         /\ incoming' \in Seq(Streams)
         /\ parked' \in SUBSET Events
<1>1. opened' \in SUBSET Streams
  BY DEF HandleStream, TypeOK, EngineStates
<1>2. incoming' \in Seq(Streams)
  <2>1. PICK r \in Orderings(NewReadable(c)), w \in Orderings(NewWritable(c)) :
               incoming' = incoming \o r \o w
    BY DEF HandleStream
  <2>2. r \in Seq(Streams) /\ w \in Seq(Streams)
    BY OrderingsType DEF NewReadable, NewWritable, EngineStates
  <2>. QED
    BY <2>1, <2>2, ConcatProperties DEF TypeOK
<1>3. parked' \in SUBSET Events
  BY DEF HandleStream, TypeOK
<1>. QED
  BY <1>1, <1>2, <1>3

-----------------------------------------------------------------------------
(* One lemma per action: it keeps TypeOK.                                  *)

LEMMA SendIterationType ==
  ASSUME TypeOK, NEW c \in EngineStates, SendIteration(c),
         UNCHANGED <<seed, owned, accepted>>
  PROVE  TypeOK'
<1>1. CASE c.output /\ \E c2 \in SendOkResults(c) : conn' = c2 /\ HandleStream(c2, {})
                    /\ sleep' = "none"
  <2>1. PICK c2 \in SendOkResults(c) : conn' = c2 /\ HandleStream(c2, {})
    BY <1>1
  <2>2. c2 \in EngineStates
    BY SendOkType
  <2>. QED
    BY <1>1, <2>1, <2>2, HandleStreamType DEF TypeOK, SleepStates
<1>2. CASE ~c.output /\ c.closed /\ conn' = c /\ parked' = {} /\ sleep' = "none"
           /\ UNCHANGED <<opened, incoming>>
  BY <1>2 DEF TypeOK, SleepStates
<1>3. CASE ~c.output /\ ~c.closed /\ Timeout(c) # "zero" /\ conn' = c
           /\ sleep' = (IF Timeout(c) = "later" THEN "armed" ELSE "none")
           /\ parked' = parked \cup {EvSend} /\ UNCHANGED <<opened, incoming>>
  BY <1>3 DEF TypeOK, SleepStates, Events
<1>. QED
  BY <1>1, <1>2, <1>3 DEF SendIteration

LEMMA SendType == TypeOK /\ Send => TypeOK'
<1> SUFFICES ASSUME TypeOK, Send PROVE TypeOK'
  OBVIOUS
<1>1. CASE conn.closed
  BY <1>1 DEF Send, TypeOK, SleepStates
<1>2. CASE ~conn.closed
  <2>1. PICK c1 \in (IF sleep = "fired" THEN OnTimeoutResults(conn) ELSE {conn}) :
               \/ SendIteration(c1)
               \/ /\ ~c1.output /\ ~c1.closed /\ Timeout(c1) = "zero"
                  /\ \E c2 \in OnTimeoutResults(c1) : SendIteration(c2)
    BY <1>2 DEF Send
  <2>2. c1 \in EngineStates
    BY OnTimeoutType DEF TypeOK
  <2>3. UNCHANGED <<seed, owned, accepted>>
    BY DEF Send
  <2>4. CASE SendIteration(c1)
    BY <2>2, <2>3, <2>4, SendIterationType
  <2>5. CASE \E c2 \in OnTimeoutResults(c1) : SendIteration(c2)
    <3>1. PICK c2 \in OnTimeoutResults(c1) : SendIteration(c2)
      BY <2>5
    <3>. QED
      BY <2>2, <2>3, <3>1, OnTimeoutType, SendIterationType
  <2>. QED
    BY <2>1, <2>4, <2>5
<1>. QED
  BY <1>1, <1>2

LEMMA RecvType == TypeOK /\ Recv => TypeOK'
<1> SUFFICES ASSUME TypeOK, Recv PROVE TypeOK'
  OBVIOUS
<1>0. UNCHANGED <<seed, sleep, owned, accepted>>
  BY DEF Recv
<1>1. CASE conn.closed /\ parked' = {} /\ UNCHANGED <<conn, opened, incoming>>
  BY <1>0, <1>1 DEF TypeOK
<1>2. CASE ~conn.closed /\ \E c2 \in RecvOkResults(conn) :
             /\ conn' = c2
             /\ IF c2.closed
                  THEN parked' = {} /\ UNCHANGED <<opened, incoming>>
                  ELSE HandleStream(c2, {EvSend})
  <2>1. PICK c2 \in RecvOkResults(conn) :
             /\ conn' = c2
             /\ IF c2.closed
                  THEN parked' = {} /\ UNCHANGED <<opened, incoming>>
                  ELSE HandleStream(c2, {EvSend})
    BY <1>2
  <2>2. c2 \in EngineStates
    BY RecvOkType DEF TypeOK
  <2>3. CASE c2.closed
    BY <1>0, <2>1, <2>2, <2>3 DEF TypeOK
  <2>4. CASE ~c2.closed
    BY <1>0, <2>1, <2>2, <2>4, HandleStreamType DEF TypeOK
  <2>. QED
    BY <2>3, <2>4
<1>3. CASE ~conn.closed /\ parked' = parked \cup {EvRecv} /\ UNCHANGED <<conn, opened, incoming>>
  BY <1>0, <1>3 DEF TypeOK, Events
<1>4. CASE /\ ~conn.closed /\ ~conn.draining
           /\ \E c2 \in RecvErrResults(conn) :
                /\ conn' = c2
                /\ parked' = IF c2.closed THEN {} ELSE parked
           /\ UNCHANGED <<opened, incoming>>
  BY <1>0, <1>4, RecvErrType DEF TypeOK
<1>. QED
  BY <1>1, <1>2, <1>3, <1>4 DEF Recv

LEMMA StreamSendType ==
  ASSUME NEW s \in Streams, NEW fin \in BOOLEAN
  PROVE  TypeOK /\ StreamSend(s, fin) => TypeOK'
<1> SUFFICES ASSUME TypeOK, StreamSend(s, fin) PROVE TypeOK'
  OBVIOUS
<1>0. UNCHANGED <<incoming, seed, sleep, owned, accepted>>
  BY DEF StreamSend
<1>1. CASE conn.closed
  BY <1>0, <1>1 DEF StreamSend, TypeOK
<1>2. CASE ~conn.closed /\ s \notin conn.collected \cup conn.localFin
           /\ (s \in conn.writable \/ s \in LocalStreams \ conn.alive)
  <2>1. PICK room \in BOOLEAN :
          conn' = [conn EXCEPT
                     !.alive = @ \cup {s},
                     !.writable = IF room /\ ~fin THEN @ \cup {s} ELSE @ \ {s},
                     !.localFin = IF fin THEN @ \cup {s} ELSE @,
                     !.output = @ \/ ~conn.draining]
    BY <1>2 DEF StreamSend
  <2>2. conn' \in EngineStates
    BY <2>1 DEF TypeOK, EngineStates
  <2>3. opened' \in SUBSET Streams /\ parked' \in SUBSET Events
    BY <1>2 DEF StreamSend, TypeOK
  <2>. QED
    BY <1>0, <2>2, <2>3 DEF TypeOK
<1>3. CASE ~conn.closed /\ ~(s \notin conn.collected \cup conn.localFin
                              /\ (s \in conn.writable \/ s \in LocalStreams \ conn.alive))
  BY <1>0, <1>3 DEF StreamSend, TypeOK, Events
<1>. QED
  BY <1>1, <1>2, <1>3

LEMMA StreamRecvType ==
  ASSUME NEW s \in Streams
  PROVE  TypeOK /\ StreamRecv(s) => TypeOK'
<1> SUFFICES ASSUME TypeOK, StreamRecv(s) PROVE TypeOK'
  OBVIOUS
<1>0. UNCHANGED <<opened, incoming, seed, sleep, owned, accepted>>
  BY DEF StreamRecv
<1>. DEFINE Read(more, update) ==
        LET done == ~more /\ s \in conn.peerFin /\ s \in conn.localFin
        IN  [conn EXCEPT
               !.readable = IF more THEN @ ELSE @ \ {s},
               !.alive = IF done THEN @ \ {s} ELSE @,
               !.writable = IF done THEN @ \ {s} ELSE @,
               !.collected = IF done THEN @ \cup {s} ELSE @,
               !.output = @ \/ (update /\ ~conn.draining)]
<1>1. conn' = conn \/ \E more, update \in BOOLEAN : conn' = Read(more, update)
  BY DEF StreamRecv
<1>2. \A more, update \in BOOLEAN : Read(more, update) \in EngineStates
  <2> SUFFICES ASSUME NEW more \in BOOLEAN, NEW update \in BOOLEAN
               PROVE  Read(more, update) \in EngineStates
    OBVIOUS
  <2>1. conn \in EngineStates
    BY DEF TypeOK
  <2>2. /\ (IF more THEN conn.readable ELSE conn.readable \ {s}) \in SUBSET Streams
        /\ (IF ~more /\ s \in conn.peerFin /\ s \in conn.localFin
              THEN conn.alive \ {s} ELSE conn.alive) \in SUBSET Streams
        /\ (IF ~more /\ s \in conn.peerFin /\ s \in conn.localFin
              THEN conn.writable \ {s} ELSE conn.writable) \in SUBSET Streams
        /\ (IF ~more /\ s \in conn.peerFin /\ s \in conn.localFin
              THEN conn.collected \cup {s} ELSE conn.collected) \in SUBSET Streams
        /\ (conn.output \/ (update /\ ~conn.draining)) \in BOOLEAN
    BY <2>1 DEF EngineStates
  <2>. QED
    BY <2>1, <2>2 DEF EngineStates
<1>3. conn' \in EngineStates
  BY <1>1, <1>2 DEF TypeOK
<1>4. parked' \in SUBSET Events
  BY DEF StreamRecv, TypeOK, Events
<1>. QED
  BY <1>0, <1>3, <1>4 DEF TypeOK

(* The seed stays on the lattice of ids open_stream hands out.            *)
SeedOK == \E k \in 0 .. MaxOpen : seed = StreamIdSeed + 4 * k

IInv == TypeOK /\ SeedOK

LEMMA OpenStreamType == IInv /\ OpenStream => IInv'
<1> SUFFICES ASSUME TypeOK, SeedOK, OpenStream PROVE IInv'
  BY DEF IInv
<1>1. PICK k \in 0 .. MaxOpen : seed = StreamIdSeed + 4 * k
  BY DEF SeedOK
<1>2. k < MaxOpen
  BY <1>1, ConstAssumption DEF OpenStream
<1>3. seed \in LocalStreams /\ seed' \in Nat
  BY <1>1, <1>2, ConstAssumption DEF LocalStreams, OpenStream
<1>4. SeedOK'
  BY <1>1, <1>2, ConstAssumption DEF OpenStream, SeedOK
<1>5. TypeOK'
  BY <1>3 DEF OpenStream, TypeOK, Events, Streams
<1>. QED
  BY <1>4, <1>5 DEF IInv

LEMMA AcceptType == TypeOK /\ Accept => TypeOK'
<1> SUFFICES ASSUME TypeOK, Accept PROVE TypeOK'
  OBVIOUS
<1>1. CASE incoming # <<>> /\ ~conn.closed
  <2>1. Head(incoming) \in Streams /\ Tail(incoming) \in Seq(Streams)
    BY <1>1, HeadTailProperties DEF TypeOK
  <2>. QED
    BY <1>1, <2>1 DEF Accept, TypeOK
<1>2. CASE incoming = <<>> \/ conn.closed
  BY <1>2 DEF Accept, TypeOK, Events
<1>. QED
  BY <1>1, <1>2

LEMMA CloseType == TypeOK /\ Close => TypeOK'
BY DEF Close, TypeOK, EngineStates

LEMMA ExpireType == TypeOK /\ Expire => TypeOK'
BY DEF Expire, TypeOK, EngineStates

LEMMA SleepFireType == TypeOK /\ SleepFire => TypeOK'
BY DEF SleepFire, TypeOK, SleepStates

-----------------------------------------------------------------------------
(* IInv holds initially and is kept by every step.                         *)
LEMMA InitIInv == Init => IInv
<1> SUFFICES ASSUME Init PROVE IInv
  OBVIOUS
<1>1. TypeOK
  BY ConstAssumption DEF Init, TypeOK, EngineInit, EngineStates, SleepStates
<1>2. SeedOK
  BY ConstAssumption DEF Init, SeedOK
<1>. QED
  BY <1>1, <1>2 DEF IInv

LEMMA NextIInv == IInv /\ [Next]_vars => IInv'
<1> SUFFICES ASSUME IInv, [Next]_vars PROVE IInv'
  OBVIOUS
<1>1. CASE OpenStream
  BY <1>1, OpenStreamType
<1>2. CASE ~OpenStream
  <2>1. SeedOK'
    <3>1. seed' = seed
      BY <1>2 DEF Next, vars, Send, Recv, StreamSend, StreamRecv, Accept, Close,
                  Expire, SleepFire
    <3>. QED
      BY <3>1 DEF IInv, SeedOK
  <2>2. TypeOK'
    <3> USE DEF IInv
    <3>1. CASE Send
      BY <3>1, SendType
    <3>2. CASE Recv
      BY <3>2, RecvType
    <3>3. CASE \E s \in Streams, fin \in BOOLEAN : StreamSend(s, fin)
      BY <3>3, StreamSendType
    <3>4. CASE \E s \in Streams : StreamRecv(s)
      BY <3>4, StreamRecvType
    <3>5. CASE Accept
      BY <3>5, AcceptType
    <3>6. CASE Close
      BY <3>6, CloseType
    <3>7. CASE Expire
      BY <3>7, ExpireType
    <3>8. CASE SleepFire
      BY <3>8, SleepFireType
    <3>9. CASE UNCHANGED vars
      BY <3>9 DEF vars, TypeOK
    <3>. QED
      BY <1>2, <3>1, <3>2, <3>3, <3>4, <3>5, <3>6, <3>7, <3>8, <3>9 DEF Next
  <2>. QED
    BY <2>1, <2>2 DEF IInv
<1>. QED
  BY <1>1, <1>2

(* Type correctness: every reachable state of the connection model has the *)
(* types TypeOK states, for all values of the constants.                   *)
THEOREM TypeCorrect == Spec => []TypeOK
<1>1. Init => IInv
  BY InitIInv
<1>2. IInv /\ [Next]_vars => IInv'
  BY NextIInv
<1>3. IInv => TypeOK
  BY DEF IInv
<1>. QED
  BY <1>1, <1>2, <1>3, PTL DEF Spec

-----------------------------------------------------------------------------
(* A step that parks a task leaves the connection open: every step either  *)
(* parks nobody new or ends in a state that is not closed.                 *)
ParksOnlyWhenOpen == parked' \subseteq parked \/ ~conn'.closed

LEMMA HandleStreamUnparks ==
  ASSUME NEW c, NEW notified, HandleStream(c, notified)
  PROVE  parked' \subseteq parked
BY DEF HandleStream

LEMMA SendParks == Send => ParksOnlyWhenOpen
<1> SUFFICES ASSUME Send PROVE ParksOnlyWhenOpen
  OBVIOUS
<1>1. ASSUME NEW c, SendIteration(c) PROVE ParksOnlyWhenOpen
  BY <1>1, HandleStreamUnparks DEF SendIteration, ParksOnlyWhenOpen
<1>. QED
  BY <1>1 DEF Send, ParksOnlyWhenOpen

LEMMA RecvParks == Recv => ParksOnlyWhenOpen
BY HandleStreamUnparks DEF Recv, ParksOnlyWhenOpen

LEMMA StreamSendParks ==
  ASSUME NEW s, NEW fin
  PROVE  StreamSend(s, fin) => ParksOnlyWhenOpen
BY DEF StreamSend, ParksOnlyWhenOpen

LEMMA StreamRecvParks ==
  ASSUME NEW s
  PROVE  StreamRecv(s) => ParksOnlyWhenOpen
BY DEF StreamRecv, ParksOnlyWhenOpen

LEMMA OtherParks ==
  OpenStream \/ Accept \/ Close \/ Expire \/ SleepFire => ParksOnlyWhenOpen
BY DEF OpenStream, Accept, Close, Expire, SleepFire, ParksOnlyWhenOpen

(* No operation parks its task on a closed connection: every step of the   *)
(* specification that adds a task to the mediator's parked set ends with   *)
(* quiche's is_closed() false (the is_closed checks of every on_poll       *)
(* closure in conn_state.rs).                                              *)
THEOREM NoParkOnClosedThm == Spec => NoParkOnClosed
<1>1. [Next]_vars => [\A e \in Events : e \notin parked /\ e \in parked' => ~conn'.closed]_vars
  <2> SUFFICES ASSUME [Next]_vars
               PROVE  [\A e \in Events : e \notin parked /\ e \in parked' => ~conn'.closed]_vars
    OBVIOUS
  <2>1. CASE Next
    <3>1. ParksOnlyWhenOpen
      BY <2>1, SendParks, RecvParks, StreamSendParks, StreamRecvParks, OtherParks DEF Next
    <3>. QED
      BY <3>1 DEF ParksOnlyWhenOpen
  <2>2. CASE UNCHANGED vars
    BY <2>2
  <2>. QED
    BY <2>1, <2>2
<1>. QED
  BY <1>1, PTL DEF Spec, NoParkOnClosed

-----------------------------------------------------------------------------
(***************************************************************************)
(* No lost wakeup.  NoLostWakeup is not inductive on its own: a stream     *)
(* that stream_send parked on because quiche reports it collected could    *)
(* become writable again if quiche could revive collected streams.  The    *)
(* engine facts that rule this out are that writable() lists only live     *)
(* streams and that a collected stream is never live again.                *)
(***************************************************************************)
Consistent(c) == c.writable \subseteq c.alive /\ c.alive \cap c.collected = {}

EngineConsistent == Consistent(conn)

Healthy == ~conn.closed /\ ~conn.draining

AcceptOK == EvAccept \in parked => incoming = <<>>

StreamRecvOK == \A s \in Streams : EvStreamRecv(s) \in parked => s \notin conn.readable

StreamSendOK == \A s \in Streams : EvStreamSend(s) \in parked => s \notin conn.writable

SendLoopOK == EvSend \in parked => ~conn.output /\ (HasTimer(conn) => sleep = "armed")

Wakeups == AcceptOK /\ StreamRecvOK /\ StreamSendOK /\ SendLoopOK

LEMMA NoLostWakeupDef == NoLostWakeup <=> (Healthy => Wakeups)
BY DEF NoLostWakeup, Healthy, Wakeups, AcceptOK, StreamRecvOK, StreamSendOK, SendLoopOK

WInv == IInv /\ EngineConsistent /\ NoLostWakeup

(* The mediator's event keys are pairwise distinct.                        *)
LEMMA EventsDistinct ==
  /\ EvSend # EvRecv /\ EvSend # EvAccept /\ EvRecv # EvAccept
  /\ EvOpenStream \notin {EvSend, EvRecv, EvAccept}
  /\ \A s : EvStreamSend(s) \notin {EvSend, EvRecv, EvAccept, EvOpenStream}
  /\ \A s : EvStreamRecv(s) \notin {EvSend, EvRecv, EvAccept, EvOpenStream}
  /\ \A s, t : EvStreamSend(s) # EvStreamRecv(t)
  /\ \A s, t : EvStreamSend(s) = EvStreamSend(t) => s = t
  /\ \A s, t : EvStreamRecv(s) = EvStreamRecv(t) => s = t
BY DEF EvSend, EvRecv, EvAccept, EvOpenStream, EvStreamSend, EvStreamRecv

(* The only enumeration of the empty set is the empty sequence.            *)
LEMMA OrderingsEmpty == \A f \in Orderings({}) : f = <<>>
<1> SUFFICES ASSUME NEW f \in Orderings({}) PROVE f = <<>>
  OBVIOUS
<1>1. Cardinality({}) = 0
  BY FS_EmptySet
<1>2. f \in [1 .. 0 -> {}]
  BY <1>1 DEF Orderings
<1>3. f \in Seq({}) /\ Len(f) = 0
  BY <1>2
<1>. QED
  BY <1>3, EmptySeq

(***************************************************************************)
(* handle_stream notifies every event whose poll it makes ready: a parked  *)
(* accept sees no new stream, and no stream it reports readable (writable) *)
(* keeps a stream_recv (stream_send) task parked.                          *)
(***************************************************************************)
LEMMA HandleStreamWakes ==
  ASSUME TypeOK, AcceptOK, NEW c, NEW notified, HandleStream(c, notified),
         conn' = c, EvSend \in notified \/ EvSend \notin parked
  PROVE  Wakeups'
<1>1. AcceptOK'
  <2> SUFFICES ASSUME EvAccept \in parked' PROVE incoming' = <<>>
    BY DEF AcceptOK
  <2>1. EvAccept \in parked /\ EvAccept \notin StreamNotified(c)
    BY DEF HandleStream
  <2>2. NewReadable(c) = {} /\ NewWritable(c) = {}
    BY <2>1 DEF StreamNotified
  <2>3. incoming' = incoming \o <<>> \o <<>>
    BY <2>2, OrderingsEmpty DEF HandleStream
  <2>4. incoming = <<>>
    BY <2>1 DEF AcceptOK
  <2>. QED
    BY <2>3, <2>4, ConcatEmptySeq, EmptySeq
<1>2. StreamRecvOK'
  BY EventsDistinct DEF HandleStream, StreamNotified, StreamRecvOK
<1>3. StreamSendOK'
  BY EventsDistinct DEF HandleStream, StreamNotified, StreamSendOK
<1>4. SendLoopOK'
  BY DEF HandleStream, SendLoopOK
<1>. QED
  BY <1>1, <1>2, <1>3, <1>4 DEF Wakeups

(* A step that parks at most the send or recv loop, and neither makes a    *)
(* stream readable or writable nor changes incoming_streams, keeps the     *)
(* parts of NoLostWakeup about accept and the stream tasks.                *)
LEMMA StreamPartsKept ==
  ASSUME AcceptOK, StreamRecvOK, StreamSendOK,
         conn'.readable \subseteq conn.readable, conn'.writable \subseteq conn.writable,
         parked' \subseteq parked \cup {EvSend, EvRecv}, incoming' = incoming
  PROVE  AcceptOK' /\ StreamRecvOK' /\ StreamSendOK'
BY EventsDistinct DEF AcceptOK, StreamRecvOK, StreamSendOK

(***************************************************************************)
(* What the engine's calls preserve: consistency, and closing or draining  *)
(* once begun is never undone.                                             *)
(***************************************************************************)
LEMMA PacketEffectKeeps ==
  ASSUME NEW c \in EngineStates, Consistent(c), NEW p \in Packets(c)
  PROVE  LET c1 == PacketEffect(c, p)
         IN  /\ Consistent(c1)
             /\ c.closed => c1.closed
             /\ c.draining => c1.draining
<1>. DEFINE Fresh == (c.alive \cup PeerStreams) \ (c.collected \cup c.peerFin)
<1>1. ASSUME NEW s \in Fresh
      PROVE  /\ Consistent(StreamFrame(c, s))
             /\ Consistent([StreamFrame(c, s) EXCEPT !.peerFin = @ \cup {s}])
  BY DEF Consistent, StreamFrame, EngineStates
<1>2. ASSUME NEW s \in Fresh
      PROVE  /\ PacketEffect(c, <<"data", s>>) = StreamFrame(c, s)
             /\ PacketEffect(c, <<"fin", s>>) = [StreamFrame(c, s) EXCEPT !.peerFin = @ \cup {s}]
  BY DEF PacketEffect
<1>3. ASSUME NEW p1 \in {<<"credit", 0>>, <<"ack", 0>>, <<"close", 0>>, <<"reset", 0>>}
      PROVE  LET c1 == PacketEffect(c, p1)
             IN  Consistent(c1) /\ (c.closed => c1.closed) /\ (c.draining => c1.draining)
  BY DEF PacketEffect, Consistent, EngineStates
<1>4. ASSUME NEW s \in Fresh
      PROVE  LET c1 == StreamFrame(c, s)
             IN  /\ c1.closed = c.closed /\ c1.draining = c.draining
                 /\ [c1 EXCEPT !.peerFin = @ \cup {s}].closed = c.closed
                 /\ [c1 EXCEPT !.peerFin = @ \cup {s}].draining = c.draining
  BY DEF StreamFrame, EngineStates
<1>5. CASE \E s \in Fresh : p = <<"data", s>>
  <2>1. PICK s \in Fresh : p = <<"data", s>>
    BY <1>5
  <2>. QED
    BY <2>1, <1>1, <1>2, <1>4
<1>6. CASE \E s \in Fresh : p = <<"fin", s>>
  <2>1. PICK s \in Fresh : p = <<"fin", s>>
    BY <1>6
  <2>. QED
    BY <2>1, <1>1, <1>2, <1>4
<1>7. CASE p \in {<<"credit", 0>>, <<"ack", 0>>, <<"close", 0>>, <<"reset", 0>>}
  BY <1>7, <1>3
<1>. QED
  BY <1>5, <1>6, <1>7 DEF Packets

LEMMA OnTimeoutKeeps ==
  ASSUME NEW c \in EngineStates, Consistent(c), NEW c1 \in OnTimeoutResults(c)
  PROVE  /\ Consistent(c1)
         /\ c1.readable = c.readable /\ c1.writable = c.writable
         /\ c1.draining = c.draining /\ (c.closed => c1.closed)
BY DEF OnTimeoutResults, Consistent, EngineStates

LEMMA SendOkKeeps ==
  ASSUME NEW c \in EngineStates, Consistent(c), NEW c1 \in SendOkResults(c)
  PROVE  /\ Consistent(c1)
         /\ c1.readable = c.readable /\ c1.writable = c.writable
         /\ c1.draining = c.draining /\ c1.closed = c.closed
BY DEF SendOkResults, Consistent, EngineStates

LEMMA RecvOkKeeps ==
  ASSUME NEW c \in EngineStates, Consistent(c), NEW c2 \in RecvOkResults(c)
  PROVE  /\ Consistent(c2)
         /\ c.closed => c2.closed
         /\ c.draining => c2.draining
<1>1. ASSUME NEW c1 \in EngineStates, NEW ack \in BOOLEAN
      PROVE  /\ Consistent(RecvUpd(c1, ack)) = Consistent(c1)
             /\ RecvUpd(c1, ack).closed = c1.closed /\ RecvUpd(c1, ack).draining = c1.draining
  BY DEF RecvUpd, Consistent, EngineStates
<1>2. CASE c.draining
  BY <1>2 DEF RecvOkResults
<1>3. CASE ~c.draining
  <2>1. RecvOkResults(c) = {RecvUpd(PacketEffect(c, p), ack) : p \in Packets(c), ack \in BOOLEAN}
    BY <1>3, RecvOkForm
  <2>2. PICK p \in Packets(c), ack \in BOOLEAN : c2 = RecvUpd(PacketEffect(c, p), ack)
    BY <2>1
  <2>3. PacketEffect(c, p) \in EngineStates
    BY PacketEffectType
  <2>. QED
    BY <1>1, <2>2, <2>3, PacketEffectKeeps
<1>. QED
  BY <1>2, <1>3

LEMMA RecvErrKeeps ==
  ASSUME NEW c \in EngineStates, Consistent(c), NEW c2 \in RecvErrResults(c)
  PROVE  Consistent(c2) /\ c2.draining
<1>1. ASSUME NEW c1 \in EngineStates, Consistent(c1)
      PROVE  LET c3 == [c1 EXCEPT !.draining = TRUE, !.output = TRUE]
             IN  Consistent(c3) /\ c3.draining
  BY <1>1 DEF Consistent, EngineStates
<1>2. \A p \in Packets(c) : PacketEffect(c, p) \in EngineStates /\ Consistent(PacketEffect(c, p))
  BY PacketEffectType, PacketEffectKeeps
<1>. QED
  BY <1>1, <1>2 DEF RecvErrResults

LEMMA NoLostWakeupDefPrime == NoLostWakeup' <=> (Healthy' => Wakeups')
BY DEF NoLostWakeup, Healthy, Wakeups, AcceptOK, StreamRecvOK, StreamSendOK, SendLoopOK

-----------------------------------------------------------------------------
(* One lemma per action: it keeps EngineConsistent and NoLostWakeup.       *)

(* One iteration of the send loop, on an engine state c that on_timeout    *)
(* may have produced from conn.                                            *)
LEMMA SendIterationWakes ==
  ASSUME TypeOK, NoLostWakeup, ~conn.closed, EvSend \notin parked,
         NEW c \in EngineStates, Consistent(c),
         c.readable = conn.readable, c.writable = conn.writable,
         c.draining = conn.draining,
         SendIteration(c)
  PROVE  Consistent(conn') /\ NoLostWakeup'
<1>1. CASE c.output /\ \E c2 \in SendOkResults(c) : conn' = c2 /\ HandleStream(c2, {})
  <2>1. PICK c2 \in SendOkResults(c) : conn' = c2 /\ HandleStream(c2, {})
    BY <1>1
  <2>2. Consistent(c2) /\ c2.draining = c.draining /\ c2.closed = c.closed
    BY SendOkKeeps
  <2>3. ASSUME Healthy' PROVE Wakeups'
    <3>1. Healthy
      BY <2>1, <2>2, <2>3 DEF Healthy
    <3>2. AcceptOK
      BY <3>1, NoLostWakeupDef DEF Wakeups
    <3>. QED
      BY <2>1, <3>2, HandleStreamWakes
  <2>. QED
    BY <2>1, <2>2, <2>3, NoLostWakeupDefPrime
<1>2. CASE ~c.output /\ c.closed /\ conn' = c
  BY <1>2 DEF NoLostWakeup
<1>3. CASE /\ ~c.output /\ ~c.closed /\ Timeout(c) # "zero" /\ conn' = c
           /\ sleep' = (IF Timeout(c) = "later" THEN "armed" ELSE "none")
           /\ parked' = parked \cup {EvSend} /\ UNCHANGED <<opened, incoming>>
  <2>1. ASSUME Healthy' PROVE Wakeups'
    <3>1. Wakeups
      BY <1>3, <2>1, NoLostWakeupDef DEF Healthy
    <3>2. AcceptOK' /\ StreamRecvOK' /\ StreamSendOK'
      BY <1>3, <3>1, StreamPartsKept DEF Wakeups
    <3>3. SendLoopOK'
      BY <1>3 DEF SendLoopOK, Timeout
    <3>. QED
      BY <3>2, <3>3 DEF Wakeups
  <2>. QED
    BY <1>3, <2>1, NoLostWakeupDefPrime
<1>. QED
  BY <1>1, <1>2, <1>3 DEF SendIteration

LEMMA SendWakes ==
  ASSUME TypeOK, EngineConsistent, NoLostWakeup, Send
  PROVE  EngineConsistent' /\ NoLostWakeup'
<1>1. CASE conn.closed
  BY <1>1 DEF Send, EngineConsistent, NoLostWakeup
<1>2. CASE ~conn.closed
  <2>. DEFINE Same(c) == /\ c \in EngineStates /\ Consistent(c)
                         /\ c.readable = conn.readable /\ c.writable = conn.writable
                         /\ c.draining = conn.draining
  <2>1. PICK c1 \in (IF sleep = "fired" THEN OnTimeoutResults(conn) ELSE {conn}) :
               \/ SendIteration(c1)
               \/ /\ ~c1.output /\ ~c1.closed /\ Timeout(c1) = "zero"
                  /\ \E c2 \in OnTimeoutResults(c1) : SendIteration(c2)
    BY <1>2 DEF Send
  <2>2. Same(c1)
    BY OnTimeoutType, OnTimeoutKeeps DEF TypeOK, EngineConsistent
  <2>3. EvSend \notin parked
    BY DEF Send
  <2>4. CASE SendIteration(c1)
    BY <1>2, <2>2, <2>3, <2>4, SendIterationWakes DEF EngineConsistent
  <2>5. CASE \E c2 \in OnTimeoutResults(c1) : SendIteration(c2)
    <3>1. PICK c2 \in OnTimeoutResults(c1) : SendIteration(c2)
      BY <2>5
    <3>2. Same(c2)
      BY <2>2, OnTimeoutType, OnTimeoutKeeps
    <3>. QED
      BY <1>2, <2>3, <3>1, <3>2, SendIterationWakes DEF EngineConsistent
  <2>. QED
    BY <2>1, <2>4, <2>5
<1>. QED
  BY <1>1, <1>2

LEMMA RecvWakes ==
  ASSUME TypeOK, EngineConsistent, NoLostWakeup, Recv
  PROVE  EngineConsistent' /\ NoLostWakeup'
<1>0. UNCHANGED <<sleep>> /\ EvRecv \notin parked
  BY DEF Recv
<1>1. CASE conn.closed /\ parked' = {} /\ UNCHANGED <<conn, opened, incoming>>
  BY <1>1 DEF EngineConsistent, NoLostWakeup
<1>2. CASE /\ ~conn.closed
           /\ \E c2 \in RecvOkResults(conn) :
                /\ conn' = c2
                /\ IF c2.closed
                     THEN parked' = {} /\ UNCHANGED <<opened, incoming>>
                     ELSE HandleStream(c2, {EvSend})
  <2>1. PICK c2 \in RecvOkResults(conn) :
             /\ conn' = c2
             /\ IF c2.closed
                  THEN parked' = {} /\ UNCHANGED <<opened, incoming>>
                  ELSE HandleStream(c2, {EvSend})
    BY <1>2
  <2>2. Consistent(c2) /\ (conn.closed => c2.closed) /\ (conn.draining => c2.draining)
    BY RecvOkKeeps DEF TypeOK, EngineConsistent
  <2>3. CASE c2.closed
    BY <2>1, <2>2, <2>3 DEF EngineConsistent, NoLostWakeup
  <2>4. CASE ~c2.closed
    <3>1. ASSUME Healthy' PROVE Wakeups'
      <4>1. AcceptOK
        BY <2>1, <2>2, <3>1, NoLostWakeupDef DEF Healthy, Wakeups
      <4>. QED
        BY <2>1, <2>4, <4>1, HandleStreamWakes
    <3>. QED
      BY <2>1, <2>2, <3>1, NoLostWakeupDefPrime DEF EngineConsistent
  <2>. QED
    BY <2>3, <2>4
<1>3. CASE ~conn.closed /\ parked' = parked \cup {EvRecv} /\ UNCHANGED <<conn, opened, incoming>>
  <2>1. ASSUME Healthy' PROVE Wakeups'
    <3>1. Wakeups
      BY <1>3, <2>1, NoLostWakeupDef DEF Healthy
    <3>2. AcceptOK' /\ StreamRecvOK' /\ StreamSendOK'
      BY <1>3, <3>1, StreamPartsKept DEF Wakeups
    <3>3. SendLoopOK'
      BY <1>0, <1>3, <3>1, EventsDistinct DEF Wakeups, SendLoopOK
    <3>. QED
      BY <3>2, <3>3 DEF Wakeups
  <2>. QED
    BY <1>3, <2>1, NoLostWakeupDefPrime DEF EngineConsistent
<1>4. CASE /\ ~conn.closed /\ ~conn.draining
           /\ \E c2 \in RecvErrResults(conn) :
                /\ conn' = c2
                /\ parked' = IF c2.closed THEN {} ELSE parked
  <2>1. PICK c2 \in RecvErrResults(conn) : conn' = c2
    BY <1>4
  <2>2. Consistent(c2) /\ c2.draining
    BY RecvErrKeeps DEF TypeOK, EngineConsistent
  <2>. QED
    BY <2>1, <2>2 DEF EngineConsistent, NoLostWakeup
<1>. QED
  BY <1>1, <1>2, <1>3, <1>4 DEF Recv

(* A step that parks the caller's stream task under e, on a stream its     *)
(* poll is not ready for, with the engine and everything else unchanged.   *)
LEMMA ParkStreamTask ==
  ASSUME TypeOK, EngineConsistent, NoLostWakeup, NEW s \in Streams,
         NEW e \in {EvStreamSend(s), EvStreamRecv(s)},
         e = EvStreamSend(s) => s \notin conn.writable,
         e = EvStreamRecv(s) => s \notin conn.readable,
         parked' = parked \cup {e}, UNCHANGED <<conn, incoming, sleep>>
  PROVE  EngineConsistent' /\ NoLostWakeup'
<1>1. ASSUME Healthy' PROVE Wakeups'
  <2>1. Wakeups
    BY <1>1, NoLostWakeupDef DEF Healthy
  <2>. QED
    BY <2>1, EventsDistinct DEF Wakeups, AcceptOK, StreamRecvOK, StreamSendOK, SendLoopOK
<1>. QED
  BY <1>1, NoLostWakeupDefPrime DEF EngineConsistent

LEMMA StreamSendWakes ==
  ASSUME TypeOK, EngineConsistent, NoLostWakeup,
         NEW s \in Streams, NEW fin \in BOOLEAN, StreamSend(s, fin)
  PROVE  EngineConsistent' /\ NoLostWakeup'
<1>0. EvStreamSend(s) \notin parked /\ UNCHANGED <<incoming, sleep>>
  BY DEF StreamSend
<1>1. CASE conn.closed /\ UNCHANGED conn
  BY <1>1 DEF EngineConsistent, NoLostWakeup
<1>2. CASE /\ ~conn.closed
           /\ s \notin conn.collected \cup conn.localFin
           /\ \E room \in BOOLEAN :
                conn' = [conn EXCEPT
                           !.alive = @ \cup {s},
                           !.writable = IF room /\ ~fin THEN @ \cup {s} ELSE @ \ {s},
                           !.localFin = IF fin THEN @ \cup {s} ELSE @,
                           !.output = @ \/ ~conn.draining]
           /\ parked' = parked \ {EvSend}
  <2>1. /\ conn'.readable = conn.readable /\ conn'.collected = conn.collected
        /\ conn'.closed = conn.closed /\ conn'.draining = conn.draining
        /\ conn'.alive = conn.alive \cup {s}
        /\ conn'.writable \subseteq conn.writable \cup {s}
    BY <1>2 DEF TypeOK, EngineStates
  <2>2. EngineConsistent'
    BY <1>2, <2>1 DEF EngineConsistent, Consistent
  <2>3. ASSUME Healthy' PROVE Wakeups'
    <3>1. Wakeups
      BY <2>1, <2>3, NoLostWakeupDef DEF Healthy
    <3>2. AcceptOK' /\ StreamRecvOK' /\ SendLoopOK'
      BY <1>0, <1>2, <2>1, <3>1 DEF Wakeups, AcceptOK, StreamRecvOK, SendLoopOK
    <3>3. StreamSendOK'
      BY <1>0, <1>2, <2>1, <3>1 DEF Wakeups, StreamSendOK
    <3>. QED
      BY <3>2, <3>3 DEF Wakeups
  <2>. QED
    BY <2>2, <2>3, NoLostWakeupDefPrime
<1>3. CASE /\ ~conn.closed
           /\ \/ s \in conn.collected
              \/ s \in conn.alive \ (conn.writable \cup conn.localFin)
           /\ parked' = parked \cup {EvStreamSend(s)}
           /\ UNCHANGED conn
  <2>1. s \notin conn.writable
    BY <1>3 DEF EngineConsistent, Consistent
  <2>. QED
    BY <1>0, <1>3, <2>1, EventsDistinct, ParkStreamTask
<1>4. CASE ~conn.closed /\ UNCHANGED <<conn, parked>>
  BY <1>0, <1>4 DEF EngineConsistent, NoLostWakeup, Healthy, AcceptOK, StreamRecvOK,
                    StreamSendOK, SendLoopOK
<1>. QED
  BY <1>1, <1>2, <1>3, <1>4 DEF StreamSend

LEMMA StreamRecvWakes ==
  ASSUME TypeOK, EngineConsistent, NoLostWakeup, NEW s \in Streams, StreamRecv(s)
  PROVE  EngineConsistent' /\ NoLostWakeup'
<1>0. EvStreamRecv(s) \notin parked /\ UNCHANGED <<incoming, sleep>>
  BY DEF StreamRecv
<1>1. CASE conn.closed /\ UNCHANGED conn
  BY <1>1 DEF EngineConsistent, NoLostWakeup
<1>2. CASE /\ ~conn.closed
           /\ \E more, update \in BOOLEAN :
                LET done == ~more /\ s \in conn.peerFin /\ s \in conn.localFin
                IN conn' = [conn EXCEPT
                              !.readable = IF more THEN @ ELSE @ \ {s},
                              !.alive = IF done THEN @ \ {s} ELSE @,
                              !.writable = IF done THEN @ \ {s} ELSE @,
                              !.collected = IF done THEN @ \cup {s} ELSE @,
                              !.output = @ \/ (update /\ ~conn.draining)]
           /\ parked' = parked \ {EvRecv, EvSend}
  <2>1. PICK more, update \in BOOLEAN :
          LET done == ~more /\ s \in conn.peerFin /\ s \in conn.localFin
          IN conn' = [conn EXCEPT
                        !.readable = IF more THEN @ ELSE @ \ {s},
                        !.alive = IF done THEN @ \ {s} ELSE @,
                        !.writable = IF done THEN @ \ {s} ELSE @,
                        !.collected = IF done THEN @ \cup {s} ELSE @,
                        !.output = @ \/ (update /\ ~conn.draining)]
    BY <1>2
  <2>2. /\ conn'.readable \subseteq conn.readable /\ conn'.writable \subseteq conn.writable
        /\ conn'.closed = conn.closed /\ conn'.draining = conn.draining
        /\ Consistent(conn')
    BY <2>1 DEF TypeOK, EngineStates, EngineConsistent, Consistent
  <2>3. ASSUME Healthy' PROVE Wakeups'
    <3>1. Wakeups
      BY <2>2, <2>3, NoLostWakeupDef DEF Healthy
    <3>2. AcceptOK' /\ StreamRecvOK' /\ StreamSendOK'
      BY <1>0, <1>2, <2>2, <3>1, StreamPartsKept DEF Wakeups
    <3>3. SendLoopOK'
      BY <1>2 DEF SendLoopOK
    <3>. QED
      BY <3>2, <3>3 DEF Wakeups
  <2>. QED
    BY <2>2, <2>3, NoLostWakeupDefPrime DEF EngineConsistent
<1>3. CASE /\ ~conn.closed /\ s \in conn.alive \ conn.readable
           /\ parked' = parked \cup {EvStreamRecv(s)} /\ UNCHANGED conn
  BY <1>0, <1>3, EventsDistinct, ParkStreamTask
<1>4. CASE ~conn.closed /\ UNCHANGED <<conn, parked>>
  BY <1>0, <1>4 DEF EngineConsistent, NoLostWakeup, Healthy, AcceptOK, StreamRecvOK,
                    StreamSendOK, SendLoopOK
<1>. QED
  BY <1>1, <1>2, <1>3, <1>4 DEF StreamRecv

LEMMA OpenStreamWakes ==
  ASSUME TypeOK, EngineConsistent, NoLostWakeup, OpenStream
  PROVE  EngineConsistent' /\ NoLostWakeup'
<1>1. UNCHANGED <<conn, incoming, sleep>> /\ parked' \subseteq parked
  BY DEF OpenStream
<1>. QED
  BY <1>1 DEF EngineConsistent, NoLostWakeup, Healthy, AcceptOK, StreamRecvOK,
              StreamSendOK, SendLoopOK

LEMMA AcceptWakes ==
  ASSUME TypeOK, EngineConsistent, NoLostWakeup, Accept
  PROVE  EngineConsistent' /\ NoLostWakeup'
<1>0. UNCHANGED <<conn, sleep>> /\ EvAccept \notin parked
  BY DEF Accept
<1>1. EngineConsistent'
  BY <1>0 DEF EngineConsistent
<1>2. ASSUME Healthy' PROVE Wakeups'
  <2>1. Wakeups
    BY <1>0, <1>2, NoLostWakeupDef DEF Healthy
  <2>2. StreamRecvOK' /\ StreamSendOK' /\ SendLoopOK'
    BY <1>0, <2>1, EventsDistinct DEF Accept, Wakeups, StreamRecvOK, StreamSendOK, SendLoopOK
  <2>3. AcceptOK'
    BY <1>0 DEF Accept, AcceptOK
  <2>. QED
    BY <2>2, <2>3 DEF Wakeups
<1>. QED
  BY <1>1, <1>2, NoLostWakeupDefPrime

LEMMA CloseWakes ==
  ASSUME TypeOK, EngineConsistent, NoLostWakeup, Close
  PROVE  EngineConsistent' /\ NoLostWakeup'
BY DEF Close, TypeOK, EngineStates, EngineConsistent, Consistent, NoLostWakeup

LEMMA ExpireWakes ==
  ASSUME TypeOK, EngineConsistent, NoLostWakeup, Expire
  PROVE  EngineConsistent' /\ NoLostWakeup'
<1>1. /\ conn'.readable = conn.readable /\ conn'.writable = conn.writable
      /\ conn'.closed = conn.closed /\ conn'.draining = conn.draining
      /\ conn'.output = conn.output /\ HasTimer(conn') = HasTimer(conn)
      /\ Consistent(conn')
  BY DEF Expire, TypeOK, EngineStates, EngineConsistent, Consistent, HasTimer
<1>. QED
  BY <1>1 DEF Expire, EngineConsistent, NoLostWakeup

LEMMA SleepFireWakes ==
  ASSUME TypeOK, EngineConsistent, NoLostWakeup, SleepFire
  PROVE  EngineConsistent' /\ NoLostWakeup'
BY DEF SleepFire, EngineConsistent, NoLostWakeup

-----------------------------------------------------------------------------
LEMMA InitWInv == Init => WInv
<1> SUFFICES ASSUME Init PROVE WInv
  OBVIOUS
<1>1. EngineConsistent
  BY DEF Init, EngineInit, EngineConsistent, Consistent
<1>2. NoLostWakeup
  BY DEF Init, NoLostWakeup
<1>. QED
  BY <1>1, <1>2, InitIInv DEF WInv

LEMMA NextWInv == WInv /\ [Next]_vars => WInv'
<1> SUFFICES ASSUME WInv, [Next]_vars PROVE WInv'
  OBVIOUS
<1>1. IInv'
  BY NextIInv DEF WInv
<1>2. EngineConsistent' /\ NoLostWakeup'
  <2> USE DEF WInv, IInv
  <2>1. CASE Send
    BY <2>1, SendWakes
  <2>2. CASE Recv
    BY <2>2, RecvWakes
  <2>3. CASE \E s \in Streams, fin \in BOOLEAN : StreamSend(s, fin)
    BY <2>3, StreamSendWakes
  <2>4. CASE \E s \in Streams : StreamRecv(s)
    BY <2>4, StreamRecvWakes
  <2>5. CASE OpenStream
    BY <2>5, OpenStreamWakes
  <2>6. CASE Accept
    BY <2>6, AcceptWakes
  <2>7. CASE Close
    BY <2>7, CloseWakes
  <2>8. CASE Expire
    BY <2>8, ExpireWakes
  <2>9. CASE SleepFire
    BY <2>9, SleepFireWakes
  <2>10. CASE UNCHANGED vars
    BY <2>10 DEF vars, EngineConsistent, Consistent, NoLostWakeup, HasTimer
  <2>. QED
    BY <2>1, <2>2, <2>3, <2>4, <2>5, <2>6, <2>7, <2>8, <2>9, <2>10 DEF Next
<1>. QED
  BY <1>1, <1>2 DEF WInv

(* No lost wakeup, for every value of the constants: while the connection  *)
(* is neither closing nor closed, no task parked by an on_poll closure of  *)
(* conn_state.rs waits on a condition that already holds -- handle_stream  *)
(* and the notifies of stream_send and stream_recv wake every task whose   *)
(* poll they make ready, and the send loop never parks with a deadline but *)
(* no Sleep.                                                               *)
THEOREM NoLostWakeupThm == Spec => []NoLostWakeup
<1>1. Init => WInv
  BY InitWInv
<1>2. WInv /\ [Next]_vars => WInv'
  BY NextWInv
<1>3. WInv => NoLostWakeup
  BY DEF WInv
<1>. QED
  BY <1>1, <1>2, <1>3, PTL DEF Spec

=============================================================================

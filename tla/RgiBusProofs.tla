---------------------------- MODULE RgiBusProofs ----------------------------
(***************************************************************************)
(* Theorems about RgiBus, for any descriptors, capacity and bounds that    *)
(* BusAssumption allows: every variable has its type, what bus_shutdown    *)
(* frees stays free, the writer closes its own connection only, and the    *)
(* latest update reaches the Java side whatever breaks on the way.         *)
(***************************************************************************)
EXTENDS RgiBus, TLAPS

LEMMA BareType ==
  ASSUME NEW k \in {"hello", "begin", "end"}
  PROVE  Bare(k) \in Frame
BY BusAssumption DEF Bare, Frame

-----------------------------------------------------------------------------
(* What the calls on a descriptor make of the connections.                 *)

Links == fds \in [Fds -> Conns \cup {NoConn}] /\ conns \in [Conns -> Conn]

LEMMA ClosingType ==
  ASSUME Links, NEW d \in Fds, Closing(d)
  PROVE  Links'
<1>1. fds' \in [Fds -> Conns \cup {NoConn}]
  BY DEF Links, Closing
<1>2. CASE fds[d] = NoConn
  BY <1>1, <1>2 DEF Links, Closing
<1>3. CASE fds[d] # NoConn
  <2>1. fds[d] \in Conns
    BY <1>3 DEF Links
  <2>2. [conns[fds[d]] EXCEPT !.native = FALSE] \in Conn
    BY <2>1 DEF Links, Conn
  <2> QED BY <1>1, <1>3, <2>1, <2>2 DEF Links, Closing
<1> QED BY <1>2, <1>3

LEMMA AppendType ==
  ASSUME Links, NEW c \in Conns, NEW f \in Frame
  PROVE  [conns EXCEPT ![c].wire = Append(@, f)] \in [Conns -> Conn]
<1>1. conns[c] \in Conn
  BY DEF Links
<1>2. Append(conns[c].wire, f) \in Seq(Frame)
  BY <1>1 DEF Conn
<1>3. [conns[c] EXCEPT !.wire = Append(@, f)] \in Conn
  BY <1>1, <1>2 DEF Conn
<1> QED BY <1>3 DEF Links

LEMMA SentType ==
  ASSUME Links, NEW d \in Fds, NEW f \in Frame, FrameSent(d, f)
  PROVE  conns' \in [Conns -> Conn]
<1>1. fds[d] \in Conns
  BY DEF FrameSent, Links
<1> QED BY <1>1, AppendType DEF FrameSent, Links

LEMMA FailsType ==
  ASSUME Links, NEW d \in Fds, NEW f \in Frame, FrameFails(d, f)
  PROVE  conns' \in [Conns -> Conn]
<1>1. CASE UNCHANGED conns
  BY <1>1 DEF Links
<1>2. CASE /\ ~PeerClosed(d)
           /\ conns' = [conns EXCEPT ![fds[d]].wire =
                          Append(@, [f EXCEPT !.kind = "cut"])]
  <2>1. fds[d] \in Conns
    BY <1>2 DEF PeerClosed, Links
  <2>2. [f EXCEPT !.kind = "cut"] \in Frame
    BY DEF Frame
  <2> QED BY <1>2, <2>1, <2>2, AppendType
<1> QED BY <1>1, <1>2 DEF FrameFails

-----------------------------------------------------------------------------
(* What the threads hold in their local variables.                         *)

LEMMA SendingWriter ==
  ASSUME writer \in WriterType, writer.stage \in {"send", "failed"}
  PROVE  /\ writer.frame \in Frame /\ writer.fd \in Fds
         /\ writer \in [stage : {"send", "failed"}, frame : Frame, fd : Fds,
                        gen : Nat, conn : Conns \cup {NoConn}]
BY DEF WriterType

LEMMA WokenType ==
  ASSUME writer \in WriterType
  PROVE  Woken(writer) \in WriterType
BY DEF WriterType, Woken

LEMMA ConnectedConnector ==
  ASSUME connector \in ConnectorType,
         connector.stage \in {"hello", "snapshot", "replay", "link", "read"}
  PROVE  /\ connector.fd \in Fds /\ connector.todo \in Seq(Frame)
         /\ connector \in [stage : {"hello", "snapshot", "replay", "link",
                                    "read"}, fd : Fds, todo : Seq(Frame)]
BY DEF ConnectorType

LEMMA ReplayType ==
  ASSUME bus \in Bus
  PROVE  Replay(bus) \in Seq(Frame)
<1>1. Bare("begin") \in Frame /\ Bare("end") \in Frame
  BY BareType
<1>2. [kind |-> "replay", value |-> bus.last] \in Frame
  BY DEF Frame, Bus
<1> QED BY <1>1, <1>2 DEF Replay

-----------------------------------------------------------------------------
LEMMA InitType == Init => TypeOK
<1> SUFFICES ASSUME Init PROVE TypeOK
  OBVIOUS
<1>1. bus \in Bus /\ Len(bus.ring) <= Capacity
  BY BusAssumption DEF Init, Bus
<1>2. conns \in [Conns -> Conn]
  BY DEF Init, Conn, Unused
<1>3. writer \in WriterType /\ connector \in ConnectorType
  BY DEF Init, WriterType, ConnectorType
<1>4. java \in Java
  BY BusAssumption DEF Init, Java
<1>5. fds \in [Fds -> Conns \cup {NoConn}] /\ made \in Conns \cup {0}
  BY DEF Init
<1>6. heard \in 0..MaxSends /\ sends \in 0..MaxSends
      /\ stimuli \in 0..MaxStimuli
  BY BusAssumption DEF Init
<1> QED BY <1>1, <1>2, <1>3, <1>4, <1>5, <1>6 DEF Init, TypeOK

(* A send leaves a ring of frames within its capacity.                     *)
LEMMA SendType ==
  ASSUME TypeOK, BusSend
  PROVE  TypeOK'
<1> DEFINE v == sends + 1
           f == [kind |-> "live", value |-> v]
<1>1. v \in 0..MaxSends
  BY BusAssumption DEF TypeOK, BusSend
<1>2. f \in Frame
  BY <1>1 DEF TypeOK, Bus, Frame
<1>3. Cached(v) \in Bus
  BY <1>1 DEF TypeOK, Bus, Cached
<1>4. CASE Full
  <2>1. bus' = Cached(v) /\ bus'.ring = bus.ring
    BY <1>4 DEF BusSend, Cached, TypeOK, Bus
  <2> QED BY <1>1, <1>3, <1>4, <2>1 DEF BusSend, TypeOK
<1>5. CASE ~Full
  <2>1. bus' = [Cached(v) EXCEPT !.ring = Append(bus.ring, f)]
    BY <1>5 DEF BusSend, Enqueued, Cached, TypeOK, Bus
  <2>2. Append(bus.ring, f) \in Seq(Frame)
        /\ Len(Append(bus.ring, f)) = Len(bus.ring) + 1
    BY <1>2 DEF TypeOK, Bus
  <2>3. Len(bus.ring) + 1 <= Capacity
    BY <1>5, BusAssumption DEF TypeOK, Bus, Full
  <2>4. bus' \in Bus /\ Len(bus'.ring) <= Capacity
    BY <1>3, <2>1, <2>2, <2>3 DEF Bus
  <2>5. writer' \in WriterType
    BY <1>5, WokenType DEF BusSend, TypeOK
  <2>6. sends' \in 0..MaxSends /\ lost' \in BOOLEAN
    BY <1>1, <1>5 DEF BusSend, Full
  <2>7. UNCHANGED <<life, shutdown, connector, timer, fds, conns, java, heard,
                    made, stimuli>>
    BY DEF BusSend
  <2> HIDE DEF v
  <2> QED BY <2>4, <2>5, <2>6, <2>7 DEF TypeOK
<1> QED BY <1>4, <1>5

LEMMA WriterKeepsType ==
  ASSUME TypeOK, Writer
  PROVE  TypeOK'
<1>1. CASE WriterTakes
  <2>1. CASE writer' \in [stage : {"gone", "asleep"}] /\ UNCHANGED bus
    <3>1. writer' \in WriterType
      BY <2>1 DEF WriterType
    <3> QED BY <1>1, <2>1, <3>1 DEF WriterTakes, TypeOK
  <2>2. CASE /\ bus.ring # <<>> /\ bus.client_fd # NoFd
             /\ writer' = [stage |-> "send", frame |-> Head(bus.ring),
                           fd |-> bus.client_fd, gen |-> bus.client_gen,
                           conn |-> fds[bus.client_fd]]
             /\ bus' = [bus EXCEPT !.ring = Tail(@)]
    <3>1. Head(bus.ring) \in Frame /\ Tail(bus.ring) \in Seq(Frame)
          /\ Len(Tail(bus.ring)) = Len(bus.ring) - 1 /\ Len(bus.ring) \in Nat
      BY <2>2 DEF TypeOK, Bus
    <3>2. bus.client_fd \in Fds /\ fds[bus.client_fd] \in Conns \cup {NoConn}
          /\ bus.client_gen \in Nat
      BY <2>2 DEF TypeOK, Bus
    <3>3. writer' \in WriterType
      BY <2>2, <3>1, <3>2 DEF WriterType
    <3>4. bus' \in Bus /\ bus'.ring = Tail(bus.ring)
      BY <2>2, <3>1 DEF TypeOK, Bus
    <3>5. Len(bus'.ring) <= Capacity
      BY <3>1, <3>4, BusAssumption DEF TypeOK
    <3> QED BY <1>1, <3>3, <3>4, <3>5 DEF WriterTakes, TypeOK
  <2> QED BY <1>1, <2>1, <2>2 DEF WriterTakes
<1>2. CASE WriterSends
  <2>1. Links /\ writer.frame \in Frame /\ writer.fd \in Fds
    BY <1>2, SendingWriter DEF TypeOK, WriterSends, Links
  <2>2. conns' \in [Conns -> Conn]
    BY <1>2, <2>1, SentType, FailsType DEF WriterSends
  <2>3. writer' \in WriterType
    BY <1>2, SendingWriter DEF TypeOK, WriterSends, WriterType
  <2> QED BY <1>2, <2>2, <2>3 DEF WriterSends, TypeOK
<1>3. CASE WriterDrops
  <2>1. Links /\ writer.fd \in Fds
    BY <1>3, SendingWriter DEF TypeOK, WriterDrops, Links
  <2>2. Links'
    BY <1>3, <2>1, ClosingType DEF WriterDrops, Links
  <2>3. bus' \in Bus /\ bus'.ring = bus.ring
    BY <1>3 DEF WriterDrops, TypeOK, Bus
  <2>4. writer' \in WriterType
    BY <1>3 DEF WriterDrops, WriterType
  <2> QED BY <1>3, <2>2, <2>3, <2>4 DEF WriterDrops, TypeOK, Links
<1> QED BY <1>1, <1>2, <1>3 DEF Writer

LEMMA ConnectorKeepsType ==
  ASSUME TypeOK, Connector
  PROVE  TypeOK'
<1>1. ASSUME NEW d \in Fds, Connect(d) PROVE TypeOK'
  <2>1. Bare("hello") \in Frame
    BY BareType
  <2>2. Opened \in Conn
    BY DEF Opened, Conn
  <2>3. made + 1 \in Conns
    BY <1>1 DEF Connect
  <2>4. fds' \in [Fds -> Conns \cup {NoConn}] /\ conns' \in [Conns -> Conn]
    BY <1>1, <2>2, <2>3 DEF Connect, TypeOK
  <2>5. connector' \in ConnectorType
    BY <1>1, <2>1 DEF Connect, ConnectorType
  <2> QED BY <1>1, <2>3, <2>4, <2>5 DEF Connect, TypeOK
<1>2. CASE Hello
  <2>1. Links /\ connector.fd \in Fds /\ Head(connector.todo) \in Frame
    BY <1>2, ConnectedConnector DEF Hello, TypeOK, Links
  <2>2. CASE /\ FrameSent(connector.fd, Head(connector.todo))
             /\ connector' = [connector EXCEPT !.stage = "snapshot",
                                               !.todo = <<>>]
             /\ UNCHANGED fds
    <3>1. conns' \in [Conns -> Conn]
      BY <2>1, <2>2, SentType
    <3>2. connector' \in ConnectorType
      <4>1. connector \in [stage : {"hello", "snapshot", "replay", "link",
                                    "read"}, fd : Fds, todo : Seq(Frame)]
        BY <1>2, ConnectedConnector DEF Hello, TypeOK
      <4>2. <<>> \in Seq(Frame)
        OBVIOUS
      <4> QED BY <2>2, <4>1, <4>2 DEF ConnectorType
    <3> QED BY <1>2, <2>2, <3>1, <3>2 DEF Hello, TypeOK
  <2>3. CASE Closing(connector.fd) /\ connector' = [stage |-> "connect"]
    <3>1. Links'
      BY <2>1, <2>3, ClosingType
    <3>2. connector' \in ConnectorType
      BY <2>3 DEF ConnectorType
    <3> QED BY <1>2, <3>1, <3>2 DEF Hello, TypeOK, Links
  <2> QED BY <1>2, <2>2, <2>3 DEF Hello
<1>3. CASE Snapshot
  <2>1. Replay(bus) \in Seq(Frame)
    BY ReplayType DEF TypeOK
  <2>2. connector' \in ConnectorType
    BY <1>3, <2>1, ConnectedConnector DEF Snapshot, TypeOK, ConnectorType
  <2> QED BY <1>3, <2>2 DEF Snapshot, TypeOK
<1>4. CASE SendReplay
  <2>1. Links /\ connector.fd \in Fds /\ Head(connector.todo) \in Frame
        /\ Tail(connector.todo) \in Seq(Frame)
    BY <1>4, ConnectedConnector DEF SendReplay, TypeOK, Links
  <2>2. conns' \in [Conns -> Conn]
    BY <1>4, <2>1, SentType, FailsType DEF SendReplay
  <2>3. connector' \in ConnectorType
    BY <1>4, <2>1, ConnectedConnector DEF SendReplay, TypeOK, ConnectorType
  <2> QED BY <1>4, <2>2, <2>3 DEF SendReplay, TypeOK
<1>5. CASE Publish
  <2>1. connector.fd \in Fds /\ connector' \in ConnectorType
    BY <1>5, ConnectedConnector DEF Publish, TypeOK, ConnectorType
  <2>2. bus' \in Bus /\ bus'.ring = bus.ring
    <3>1. bus' = [bus EXCEPT !.client_fd = connector.fd,
                             !.client_gen = bus.client_gen + 1]
      BY <1>5 DEF Publish
    <3>2. bus \in Bus /\ bus.client_gen + 1 \in Nat
      BY DEF TypeOK, Bus
    <3> QED BY <2>1, <3>1, <3>2 DEF Bus
  <2>3. writer' \in WriterType
    BY <1>5, WokenType DEF Publish, TypeOK
  <2>4. Links /\ (bus.client_fd # NoFd => bus.client_fd \in Fds)
    BY DEF TypeOK, Links, Bus
  <2>5. Links'
    BY <1>5, <2>4, ClosingType DEF Publish, Links
  <2> QED BY <1>5, <2>1, <2>2, <2>3, <2>5 DEF Publish, TypeOK, Links
<1>6. CASE LinkCheck
  <2>1. connector' \in ConnectorType
    BY <1>6, ConnectedConnector DEF LinkCheck, TypeOK, ConnectorType
  <2> QED BY <1>6, <2>1 DEF LinkCheck, TypeOK
<1>7. CASE ReadFails
  <2>1. Links /\ connector.fd \in Fds
    BY <1>7, ConnectedConnector DEF ReadFails, TypeOK, Links
  <2>2. Links'
    BY <1>7, <2>1, ClosingType DEF ReadFails, Links
  <2>3. bus' \in Bus /\ bus'.ring = bus.ring
    BY <1>7 DEF ReadFails, TypeOK, Bus
  <2>4. connector' \in ConnectorType
    BY <1>7 DEF ReadFails, ConnectorType
  <2> QED BY <1>7, <2>2, <2>3, <2>4 DEF ReadFails, TypeOK, Links
<1>8. CASE ConnectorLeaves
  <2>1. connector' \in ConnectorType
    BY <1>8 DEF ConnectorLeaves, ConnectorType
  <2> QED BY <1>8, <2>1 DEF ConnectorLeaves, TypeOK
<1> QED BY <1>1, <1>2, <1>3, <1>4, <1>5, <1>6, <1>7, <1>8 DEF Connector

LEMMA TimerKeepsType ==
  ASSUME TypeOK, Timer
  PROVE  TypeOK'
<1>1. timer' \in {"gone", "sleep", "tick"}
      /\ UNCHANGED <<life, shutdown, bus, writer, connector, fds, conns, java,
                     heard, lost, made, sends, stimuli>>
  BY DEF Timer, TimerFires, TimerReturns, TimerLeaves
<1> QED BY <1>1 DEF TypeOK

LEMMA DropClientType ==
  ASSUME TypeOK, DropClient
  PROVE  Links' /\ bus' \in Bus /\ bus'.ring = bus.ring
<1>1. Links /\ (bus.client_fd # NoFd => bus.client_fd \in Fds)
  BY DEF TypeOK, Links, Bus
<1>2. Links'
  BY <1>1, ClosingType DEF DropClient, Links
<1>3. bus' \in Bus /\ bus'.ring = bus.ring
  BY DEF DropClient, TypeOK, Bus
<1> QED BY <1>2, <1>3

LEMMA StimulusType ==
  ASSUME TypeOK, Stimulus
  PROVE  stimuli' \in 0..MaxStimuli
BY BusAssumption DEF TypeOK, Stimulus

LEMMA LifecycleKeepsType ==
  ASSUME TypeOK, Lifecycle \/ BusShutdown
  PROVE  TypeOK'
<1>1. CASE BusInit
  <2>1. <<>> \in Seq(Frame) /\ Len(<<>>) <= Capacity
    BY BusAssumption
  <2>2. bus' \in Bus /\ bus'.ring = <<>>
    BY <1>1, <2>1 DEF BusInit, TypeOK, Bus
  <2>3. connector' \in ConnectorType
    BY <1>1 DEF BusInit, ConnectorType
  <2> QED BY <1>1, <2>1, <2>2, <2>3 DEF BusInit, TypeOK
<1>2. CASE CreateThreads
  <2>1. writer' \in WriterType
    BY <1>2 DEF CreateThreads, WriterType
  <2>2. timer' \in {"gone", "sleep", "tick"}
    BY <1>2 DEF CreateThreads
  <2> QED BY <1>2, <2>1, <2>2 DEF CreateThreads, TypeOK
<1>3. CASE WriterNotCreated
  <2>1. Links' /\ bus' \in Bus /\ bus'.ring = bus.ring
    BY <1>3, DropClientType DEF WriterNotCreated
  <2>2. stimuli' \in 0..MaxStimuli
    BY <1>3, StimulusType DEF WriterNotCreated
  <2> QED BY <1>3, <2>1, <2>2 DEF WriterNotCreated, TypeOK, Links
<1>4. CASE Unwound
  BY <1>4 DEF Unwound, TypeOK
<1>5. CASE BusShutdown
  BY <1>5 DEF BusShutdown, TypeOK
<1>6. CASE ShutdownWakes
  <2>1. Links' /\ bus' \in Bus /\ bus'.ring = bus.ring
    BY <1>6, DropClientType DEF ShutdownWakes
  <2>2. writer' \in WriterType
    BY <1>6, WokenType DEF ShutdownWakes, TypeOK
  <2> QED BY <1>6, <2>1, <2>2 DEF ShutdownWakes, TypeOK, Links
<1>7. CASE ShutdownFrees
  <2>1. <<>> \in Seq(Frame) /\ Len(<<>>) <= Capacity /\ 0 \in 0..MaxSends
    BY BusAssumption
  <2>2. bus' \in Bus /\ bus'.ring = <<>>
    BY <1>7, <2>1 DEF ShutdownFrees, TypeOK, Bus
  <2> QED BY <1>7, <2>1, <2>2 DEF ShutdownFrees, TypeOK
<1>8. CASE ShutdownDefers
  BY <1>8 DEF ShutdownDefers, TypeOK
<1> QED BY <1>1, <1>2, <1>3, <1>4, <1>5, <1>6, <1>7, <1>8 DEF Lifecycle

LEMMA JavaKeepsType ==
  ASSUME TypeOK, RouteStart \/ RouteStop \/ JavaDies \/ JavaIo
  PROVE  TypeOK'
<1>1. CASE RouteStart \/ RouteStop
  <2>1. java' \in Java
    BY <1>1 DEF RouteStart, RouteStop, TypeOK, Java
  <2>2. stimuli' \in 0..MaxStimuli
    BY <1>1, StimulusType DEF RouteStart, RouteStop
  <2> QED BY <1>1, <2>1, <2>2 DEF RouteStart, RouteStop, TypeOK
<1>2. CASE JavaDies
  <2>1. ASSUME NEW c \in Conns
        PROVE  [conns[c] EXCEPT !.wire = <<>>, !.peer = "closed"] \in Conn
    <3>1. conns[c] \in Conn /\ <<>> \in Seq(Frame)
      BY DEF TypeOK
    <3> QED BY <3>1 DEF Conn
  <2>2. conns' \in [Conns -> Conn]
    BY <1>2, <2>1 DEF JavaDies
  <2>3. java' \in Java /\ heard' \in 0..MaxSends
    <3>1. 0 \in 0..MaxSends
      BY BusAssumption
    <3> QED BY <1>2, <3>1 DEF JavaDies, Java
  <2>4. stimuli' \in 0..MaxStimuli
    BY <1>2, StimulusType DEF JavaDies
  <2> QED BY <1>2, <2>2, <2>3, <2>4 DEF JavaDies, TypeOK
<1>3. ASSUME NEW c \in Conns, JavaAccepts(c) PROVE TypeOK'
  <2>1. conns[c] \in Conn /\ [conns[c] EXCEPT !.peer = "open"] \in Conn
    BY DEF TypeOK, Conn
  <2>2. conns' \in [Conns -> Conn]
    BY <1>3, <2>1 DEF JavaAccepts, TypeOK
  <2>3. java' \in Java
    BY <1>3 DEF JavaAccepts, TypeOK, Java
  <2> QED BY <1>3, <2>2, <2>3 DEF JavaAccepts, TypeOK
<1>4. CASE JavaReads
  <2> DEFINE c == java.conn
             f == Head(conns[c].wire)
  <2>1. c \in Conns /\ conns[c].wire # <<>>
    BY <1>4 DEF JavaReads, TypeOK, Java
  <2>2. conns[c] \in Conn /\ conns[c].wire \in Seq(Frame)
    BY <2>1 DEF TypeOK, Conn
  <2>3. f \in Frame /\ Tail(conns[c].wire) \in Seq(Frame)
    BY <2>1, <2>2
  <2>4. [conns[c] EXCEPT !.wire = Tail(@)] \in Conn
    BY <2>2, <2>3 DEF Conn
  <2>5. conns' \in [Conns -> Conn]
    BY <1>4, <2>1, <2>4 DEF JavaReads, TypeOK
  <2>6. f.value \in 0..MaxSends
    BY <2>3 DEF Frame
  <2>7. java' \in Java /\ heard' \in 0..MaxSends
    BY <1>4, <2>6 DEF JavaReads, TypeOK, Java
  <2> QED BY <1>4, <2>5, <2>7 DEF JavaReads, TypeOK
<1>5. CASE JavaDrops
  <2> DEFINE c == java.conn
  <2>1. c \in Conns
    BY <1>5 DEF JavaDrops, TypeOK, Java
  <2>2. conns[c] \in Conn /\ <<>> \in Seq(Frame)
    BY <2>1 DEF TypeOK
  <2>3. [conns[c] EXCEPT !.wire = <<>>, !.peer = "closed"] \in Conn
    BY <2>2 DEF Conn
  <2>4. conns' = [conns EXCEPT ![c] =
                    [conns[c] EXCEPT !.wire = <<>>, !.peer = "closed"]]
    BY <1>5, <2>1, <2>2 DEF JavaDrops, TypeOK, Conn
  <2>5. conns' \in [Conns -> Conn]
    BY <2>3, <2>4 DEF TypeOK
  <2>6. java' \in Java
    BY <1>5 DEF JavaDrops, TypeOK, Java
  <2> QED BY <1>5, <2>5, <2>6 DEF JavaDrops, TypeOK
<1> QED BY <1>1, <1>2, <1>3, <1>4, <1>5 DEF JavaIo

(* Every variable of the bus keeps its type, and the ring its capacity.    *)
THEOREM TypeCorrect == Spec => []TypeOK
<1>1. Init => TypeOK
  BY InitType
<1>2. TypeOK /\ [Next]_vars => TypeOK'
  <2>1. ASSUME TypeOK, Next PROVE TypeOK'
    BY <2>1, SendType, WriterKeepsType, ConnectorKeepsType, TimerKeepsType,
       LifecycleKeepsType, JavaKeepsType DEF Next
  <2>2. TypeOK /\ UNCHANGED vars => TypeOK'
    BY DEF vars, TypeOK
  <2> QED BY <2>1, <2>2
<1> QED BY <1>1, <1>2, PTL DEF Spec

-----------------------------------------------------------------------------
(* What bus_shutdown frees: nobody is accepted once it has begun, and when *)
(* it frees, no thread is left that could come back.                       *)
FreedInv ==
  /\ life \in {"closing", "waiting", "freed", "deferred"} => shutdown
  /\ FreedStaysFree

LEMMA FreedStep ==
  ASSUME TypeOK, FreedInv, Next
  PROVE  FreedInv'
<1>1. CASE BusSend
  <2>1. life # "freed" /\ UNCHANGED <<life, shutdown>>
    BY <1>1 DEF BusSend, Accepting, FreedInv
  <2> QED BY <2>1 DEF FreedInv, FreedStaysFree
<1>2. CASE Writer
  <2>1. writer.stage # "gone" /\ UNCHANGED <<life, shutdown>>
    BY <1>2 DEF Writer, WriterTakes, WriterSends, WriterDrops
  <2> QED BY <2>1 DEF FreedInv, FreedStaysFree, ThreadsGone
<1>3. CASE Connector
  <2>1. connector.stage # "gone" /\ UNCHANGED <<life, shutdown>>
    BY <1>3 DEF Connector, Connect, Hello, Snapshot, SendReplay, Publish,
       LinkCheck, ReadFails, ConnectorLeaves
  <2> QED BY <2>1 DEF FreedInv, FreedStaysFree, ThreadsGone
<1>4. CASE Timer
  <2>1. timer # "gone" /\ UNCHANGED <<life, shutdown>>
    BY <1>4 DEF Timer, TimerFires, TimerReturns, TimerLeaves
  <2> QED BY <2>1 DEF FreedInv, FreedStaysFree, ThreadsGone
<1>5. CASE BusInit \/ CreateThreads \/ WriterNotCreated \/ Unwound
  BY <1>5 DEF BusInit, CreateThreads, WriterNotCreated, Unwound, FreedInv,
     FreedStaysFree
<1>6. CASE BusShutdown \/ ShutdownWakes \/ ShutdownDefers
  BY <1>6 DEF BusShutdown, ShutdownWakes, ShutdownDefers, FreedInv,
     FreedStaysFree
<1>7. CASE ShutdownFrees
  <2>1. bus'.ring = <<>> /\ bus'.last = 0
    BY <1>7 DEF ShutdownFrees, TypeOK, Bus
  <2>2. ThreadsGone' /\ shutdown'
    BY <1>7 DEF ShutdownFrees, ThreadsGone, FreedInv
  <2> QED BY <2>1, <2>2 DEF FreedInv, FreedStaysFree
<1>8. CASE RouteStart \/ RouteStop \/ JavaDies \/ JavaIo
  <2>1. UNCHANGED <<life, shutdown, bus, writer, connector, timer>>
    BY <1>8 DEF RouteStart, RouteStop, JavaDies, JavaIo, JavaAccepts,
       JavaReads, JavaDrops
  <2> QED BY <2>1 DEF FreedInv, FreedStaysFree, ThreadsGone
<1> QED BY <1>1, <1>2, <1>3, <1>4, <1>5, <1>6, <1>7, <1>8
        DEF Next, Lifecycle

(* Memory that bus_shutdown has freed is not written again, and it is only *)
(* freed when no thread is left, whoever still calls bus_send.             *)
THEOREM FreedStays == Spec => []FreedStaysFree
<1>1. Init => FreedInv
  BY DEF Init, FreedInv, FreedStaysFree
<1>2. TypeOK /\ FreedInv /\ [Next]_vars => FreedInv'
  <2>1. TypeOK /\ FreedInv /\ Next => FreedInv'
    BY FreedStep
  <2>2. FreedInv /\ UNCHANGED vars => FreedInv'
    BY DEF vars, FreedInv, FreedStaysFree, ThreadsGone
  <2> QED BY <2>1, <2>2
<1>3. FreedInv => FreedStaysFree
  BY DEF FreedInv
<1> QED BY <1>1, <1>2, <1>3, TypeCorrect, PTL DEF Spec
-----------------------------------------------------------------------------
(* Who owns a descriptor number: the published one is open, the connector  *)
(* works on another until it publishes it, and as long as the published    *)
(* number and generation are those the writer took, they stand for the     *)
(* connection the writer took them for.                                    *)
InHand == writer.stage \in {"send", "failed"}
Greeting == connector.stage \in {"hello", "snapshot", "replay"}

Owners ==
  /\ bus.client_fd # NoFd => fds[bus.client_fd] # NoConn
  /\ Greeting => /\ fds[connector.fd] # NoConn
                 /\ connector.fd # bus.client_fd
  /\ InHand => /\ writer.gen <= bus.client_gen
               /\ SameConnection => fds[writer.fd] = writer.conn

LEMMA OwnersStep ==
  ASSUME TypeOK, Owners, Next
  PROVE  Owners'
<1>a. /\ bus \in Bus /\ writer \in WriterType /\ connector \in ConnectorType
      /\ Links /\ NoFd \notin Fds /\ NoConn \notin Conns
  BY BusAssumption DEF TypeOK, Links, Conns, NoConn
<1>b. /\ bus.client_gen \in Nat /\ bus.client_fd \in Fds \cup {NoFd}
      /\ InHand => writer.fd \in Fds /\ writer.gen \in Nat
      /\ Greeting => connector.fd \in Fds
  BY <1>a, SendingWriter, ConnectedConnector DEF Bus, WriterType, InHand, Greeting
<1>c. \A w : w.stage \in {"asleep"} => Woken(w).stage = "check"
  BY DEF Woken
<1>d. InHand => Woken(writer) = writer
  BY DEF InHand, Woken
<1>e. ~InHand => Woken(writer).stage \notin {"send", "failed"}
  BY <1>c DEF InHand, Woken
<1>f. ASSUME bus'.client_fd = bus.client_fd, bus'.client_gen = bus.client_gen,
             fds' = fds, UNCHANGED connector,
             writer' \in {writer, Woken(writer)}
      PROVE  Owners'
  BY <1>f, <1>d, <1>e DEF Owners, InHand, Greeting, SameConnection
<1>1. CASE BusSend
  <2>1. /\ bus'.client_fd = bus.client_fd /\ bus'.client_gen = bus.client_gen
        /\ UNCHANGED <<fds, connector>> /\ writer' \in {writer, Woken(writer)}
    BY <1>a, <1>1 DEF BusSend, Cached, Enqueued, Bus
  <2> QED BY <1>f, <2>1
<1>2. CASE WriterTakes
  <2>1. /\ bus'.client_fd = bus.client_fd /\ bus'.client_gen = bus.client_gen
        /\ UNCHANGED <<fds, connector>>
    BY <1>a, <1>2 DEF WriterTakes, Bus
  <2>2. CASE writer'.stage \in {"gone", "asleep"}
    BY <2>1, <2>2 DEF Owners, InHand, Greeting
  <2>3. CASE /\ writer'.fd = bus.client_fd /\ writer'.gen = bus.client_gen
             /\ writer'.conn = fds[bus.client_fd]
    BY <1>b, <2>1, <2>3 DEF Owners, InHand, Greeting, SameConnection
  <2> QED BY <1>2, <2>2, <2>3 DEF WriterTakes
<1>3. CASE WriterSends
  <2>1. UNCHANGED <<bus, fds, connector>> /\ InHand
    BY <1>3 DEF WriterSends, InHand
  <2>2. CASE writer' = [stage |-> "check"]
    BY <2>1, <2>2 DEF Owners, InHand, Greeting
  <2>3. CASE writer' = [writer EXCEPT !.stage = "failed"]
    <3>1. /\ writer'.fd = writer.fd /\ writer'.gen = writer.gen
          /\ writer'.conn = writer.conn
      BY <1>a, <2>1, <2>3, SendingWriter DEF InHand
    <3> QED BY <2>1, <3>1 DEF Owners, Greeting, SameConnection
  <2> QED BY <1>3, <2>2, <2>3 DEF WriterSends
<1>4. CASE WriterDrops
  <2>1. InHand /\ ~InHand' /\ UNCHANGED connector
    BY <1>4 DEF WriterDrops, InHand
  <2>2. CASE UNCHANGED <<bus, fds>>
    BY <2>1, <2>2 DEF Owners, Greeting
  <2>3. CASE SameConnection /\ Closing(writer.fd)
             /\ bus' = [bus EXCEPT !.client_fd = NoFd]
    <3>1. bus'.client_fd = NoFd /\ bus.client_fd = writer.fd
      BY <1>a, <2>3 DEF Bus, SameConnection
    <3>2. \A d \in Fds \ {bus.client_fd} : fds'[d] = fds[d]
      BY <1>a, <2>3, <3>1 DEF Closing, Links
    <3> QED BY <1>a, <1>b, <2>1, <3>1, <3>2 DEF Owners, Greeting
  <2> QED BY <1>4, <2>2, <2>3 DEF WriterDrops
<1>5. ASSUME NEW d \in Fds, Connect(d) PROVE Owners'
  <2>1. UNCHANGED <<bus, writer>> /\ fds[d] = NoConn /\ connector'.fd = d
        /\ fds' = [fds EXCEPT ![d] = made + 1] /\ made + 1 \in Conns
    BY <1>5 DEF Connect
  <2>2. fds'[d] # NoConn /\ \A e \in Fds \ {d} : fds'[e] = fds[e]
    BY <1>a, <2>1 DEF Links
  <2>3. bus.client_fd # d
    BY <1>a, <1>b, <2>1 DEF Owners
  <2> QED BY <1>a, <1>b, <2>1, <2>2, <2>3
          DEF Owners, InHand, Greeting, SameConnection
<1>6. CASE Hello
  <2>1. UNCHANGED <<bus, writer>> /\ Greeting
    BY <1>6 DEF Hello, Greeting
  <2>2. CASE UNCHANGED fds /\ connector' = [connector EXCEPT
                                 !.stage = "snapshot", !.todo = <<>>]
    <3>1. connector'.fd = connector.fd
      BY <1>a, <2>1, <2>2, ConnectedConnector DEF Greeting
    <3> QED BY <2>1, <2>2, <3>1 DEF Owners, InHand, SameConnection
  <2>3. CASE Closing(connector.fd) /\ connector' = [stage |-> "connect"]
    <3>1. \A e \in Fds \ {connector.fd} : fds'[e] = fds[e]
      BY <1>a, <2>3 DEF Closing, Links
    <3>2. ~Greeting'
      BY <2>3 DEF Greeting
    <3>3. bus.client_fd # connector.fd
      BY <2>1 DEF Owners
    <3> QED BY <1>a, <1>b, <2>1, <3>1, <3>2, <3>3
            DEF Owners, InHand, SameConnection
  <2> QED BY <1>6, <2>2, <2>3 DEF Hello
<1>7. CASE Snapshot \/ SendReplay
  <2>1. UNCHANGED <<bus, writer, fds>> /\ Greeting
    BY <1>7 DEF Snapshot, SendReplay, Greeting
  <2>2. connector'.fd = connector.fd
    BY <1>a, <1>7, <2>1, ConnectedConnector DEF Snapshot, SendReplay, Greeting
  <2> QED BY <2>1, <2>2 DEF Owners, InHand, SameConnection
<1>8. CASE Publish
  <2>1. Greeting /\ ~Greeting' /\ writer' = Woken(writer)
    BY <1>a, <1>8, ConnectedConnector DEF Publish, Greeting
  <2>2. bus'.client_fd = connector.fd /\ bus'.client_gen = bus.client_gen + 1
    BY <1>a, <1>8 DEF Publish, Bus
  <2>3. \A e \in Fds \ {bus.client_fd} : fds'[e] = fds[e]
    BY <1>a, <1>8 DEF Publish, Closing, Links
  <2>4. fds'[bus'.client_fd] # NoConn
    BY <1>b, <2>1, <2>2, <2>3 DEF Owners
  <2>5. InHand' => /\ writer' = writer /\ writer.gen <= bus.client_gen
                   /\ writer.gen \in Nat
    BY <1>b, <1>d, <1>e, <2>1 DEF Owners, InHand
  <2> QED BY <1>b, <2>1, <2>2, <2>4, <2>5 DEF Owners, SameConnection
<1>9. CASE LinkCheck \/ ConnectorLeaves
  <2>1. UNCHANGED <<bus, writer, fds>>
    BY <1>9 DEF LinkCheck, ConnectorLeaves
  <2>2. ~Greeting'
    <3>1. CASE LinkCheck
      <4>1. connector.stage = "link"
        BY <3>1 DEF LinkCheck
      <4>2. \A s : [connector EXCEPT !.stage = s].stage = s
        BY <1>a, <4>1, ConnectedConnector
      <4> QED BY <3>1, <4>2 DEF LinkCheck, Greeting
    <3>2. CASE ConnectorLeaves
      BY <3>2 DEF ConnectorLeaves, Greeting
    <3> QED BY <1>9, <3>1, <3>2
  <2> QED BY <2>1, <2>2 DEF Owners, InHand, SameConnection
<1>10. CASE ReadFails
  <2>1. UNCHANGED writer /\ ~Greeting'
    BY <1>10 DEF ReadFails, Greeting
  <2>2. CASE UNCHANGED <<bus, fds>>
    BY <2>1, <2>2 DEF Owners, InHand, SameConnection
  <2>3. CASE bus' = [bus EXCEPT !.client_fd = NoFd]
    <3>1. bus'.client_fd = NoFd /\ bus'.client_gen = bus.client_gen
      BY <1>a, <2>3 DEF Bus
    <3> QED BY <1>a, <1>b, <2>1, <3>1 DEF Owners, InHand, SameConnection
  <2> QED BY <1>10, <2>2, <2>3 DEF ReadFails
<1>11. ASSUME DropClient, UNCHANGED connector,
              writer' \in {writer, Woken(writer)}
       PROVE  Owners'
  <2>1. CASE bus.client_fd = NoFd
    BY <1>11, <1>f, <2>1 DEF DropClient
  <2>2. CASE bus.client_fd # NoFd
    <3>1. bus'.client_fd = NoFd /\ bus'.client_gen = bus.client_gen
      BY <1>a, <1>11, <2>2 DEF DropClient, Bus
    <3>2. \A e \in Fds \ {bus.client_fd} : fds'[e] = fds[e]
      BY <1>a, <1>11, <2>2 DEF DropClient, Closing, Links
    <3>3. InHand' => writer' = writer /\ InHand
      BY <1>11, <1>d, <1>e DEF InHand
    <3> QED BY <1>a, <1>b, <1>11, <3>1, <3>2, <3>3
            DEF Owners, Greeting, SameConnection
  <2> QED BY <2>1, <2>2
<1>12. CASE WriterNotCreated \/ ShutdownWakes
  BY <1>11, <1>12 DEF WriterNotCreated, ShutdownWakes
<1>13. CASE CreateThreads
  BY <1>13 DEF CreateThreads, Owners, InHand, Greeting
<1>14. CASE BusInit
  <2>1. bus'.client_fd = bus.client_fd /\ bus'.client_gen = bus.client_gen
        /\ UNCHANGED <<writer, fds>> /\ ~Greeting'
    BY <1>a, <1>14 DEF BusInit, Bus, Greeting
  <2> QED BY <2>1 DEF Owners, InHand, SameConnection
<1>15. CASE \/ Unwound \/ BusShutdown \/ ShutdownFrees \/ ShutdownDefers
            \/ Timer \/ RouteStart \/ RouteStop \/ JavaDies \/ JavaIo
  <2>1. bus'.client_fd = bus.client_fd /\ bus'.client_gen = bus.client_gen
    BY <1>a, <1>15 DEF Unwound, BusShutdown, ShutdownFrees, ShutdownDefers,
       Timer, TimerFires, TimerReturns, TimerLeaves, RouteStart, RouteStop,
       JavaDies, JavaIo, JavaAccepts, JavaReads, JavaDrops, Bus
  <2>2. UNCHANGED <<fds, writer, connector>>
    BY <1>15 DEF Unwound, BusShutdown, ShutdownFrees, ShutdownDefers,
       Timer, TimerFires, TimerReturns, TimerLeaves, RouteStart, RouteStop,
       JavaDies, JavaIo, JavaAccepts, JavaReads, JavaDrops
  <2> QED BY <1>f, <2>1, <2>2
<1> QED
  BY <1>1, <1>2, <1>3, <1>4, <1>5, <1>6, <1>7, <1>8, <1>9, <1>10, <1>12,
     <1>13, <1>14, <1>15
  DEF Next, Writer, Connector, Lifecycle

LEMMA OwnersAlways == Spec => []Owners
<1>1. Init => Owners
  BY DEF Init, Owners, InHand, Greeting
<1>2. TypeOK /\ Owners /\ [Next]_vars => Owners'
  <2>1. UNCHANGED vars /\ Owners => Owners'
    BY DEF vars, Owners, InHand, Greeting, SameConnection
  <2> QED BY <2>1, OwnersStep
<1> QED BY <1>1, <1>2, TypeCorrect, PTL DEF Spec

(* A writer that drops a link after a failed send closes the connection    *)
(* it sent on and no other, although descriptor numbers are reused and     *)
(* links are replaced while it sends.                                      *)
THEOREM WriterClosesOwn == Spec => WriterClosesItsOwn
<1> DEFINE Own == \A c \in Conns :
                    WriterDrops /\ conns[c].native /\ ~conns'[c].native
                      => c = writer.conn
<1>1. TypeOK /\ Owners => Own
  <2> SUFFICES ASSUME TypeOK, Owners, NEW c \in Conns, WriterDrops,
                      conns[c].native, ~conns'[c].native
               PROVE  c = writer.conn
    OBVIOUS
  <2>1. InHand
    BY DEF WriterDrops, InHand
  <2>2. SameConnection /\ Closing(writer.fd)
    BY DEF WriterDrops
  <2>3. fds[writer.fd] = writer.conn
    BY <2>1, <2>2 DEF Owners
  <2>4. c = fds[writer.fd]
    BY <2>2 DEF Closing, TypeOK
  <2> QED BY <2>3, <2>4
<1>2. Own => [Own]_vars
  OBVIOUS
<1> QED BY <1>1, <1>2, TypeCorrect, OwnersAlways, PTL DEF WriterClosesItsOwn
-----------------------------------------------------------------------------
(* Where the latest update is.  While the bus is up it is the last one in  *)
(* the ring; else the one the writer has in hand; else it is on its way to *)
(* Java on the current link, was read from it, or is in what the connector *)
(* still replays.                                                          *)
Working  == life \in {"off", "creating", "up"}
IsUpdate(f) == f.kind \in {"replay", "live"}
HasNone(seq) == \A k \in DOMAIN seq : ~IsUpdate(seq[k])

(* The last update in flight is the latest, or Java has read it, or the    *)
(* link is no more, which Java or the connector finds out.                 *)
Carries(c) ==
  LET wire == conns[c].wire IN
  \/ conns[c].peer = "closed"
  \/ \E k \in DOMAIN wire : wire[k].kind = "cut"
  \/ \E k \in DOMAIN wire :
       /\ IsUpdate(wire[k]) /\ wire[k].value = bus.last
       /\ \A j \in DOMAIN wire : j > k => ~IsUpdate(wire[j])
  \/ java.conn = c /\ heard = bus.last /\ HasNone(wire)

Stages ==
  /\ life # "unwinding"
  /\ Working => ~shutdown
  /\ life \in {"off", "creating"} => writer.stage = "gone" /\ bus.last = 0
  /\ life = "off" => connector.stage = "gone"

(* The connector looks for a new link only when there is none.             *)
OneLink ==
  Working => /\ connector.stage \notin {"link", "read"} => bus.client_fd = NoFd
             /\ connector.stage \in {"link", "read"}
                  => bus.client_fd \in {NoFd, connector.fd}

(* Java's connections are those made, and the one it reads is open.        *)
Made ==
  /\ \A c \in Conns : c > made => conns[c].peer = "closed"
  /\ java.conn # NoConn => conns[java.conn].peer = "open"

LatestQueued ==
  /\ \A k \in DOMAIN bus.ring : bus.ring[k].kind = "live"
  /\ InHand => writer.frame.kind = "live"
  /\ Working /\ ~lost => 
       /\ bus.ring # <<>> => bus.ring[Len(bus.ring)].value = bus.last
       /\ bus.ring = <<>> /\ InHand => writer.frame.value = bus.last

NothingYet ==
  Working /\ bus.last = 0
  => /\ heard = 0 /\ bus.ring = <<>> /\ ~InHand
     /\ \A c \in Conns : HasNone(conns[c].wire)
     /\ Greeting => HasNone(connector.todo)

(* The greeting and the one old frame the writer may still have in hand    *)
(* fit into the socket's buffer: the replayed update is not refused.       *)
Last(v) == [kind |-> "replay", value |-> v]
Remains(v) == {<<>>, <<Bare("end")>>, <<Last(v), Bare("end")>>,
               <<Bare("begin"), Last(v), Bare("end")>>,
               <<Bare("begin"), Bare("end")>>}
Held == IF writer.stage = "send" THEN 1 ELSE 0
Waiting == Len(conns[fds[connector.fd]].wire) + Held

GreetingFits ==
  Working =>
  /\ connector.stage = "hello" =>
       connector.todo = <<Bare("hello")>> /\ Waiting <= 1
  /\ connector.stage = "snapshot" => Waiting <= 2
  /\ connector.stage = "replay" =>
       /\ Waiting + Len(connector.todo) <= 5
       /\ \E v \in 0..MaxSends :
            /\ connector.todo \in Remains(v)
            /\ bus.ring = <<>> /\ ~lost /\ bus.last # 0 => v = bus.last

LatestReplayed ==
  Working /\ connector.stage = "replay" /\ bus.ring = <<>> /\ ~lost
  => \/ bus.last = 0
     \/ \E k \in DOMAIN connector.todo : IsUpdate(connector.todo[k])
     \/ Carries(fds[connector.fd])

LatestSent ==
  /\ Working /\ connector.stage \in {"link", "read"}
  /\ bus.client_fd = connector.fd
  /\ bus.ring = <<>> /\ ~lost
  => \/ bus.last = 0
     \/ InHand /\ SameConnection
     \/ Carries(fds[connector.fd])

LatestInv ==
  /\ Owners /\ Stages /\ OneLink /\ Made /\ LatestQueued /\ NothingYet
  /\ GreetingFits /\ LatestReplayed /\ LatestSent

(* What a send does to the connections: at most one frame more.            *)
LEMMA FrameEffect ==
  ASSUME Links, NEW d \in Fds, NEW f \in Frame,
         FrameSent(d, f) \/ FrameFails(d, f), NEW c \in Conns
  PROVE  /\ conns'[c].peer = conns[c].peer
         /\ \/ conns'[c] = conns[c]
            \/ /\ c = fds[d] /\ ~PeerClosed(d)
               /\ \E g \in Frame : /\ g = f \/ g.kind = "cut"
                                   /\ conns'[c].wire = Append(conns[c].wire, g)
<1>0. conns[c] \in Conn /\ (fds[d] # NoConn => fds[d] \in Conns)
  BY DEF Links
<1>1. CASE UNCHANGED conns
  BY <1>1
<1>2. ASSUME NEW g \in Frame, g = f \/ g.kind = "cut", ~PeerClosed(d),
             conns' = [conns EXCEPT ![fds[d]].wire = Append(@, g)]
      PROVE  /\ conns'[c].peer = conns[c].peer
             /\ \/ conns'[c] = conns[c]
                \/ /\ c = fds[d]
                   /\ conns'[c].wire = Append(conns[c].wire, g)
  BY <1>0, <1>2 DEF Links, Conn
<1>3. [f EXCEPT !.kind = "cut"] \in Frame /\ [f EXCEPT !.kind = "cut"].kind = "cut"
  BY DEF Frame
<1>4. CASE FrameSent(d, f)
  BY <1>1, <1>2, <1>4 DEF FrameSent, PeerClosed
<1>5. CASE FrameFails(d, f)
  BY <1>1, <1>2, <1>3, <1>5 DEF FrameFails
<1> QED BY <1>4, <1>5

LEMMA ClosingEffect ==
  ASSUME Links, NEW d \in Fds, Closing(d), NEW c \in Conns
  PROVE  conns'[c].peer = conns[c].peer /\ conns'[c].wire = conns[c].wire
BY DEF Closing, Links, Conn

(* What Java does to the connections: it takes a frame, or all of them.    *)
LEMMA JavaEffect ==
  ASSUME TypeOK, RouteStart \/ RouteStop \/ JavaDies \/ JavaIo,
         NEW c \in Conns
  PROVE  /\ conns[c].peer = "closed" => conns'[c].peer = "closed"
         /\ \/ conns'[c].wire = conns[c].wire
            \/ conns'[c].wire = <<>>
            \/ conns[c].wire # <<>> /\ conns'[c].wire = Tail(conns[c].wire)
<1>0. conns[c] \in Conn /\ conns \in [Conns -> Conn] /\ java \in Java
  BY DEF TypeOK
<1>1. CASE RouteStart \/ RouteStop
  BY <1>1 DEF RouteStart, RouteStop
<1>2. CASE JavaDies
  BY <1>0, <1>2 DEF JavaDies, Conn
<1>3. ASSUME NEW e \in Conns, JavaAccepts(e)
      PROVE  /\ conns'[c].wire = conns[c].wire
             /\ conns[c].peer = "closed" => conns'[c].peer = "closed"
  BY <1>0, <1>3 DEF JavaAccepts, Conn
<1>4. CASE JavaReads
  <2>1. java.conn \in Conns /\ conns[java.conn].wire # <<>>
        /\ conns' = [conns EXCEPT ![java.conn].wire = Tail(@)]
    BY <1>0, <1>4 DEF JavaReads, Java
  <2>2. CASE c = java.conn
    BY <1>0, <2>1, <2>2 DEF Conn
  <2>3. CASE c # java.conn
    BY <1>0, <2>1, <2>3
  <2> QED BY <2>2, <2>3
<1>5. CASE JavaDrops
  <2>1. java.conn \in Conns
        /\ conns' = [conns EXCEPT ![java.conn].wire = <<>>,
                                  ![java.conn].peer = "closed"]
    BY <1>0, <1>5 DEF JavaDrops, Java
  <2>2. CASE c = java.conn
    BY <1>0, <2>1, <2>2 DEF Conn
  <2>3. CASE c # java.conn
    BY <1>0, <2>1, <2>3
  <2> QED BY <2>2, <2>3
<1> QED BY <1>1, <1>2, <1>3, <1>4, <1>5 DEF JavaIo

LEMMA WireGrows ==
  ASSUME Links, NEW d \in Fds, NEW f \in Frame,
         FrameSent(d, f) \/ FrameFails(d, f), NEW c \in Conns
  PROVE  /\ Len(conns[c].wire) \in Nat /\ Len(conns'[c].wire) \in Nat
         /\ Len(conns'[c].wire) <= Len(conns[c].wire) + 1
<1>1. conns[c].wire \in Seq(Frame)
  BY DEF Links, Conn
<1>2. \/ conns'[c] = conns[c]
      \/ \E g \in Frame : conns'[c].wire = Append(conns[c].wire, g)
  BY FrameEffect
<1>3. CASE conns'[c] = conns[c]
  BY <1>1, <1>3
<1>4. ASSUME NEW g \in Frame, conns'[c].wire = Append(conns[c].wire, g)
      PROVE  Len(conns'[c].wire) = Len(conns[c].wire) + 1
  BY <1>1, <1>4
<1> QED BY <1>1, <1>2, <1>3, <1>4

LEMMA WireShrinks ==
  ASSUME TypeOK, RouteStart \/ RouteStop \/ JavaDies \/ JavaIo,
         NEW c \in Conns
  PROVE  /\ Len(conns[c].wire) \in Nat /\ Len(conns'[c].wire) \in Nat
         /\ Len(conns'[c].wire) <= Len(conns[c].wire)
<1>1. conns[c].wire \in Seq(Frame)
  BY DEF TypeOK, Conn
<1>2. CASE conns'[c].wire = conns[c].wire
  BY <1>1, <1>2
<1>3. CASE conns'[c].wire = <<>>
  BY <1>1, <1>3
<1>4. CASE conns[c].wire # <<>> /\ conns'[c].wire = Tail(conns[c].wire)
  BY <1>1, <1>4
<1> QED BY <1>2, <1>3, <1>4, JavaEffect

(* A link that carries the latest update goes on doing so when no older    *)
(* one is sent after it.                                                   *)
LEMMA CarriesOn ==
  ASSUME Links, NEW c \in Conns, Carries(c), UNCHANGED <<java, heard>>,
         bus'.last = bus.last, conns'[c].peer = conns[c].peer,
         \/ conns'[c].wire = conns[c].wire
         \/ \E g \in Frame : /\ IsUpdate(g) => g.value = bus.last
                             /\ conns'[c].wire = Append(conns[c].wire, g)
  PROVE  Carries(c)'
<1>0. conns[c].wire \in Seq(Frame)
  BY DEF Links, Conn
<1>1. CASE conns'[c].wire = conns[c].wire
  BY <1>1 DEF Carries, HasNone
<1>2. ASSUME NEW g \in Frame, IsUpdate(g) => g.value = bus.last,
             conns'[c].wire = Append(conns[c].wire, g)
      PROVE  Carries(c)'
  <2> DEFINE w == conns[c].wire
             v == conns'[c].wire
  <2>1. /\ DOMAIN w = 1..Len(w) /\ DOMAIN v = 1..(Len(w) + 1)
        /\ Len(w) \in Nat
        /\ \A k \in DOMAIN w : v[k] = w[k]
        /\ v[Len(w) + 1] = g
    BY <1>0, <1>2
  <2> HIDE DEF w, v
  <2>2. CASE conns[c].peer = "closed"
    BY <2>2 DEF Carries
  <2>3. ASSUME NEW k \in DOMAIN w, w[k].kind = "cut" PROVE Carries(c)'
    BY <2>1, <2>3 DEF Carries, v
  <2>4. CASE IsUpdate(g)
    <3>1. g.value = bus.last
      BY <1>2, <2>4
    <3>2. /\ Len(w) + 1 \in DOMAIN v
          /\ \A j \in DOMAIN v : ~(j > Len(w) + 1)
      BY <2>1
    <3> QED BY <2>1, <2>4, <3>1, <3>2 DEF Carries, v
  <2>5. CASE ~IsUpdate(g)
    <3>1. ASSUME NEW k \in DOMAIN w, IsUpdate(w[k]), w[k].value = bus.last,
                 \A j \in DOMAIN w : j > k => ~IsUpdate(w[j])
          PROVE  Carries(c)'
      <4>1. k \in DOMAIN v /\ v[k] = w[k]
        BY <2>1
      <4>2. \A j \in DOMAIN v : j > k => ~IsUpdate(v[j])
        BY <2>1, <2>5, <3>1
      <4> QED BY <3>1, <4>1, <4>2 DEF Carries, v
    <3>2. CASE java.conn = c /\ heard = bus.last /\ HasNone(w)
      <4>1. HasNone(v)
        BY <2>1, <2>5, <3>2 DEF HasNone
      <4> QED BY <3>2, <4>1 DEF Carries, v, HasNone
    <3> QED BY <2>2, <2>3, <3>1, <3>2 DEF Carries, w
  <2> QED BY <2>4, <2>5
<1> QED BY <1>1, <1>2

LEMMA CarriesNow ==
  ASSUME Links, NEW d \in Fds, NEW f \in Frame, FrameSent(d, f),
         IsUpdate(f), f.value = bus.last, bus'.last = bus.last,
         NEW c \in Conns, c = fds[d]
  PROVE  Carries(c)'
<1>0. conns[c] \in Conn /\ conns[c].wire \in Seq(Frame)
  BY DEF Links, Conn
<1>1. CASE conns[c].peer = "closed"
  BY <1>1 DEF FrameSent, Carries
<1>2. CASE conns[c].peer # "closed"
  <2> DEFINE w == conns[c].wire
             v == conns'[c].wire
  <2>1. v = Append(w, f)
    BY <1>0, <1>2 DEF FrameSent, Links, Conn
  <2>2. /\ Len(w) + 1 \in DOMAIN v /\ v[Len(w) + 1] = f
        /\ \A j \in DOMAIN v : ~(j > Len(w) + 1)
    BY <1>0, <2>1
  <2> HIDE DEF w, v
  <2> QED BY <2>2 DEF Carries, v
<1> QED BY <1>1, <1>2

(* ... and when Java reads.                                                *)
LEMMA CarriesRead ==
  ASSUME TypeOK, NEW c \in Conns, Carries(c),
         RouteStart \/ RouteStop \/ JavaDies \/ JavaIo
  PROVE  Carries(c)'
<1>0. /\ conns[c] \in Conn /\ conns \in [Conns -> Conn] /\ java \in Java
      /\ conns[c].wire \in Seq(Frame) /\ UNCHANGED bus /\ NoConn \notin Conns
  <2>1. UNCHANGED bus
    BY DEF RouteStart, RouteStop, JavaDies, JavaIo, JavaAccepts, JavaReads,
           JavaDrops
  <2>2. conns[c] \in Conn /\ conns \in [Conns -> Conn] /\ java \in Java
    BY DEF TypeOK
  <2>3. NoConn \notin Conns
    BY DEF NoConn, Conns
  <2> QED BY <2>1, <2>2, <2>3 DEF Conn
<1>1. CASE conns[c].peer = "closed"
  BY <1>1, JavaEffect DEF Carries
<1>2. CASE RouteStart \/ RouteStop
  <2>1. UNCHANGED <<conns, heard, bus>> /\ java'.conn = java.conn
    BY <1>0, <1>2 DEF RouteStart, RouteStop, Java
  <2> QED BY <2>1 DEF Carries, HasNone
<1>3. CASE JavaDies
  <2>1. conns'[c].peer = "closed"
    BY <1>0, <1>3 DEF JavaDies, Conn
  <2> QED BY <2>1 DEF Carries
<1>4. ASSUME NEW e \in Conns, JavaAccepts(e), conns[c].peer # "closed"
      PROVE  Carries(c)'
  <2>1. conns'[c].wire = conns[c].wire /\ java.conn = NoConn
    BY <1>0, <1>4 DEF JavaAccepts, Conn
  <2> QED BY <1>0, <1>4, <2>1 DEF Carries
<1>5. CASE JavaDrops /\ conns[c].peer # "closed"
  <2>0. java.conn \in Conns
        /\ conns' = [conns EXCEPT ![java.conn].wire = <<>>,
                                  ![java.conn].peer = "closed"]
    BY <1>0, <1>5 DEF JavaDrops, Java
  <2>1. CASE c = java.conn
    <3>1. conns'[c].peer = "closed"
      BY <1>0, <2>0, <2>1 DEF Conn
    <3> QED BY <3>1 DEF Carries
  <2>2. CASE c # java.conn
    <3>1. conns'[c] = conns[c]
      BY <1>0, <2>0, <2>2
    <3> QED BY <1>0, <1>5, <2>2, <3>1 DEF Carries
  <2> QED BY <2>1, <2>2
<1>6. CASE JavaReads /\ conns[c].peer # "closed"
  <2>0. java.conn \in Conns /\ conns[java.conn].wire # <<>>
        /\ conns' = [conns EXCEPT ![java.conn].wire = Tail(@)]
        /\ Head(conns[java.conn].wire).kind # "cut"
    BY <1>0, <1>6 DEF JavaReads, Java
  <2>1. CASE c # java.conn
    <3>1. conns'[c] = conns[c]
      BY <1>0, <2>0, <2>1
    <3> QED BY <1>0, <1>6, <2>1, <3>1 DEF Carries
  <2>2. CASE c = java.conn
    <3> DEFINE w == conns[c].wire
               v == conns'[c].wire
    <3>1. v = Tail(w) /\ w # <<>> /\ w[1].kind # "cut" /\ java'.conn = c
      BY <1>0, <1>6, <2>0, <2>2 DEF Conn, JavaReads, Java
    <3>2. heard' = IF IsUpdate(w[1]) THEN w[1].value ELSE heard
      BY <1>0, <1>6, <2>2 DEF JavaReads, IsUpdate
    <3>3. /\ DOMAIN w = 1..Len(w) /\ DOMAIN v = 1..(Len(w) - 1)
          /\ Len(w) \in Nat
          /\ \A k \in DOMAIN v : v[k] = w[k + 1]
      BY <1>0, <3>1
    <3> HIDE DEF w, v
    <3>4. ASSUME NEW k \in DOMAIN w, k # 1
          PROVE  k - 1 \in DOMAIN v /\ v[k - 1] = w[k]
      BY <3>3, <3>4
    <3>5. ASSUME NEW k \in DOMAIN w, w[k].kind = "cut" PROVE Carries(c)'
      BY <3>1, <3>4, <3>5 DEF Carries, v
    <3>6. ASSUME NEW k \in DOMAIN w, IsUpdate(w[k]), w[k].value = bus.last,
                 \A j \in DOMAIN w : j > k => ~IsUpdate(w[j])
          PROVE  Carries(c)'
      <4>1. CASE k = 1
        <5>1. HasNone(v)
          BY <3>3, <3>6, <4>1 DEF HasNone
        <5>2. heard' = bus.last
          BY <3>2, <3>6, <4>1
        <5> QED BY <1>0, <3>1, <5>1, <5>2 DEF Carries, v, HasNone
      <4>2. CASE k # 1
        <5>1. k - 1 \in DOMAIN v /\ v[k - 1] = w[k]
          BY <3>4, <4>2
        <5>2. \A j \in DOMAIN v : j > k - 1 => ~IsUpdate(v[j])
          BY <3>3, <3>6
        <5> QED BY <1>0, <3>6, <5>1, <5>2 DEF Carries, v
      <4> QED BY <4>1, <4>2
    <3>7. CASE heard = bus.last /\ HasNone(w)
      <4>1. HasNone(v)
        BY <3>3, <3>7 DEF HasNone
      <4>2. heard' = bus.last
        <5>1. 1 \in DOMAIN w
          BY <1>0, <3>1, <3>3 DEF w
        <5> QED BY <3>2, <3>7, <5>1 DEF HasNone
      <4> QED BY <1>0, <3>1, <4>1, <4>2 DEF Carries, v, HasNone
    <3> QED BY <1>6, <3>5, <3>6, <3>7 DEF Carries, w
  <2> QED BY <2>1, <2>2
<1> QED BY <1>1, <1>2, <1>3, <1>4, <1>5, <1>6 DEF JavaIo
(* The steps that concern neither the writer nor the connector, the ring   *)
(* or the life of the bus.                                                 *)
LEMMA TimerAside ==
  ASSUME LatestInv, UNCHANGED <<life, shutdown, bus, writer, connector, fds,
                                conns, java, heard, lost, made>>
  PROVE  LatestInv'
<1>a. /\ life' = life /\ shutdown' = shutdown /\ bus' = bus
      /\ writer' = writer /\ connector' = connector /\ fds' = fds
      /\ conns' = conns /\ java' = java /\ heard' = heard /\ lost' = lost
      /\ made' = made
  OBVIOUS
<1>b. (InHand' <=> InHand) /\ (Greeting' <=> Greeting)
      /\ (SameConnection' <=> SameConnection) /\ (Working' <=> Working)
      /\ Waiting' = Waiting
  BY <1>a DEF InHand, Greeting, SameConnection, Working, Held, Waiting
<1>c. \A c : Carries(c)' <=> Carries(c)
  BY <1>a DEF Carries
<1>1. Owners'
  BY <1>a, <1>b DEF LatestInv, Owners
<1>2. Stages' /\ OneLink' /\ Made'
  BY <1>a, <1>b DEF LatestInv, Stages, OneLink, Made
<1>3. LatestQueued'
  BY <1>a, <1>b DEF LatestInv, LatestQueued
<1>4. NothingYet'
  BY <1>a, <1>b DEF LatestInv, NothingYet
<1>5. GreetingFits'
  BY <1>a, <1>b DEF LatestInv, GreetingFits
<1>6. LatestReplayed'
  BY <1>a, <1>b, <1>c DEF LatestInv, LatestReplayed
<1>7. LatestSent'
  BY <1>a, <1>b, <1>c DEF LatestInv, LatestSent
<1> QED BY <1>1, <1>2, <1>3, <1>4, <1>5, <1>6, <1>7 DEF LatestInv

LEMMA LinkStep ==
  ASSUME ~CreateFails, TypeOK, Owners, Stages, OneLink, Next
  PROVE  Stages' /\ OneLink'
<1>a. bus \in Bus /\ connector \in ConnectorType /\ bus.client_fd \in Fds \cup {NoFd}
      /\ NoFd \notin Fds
  BY BusAssumption DEF TypeOK, Bus
<1>b. writer.stage # "asleep" => Woken(writer) = writer
  BY DEF Woken
<1>1. CASE BusSend
  <2>1. /\ life \notin {"off", "creating", "unwinding"}
        /\ UNCHANGED <<life, shutdown, connector>>
        /\ bus'.client_fd = bus.client_fd
    BY <1>a, <1>1 DEF BusSend, Cached, Enqueued, Bus
  <2> QED BY <2>1 DEF Stages, OneLink, Working
<1>2. CASE Writer
  <2>1. /\ writer.stage # "gone" /\ UNCHANGED <<life, shutdown, connector>>
        /\ bus'.client_fd \in {bus.client_fd, NoFd}
    BY <1>a, <1>2 DEF Writer, WriterTakes, WriterSends, WriterDrops, Bus
  <2> QED BY <2>1 DEF Stages, OneLink, Working
<1>3. CASE Connector
  <2>0. /\ connector.stage # "gone" /\ UNCHANGED <<life, shutdown>>
        /\ bus'.last = bus.last /\ writer' \in {writer, Woken(writer)}
    BY <1>a, <1>3 DEF Connector, Connect, Hello, Snapshot, SendReplay, Publish,
                      LinkCheck, ReadFails, ConnectorLeaves, Bus
  <2>a. life' = life /\ shutdown' = shutdown /\ (Working' <=> Working)
    BY <2>0 DEF Working
  <2>1. Stages'
    BY <1>b, <2>0 DEF Stages, Working
  <2>2. ASSUME NEW d \in Fds, Connect(d) PROVE OneLink'
    <3>1. connector.stage = "connect" /\ connector'.stage = "hello"
          /\ bus' = bus
      BY <2>2 DEF Connect
    <3> QED BY <2>a, <3>1 DEF OneLink
  <2>3. CASE Hello \/ Snapshot \/ SendReplay
    <3>1. connector.stage \in {"hello", "snapshot", "replay"}
          /\ bus' = bus
      BY <2>3 DEF Hello, Snapshot, SendReplay
    <3>2. connector \in [stage : {"hello", "snapshot", "replay", "link",
                                  "read"}, fd : Fds, todo : Seq(Frame)]
      BY <1>a, <3>1, ConnectedConnector
    <3>3. connector'.stage \notin {"link", "read"}
      <4>1. CASE Hello
        <5>1. [connector EXCEPT !.stage = "snapshot", !.todo = <<>>].stage
              = "snapshot"
          BY <3>2
        <5>2. \/ connector' = [connector EXCEPT !.stage = "snapshot",
                                               !.todo = <<>>]
              \/ connector' = [stage |-> "connect"]
          BY <4>1 DEF Hello
        <5>3. connector'.stage \in {"snapshot", "connect"}
          <6>1. [stage |-> "connect"].stage = "connect"
            OBVIOUS
          <6> QED BY <5>1, <5>2, <6>1
        <5> QED BY <5>3
      <4>2. CASE Snapshot
        BY <3>2, <4>2 DEF Snapshot
      <4>3. CASE SendReplay
        BY <3>2, <4>3 DEF SendReplay
      <4> QED BY <2>3, <4>1, <4>2, <4>3
    <3> QED BY <2>1, <2>a, <3>1, <3>3 DEF OneLink
  <2>4. CASE Publish
    <3>1. bus'.client_fd = connector.fd
      BY <1>a, <2>4 DEF Publish, Bus
    <3>2. connector'.stage = "link" /\ connector'.fd = connector.fd
      BY <1>a, <2>4, ConnectedConnector DEF Publish
    <3> QED BY <2>1, <3>1, <3>2 DEF OneLink
  <2>5. CASE LinkCheck
    <3>1. connector.stage = "link" /\ bus' = bus
      BY <2>5 DEF LinkCheck
    <3>2. CASE connector' = [stage |-> "connect"]
               /\ (shutdown \/ bus.client_fd # connector.fd)
      <4>1. connector'.stage = "connect"
        BY <3>2
      <4>2. Working => bus.client_fd = NoFd
        BY <3>1, <3>2 DEF OneLink, Stages
      <4> QED BY <2>1, <2>a, <3>1, <4>1, <4>2 DEF OneLink
    <3>3. CASE connector' = [connector EXCEPT !.stage = "read"]
      <4>1. connector'.stage = "read" /\ connector'.fd = connector.fd
        BY <1>a, <3>1, <3>3, ConnectedConnector
      <4> QED BY <2>1, <2>a, <3>1, <4>1 DEF OneLink
    <3> QED BY <2>5, <3>2, <3>3 DEF LinkCheck
  <2>6. CASE ReadFails
    <3>1. connector.stage = "read" /\ connector'.stage = "connect"
      BY <2>6 DEF ReadFails
    <3>2. Working => bus'.client_fd = NoFd
      BY <1>a, <2>6, <3>1 DEF ReadFails, OneLink, Bus
    <3> QED BY <2>1, <2>a, <3>1, <3>2 DEF OneLink
  <2>7. CASE ConnectorLeaves
    BY <2>1, <2>a, <2>7 DEF ConnectorLeaves, OneLink
  <2> QED BY <1>3, <2>1, <2>2, <2>3, <2>4, <2>5, <2>6, <2>7 DEF Connector
<1>4. CASE BusInit
  <2>1. bus'.client_fd = NoFd /\ bus'.last = 0 /\ writer'.stage = "gone"
    BY <1>a, <1>4 DEF BusInit, Bus, Stages, OneLink, Working
  <2> QED BY <1>4, <2>1 DEF BusInit, Stages, OneLink
<1>5. CASE CreateThreads
  BY <1>5 DEF CreateThreads, Stages, OneLink, Working
<1>6. CASE WriterNotCreated \/ Unwound
  BY <1>6 DEF WriterNotCreated, Unwound, Stages
<1>7. CASE BusShutdown \/ ShutdownWakes \/ ShutdownFrees \/ ShutdownDefers
  BY <1>7 DEF BusShutdown, ShutdownWakes, ShutdownFrees, ShutdownDefers,
              Stages, OneLink, Working
<1>8. CASE Timer \/ RouteStart \/ RouteStop \/ JavaDies \/ JavaIo
  <2>1. UNCHANGED <<life, shutdown, bus, writer, connector>>
    BY <1>8 DEF Timer, TimerFires, TimerReturns, TimerLeaves, RouteStart,
       RouteStop, JavaDies, JavaIo, JavaAccepts, JavaReads, JavaDrops
  <2> QED BY <2>1 DEF Stages, OneLink, Working
<1> QED BY <1>1, <1>2, <1>3, <1>4, <1>5, <1>6, <1>7, <1>8
        DEF Next, Lifecycle

LEMMA MadeStep ==
  ASSUME TypeOK, Made, Next
  PROVE  Made'
<1>a. /\ Links /\ bus \in Bus /\ java \in Java /\ made \in Conns \cup {0}
      /\ conns \in [Conns -> Conn] /\ NoConn \notin Conns
      /\ bus.client_fd \in Fds \cup {NoFd}
  BY DEF TypeOK, Links, Conns, NoConn, Bus
<1>b. \A c \in Conns : c \in Nat
  BY BusAssumption DEF Conns
<1>c. ASSUME \A c \in Conns : conns'[c].peer = conns[c].peer,
             UNCHANGED <<java, made>>
      PROVE  Made'
  BY <1>a, <1>c DEF Made, Java
<1>1. CASE BusSend \/ Timer \/ BusInit \/ CreateThreads \/ Unwound
           \/ BusShutdown \/ ShutdownFrees \/ ShutdownDefers \/ WriterTakes
           \/ Snapshot \/ LinkCheck \/ ConnectorLeaves
  <2>1. UNCHANGED <<conns, java, made>>
    BY <1>1 DEF BusSend, Timer, TimerFires, TimerReturns, TimerLeaves, BusInit,
       CreateThreads, Unwound, BusShutdown, ShutdownFrees, ShutdownDefers,
       WriterTakes, Snapshot, LinkCheck, ConnectorLeaves
  <2> QED BY <1>c, <2>1
<1>2. CASE WriterSends
  <2>1. writer.frame \in Frame /\ writer.fd \in Fds
    BY <1>2, SendingWriter DEF TypeOK, WriterSends
  <2> QED BY <1>2, <1>a, <1>c, <2>1, FrameEffect DEF WriterSends
<1>3. ASSUME NEW d \in Fds, Closing(d), UNCHANGED <<java, made>> PROVE Made'
  BY <1>3, <1>a, <1>c, ClosingEffect
<1>4. CASE WriterDrops
  <2>1. writer.fd \in Fds
    BY <1>4, SendingWriter DEF TypeOK, WriterDrops
  <2> QED BY <1>4, <1>c, <1>3, <2>1 DEF WriterDrops
<1>5. CASE Hello \/ SendReplay \/ ReadFails \/ Publish
  <2>1. connector.fd \in Fds
    BY <1>5, ConnectedConnector DEF TypeOK, Hello, SendReplay, ReadFails, Publish
  <2>2. Hello \/ SendReplay => Head(connector.todo) \in Frame
    BY ConnectedConnector DEF TypeOK, Hello, SendReplay
  <2>3. CASE Hello
    BY <1>a, <1>c, <1>3, <2>1, <2>2, <2>3, FrameEffect DEF Hello
  <2>4. CASE SendReplay
    BY <1>a, <1>c, <2>1, <2>2, <2>4, FrameEffect DEF SendReplay
  <2>5. CASE ReadFails
    BY <1>c, <1>3, <2>1, <2>5 DEF ReadFails
  <2>6. CASE Publish
    BY <1>a, <1>c, <1>3, <2>6 DEF Publish
  <2> QED BY <1>5, <2>3, <2>4, <2>5, <2>6
<1>6. CASE WriterNotCreated \/ ShutdownWakes
  BY <1>a, <1>c, <1>3, <1>6 DEF WriterNotCreated, ShutdownWakes, DropClient
<1>7. ASSUME NEW d \in Fds, Connect(d) PROVE Made'
  <2>1. made' = made + 1 /\ made + 1 \in Conns /\ UNCHANGED java
        /\ conns' = [conns EXCEPT ![made + 1] = Opened]
    BY <1>7 DEF Connect
  <2>2. made \in Nat
    BY <1>a, <1>b
  <2>3. \A c \in Conns : c > made' => c > made /\ c # made + 1
    BY <1>b, <2>1, <2>2
  <2>4. made + 1 > made
    BY <2>2
  <2>5. java.conn # NoConn => java.conn # made + 1 /\ java.conn \in Conns
    BY <1>a, <2>1, <2>4 DEF Made, Java
  <2> QED BY <1>a, <2>1, <2>3, <2>5 DEF Made
<1>8. CASE RouteStart \/ RouteStop
  <2>1. UNCHANGED <<conns, made>> /\ java'.conn = java.conn
    BY <1>a, <1>8 DEF RouteStart, RouteStop, Java
  <2> QED BY <2>1 DEF Made
<1>9. CASE JavaDies
  <2>1. \A c \in Conns : conns'[c].peer = "closed"
    BY <1>a, <1>9 DEF JavaDies, Conn
  <2> QED BY <1>9, <2>1 DEF JavaDies, Made
<1>10. ASSUME NEW e \in Conns, JavaAccepts(e) PROVE Made'
  <2>1. /\ conns' = [conns EXCEPT ![e].peer = "open"] /\ made' = made
        /\ conns[e].peer = "pending" /\ java'.conn = e
    BY <1>a, <1>10 DEF JavaAccepts, Java
  <2>2. conns'[e].peer = "open" /\ \A c \in Conns \ {e} : conns'[c] = conns[c]
    BY <1>a, <2>1 DEF Conn
  <2> QED BY <2>1, <2>2 DEF Made
<1>11. CASE JavaReads
  <2>1. java.conn \in Conns /\ java'.conn = java.conn /\ made' = made
        /\ conns' = [conns EXCEPT ![java.conn].wire = Tail(@)]
    BY <1>a, <1>11 DEF JavaReads, Java
  <2>2. \A c \in Conns : conns'[c].peer = conns[c].peer
    BY <1>a, <2>1 DEF Conn
  <2> QED BY <2>1, <2>2 DEF Made
<1>12. CASE JavaDrops
  <2>1. java.conn \in Conns /\ java'.conn = NoConn /\ made' = made
        /\ conns' = [conns EXCEPT ![java.conn].wire = <<>>,
                                  ![java.conn].peer = "closed"]
    BY <1>a, <1>12 DEF JavaDrops, Java
  <2>2. \A c \in Conns : conns'[c].peer \in {conns[c].peer, "closed"}
    BY <1>a, <2>1 DEF Conn
  <2> QED BY <2>1, <2>2 DEF Made
<1> QED
  BY <1>1, <1>2, <1>4, <1>5, <1>6, <1>7, <1>8, <1>9, <1>10, <1>11, <1>12
  DEF Next, Writer, Connector, Lifecycle, JavaIo

(* The writer takes the oldest frame first, so the latest is the last.     *)
LEMMA QueuedStep ==
  ASSUME TypeOK, Stages, LatestQueued, Next
  PROVE  LatestQueued'
<1>a. /\ bus \in Bus /\ bus.ring \in Seq(Frame) /\ writer \in WriterType
      /\ Capacity \in Nat \ {0}
  BY BusAssumption DEF TypeOK, Bus
<1>b. /\ InHand => Woken(writer) = writer
      /\ ~InHand => Woken(writer).stage \notin {"send", "failed"}
  BY DEF InHand, Woken
<1>c. ASSUME UNCHANGED lost, bus'.ring = bus.ring, bus'.last = bus.last,
             Working' => Working, writer' \in {writer, Woken(writer)}
      PROVE  LatestQueued'
  BY <1>b, <1>c DEF LatestQueued, InHand
<1>1. CASE BusSend
  <2> DEFINE v == sends + 1
  <2>1. CASE Full
    <3>1. bus'.ring = bus.ring /\ lost' /\ UNCHANGED writer
      BY <1>a, <1>1, <2>1 DEF BusSend, Cached, Bus
    <3> QED BY <3>1 DEF LatestQueued, InHand
  <2>2. CASE ~Full
    <3> DEFINE f == [kind |-> "live", value |-> v]
    <3>0. bus' = Enqueued(Cached(v), v)
      BY <1>1, <2>2 DEF BusSend
    <3>1. bus'.ring = Append(bus.ring, f) /\ bus'.last = v
      BY <1>a, <3>0 DEF Cached, Enqueued, Bus
    <3>2. f.kind = "live" /\ f.value = v
      OBVIOUS
    <3> HIDE DEF f, v
    <3>3. f \in Frame
      <4>1. sends + 1 \in 0..MaxSends
        BY <1>1, BusAssumption DEF BusSend, TypeOK
      <4> QED BY <4>1 DEF f, v, Frame
    <3>4. /\ DOMAIN bus'.ring = 1..(Len(bus.ring) + 1)
          /\ Len(bus'.ring) = Len(bus.ring) + 1
          /\ Len(bus.ring) \in Nat
          /\ DOMAIN bus.ring = 1..Len(bus.ring)
          /\ \A k \in DOMAIN bus.ring : bus'.ring[k] = bus.ring[k]
          /\ bus'.ring[Len(bus.ring) + 1] = f
      BY <1>a, <3>1, <3>3
    <3>5. bus'.ring # <<>>
      BY <3>4
    <3>6. \A k \in DOMAIN bus'.ring : bus'.ring[k].kind = "live"
      BY <3>2, <3>4 DEF LatestQueued
    <3>7. InHand' => writer'.frame.kind = "live"
      <4>1. writer' = Woken(writer)
        BY <1>1, <2>2 DEF BusSend
      <4> QED BY <1>b, <4>1 DEF LatestQueued, InHand
    <3>8. bus'.ring[Len(bus'.ring)].value = bus'.last
      BY <3>1, <3>2, <3>4
    <3> QED BY <3>5, <3>6, <3>7, <3>8 DEF LatestQueued
  <2> QED BY <2>1, <2>2
<1>2. CASE WriterTakes
  <2>1. CASE writer'.stage \in {"gone", "asleep"} /\ UNCHANGED bus
    BY <1>2, <2>1 DEF WriterTakes, LatestQueued, InHand, Working
  <2>2. CASE /\ bus.ring # <<>> /\ writer'.frame = Head(bus.ring)
             /\ bus' = [bus EXCEPT !.ring = Tail(@)]
    <3> DEFINE r == bus.ring
               s == bus'.ring
    <3>1. s = Tail(r) /\ bus'.last = bus.last /\ UNCHANGED <<life, lost>>
      BY <1>a, <1>2, <2>2 DEF WriterTakes, Bus
    <3>2. /\ Len(r) \in Nat \ {0} /\ Len(s) = Len(r) - 1 /\ Head(r) = r[1]
          /\ DOMAIN r = 1..Len(r) /\ DOMAIN s = 1..(Len(r) - 1)
          /\ \A k \in DOMAIN s : s[k] = r[k + 1]
      BY <1>a, <2>2, <3>1
    <3>3. s # <<>> => Len(s) > 0
      BY <1>a, <3>1, <3>2
    <3> HIDE DEF r, s
    <3>4. \A k \in DOMAIN s : s[k].kind = "live"
      BY <3>2 DEF LatestQueued, r
    <3>5. writer'.frame = r[1] /\ r[1].kind = "live"
      BY <2>2, <3>2 DEF LatestQueued, r
    <3>6. s # <<>> => s[Len(s)] = r[Len(r)]
      BY <3>2, <3>3
    <3>7. s = <<>> => r[1] = r[Len(r)]
      BY <3>2
    <3>8. Working /\ ~lost => r[Len(r)].value = bus.last
      BY <2>2 DEF LatestQueued, r
    <3> QED BY <3>1, <3>4, <3>5, <3>6, <3>7, <3>8 DEF LatestQueued, Working, s
  <2> QED BY <1>2, <2>1, <2>2 DEF WriterTakes
<1>3. CASE WriterSends
  <2>1. UNCHANGED <<life, lost, bus>> /\ InHand
    BY <1>3 DEF WriterSends, InHand
  <2>2. InHand' => writer'.frame = writer.frame
    BY <1>a, <1>3, SendingWriter DEF WriterSends, InHand
  <2> QED BY <2>1, <2>2 DEF LatestQueued, Working
<1>4. CASE WriterDrops
  <2>1. UNCHANGED <<life, lost>> /\ ~InHand' /\ bus'.ring = bus.ring
        /\ bus'.last = bus.last
    BY <1>a, <1>4 DEF WriterDrops, InHand, Bus
  <2> QED BY <2>1 DEF LatestQueued, Working
<1>5. CASE BusInit
  <2>1. bus'.ring = <<>> /\ bus'.last = bus.last /\ UNCHANGED <<writer, lost>>
    BY <1>a, <1>5 DEF BusInit, Bus
  <2>2. ~InHand
    BY <1>5 DEF BusInit, Stages, InHand
  <2> QED BY <2>1, <2>2 DEF LatestQueued, InHand
<1>6. CASE CreateThreads
  BY <1>6 DEF CreateThreads, LatestQueued, InHand, Working
<1>7. CASE ShutdownFrees
  <2>1. bus'.ring = <<>> /\ UNCHANGED writer /\ ~Working'
    BY <1>a, <1>7 DEF ShutdownFrees, Bus, Working
  <2> QED BY <2>1 DEF LatestQueued, InHand
<1>8. CASE \/ Connector \/ Timer \/ WriterNotCreated \/ Unwound \/ BusShutdown
           \/ ShutdownWakes \/ ShutdownDefers \/ RouteStart \/ RouteStop
           \/ JavaDies \/ JavaIo
  <2>1. CASE Connector
    BY <1>a, <1>c, <2>1 DEF Connector, Connect, Hello, Snapshot, SendReplay,
       Publish, LinkCheck, ReadFails, ConnectorLeaves, Bus, Working
  <2>2. CASE WriterNotCreated \/ ShutdownWakes
    BY <1>a, <1>c, <2>2 DEF WriterNotCreated, ShutdownWakes, DropClient, Bus,
       Working
  <2>3. CASE \/ Timer \/ BusShutdown \/ ShutdownDefers \/ RouteStart
             \/ RouteStop \/ JavaDies \/ JavaIo
    BY <1>c, <2>3 DEF Timer, TimerFires, TimerReturns, TimerLeaves,
       BusShutdown, ShutdownDefers, RouteStart, RouteStop, JavaDies, JavaIo,
       JavaAccepts, JavaReads, JavaDrops, Working
  <2>4. CASE Unwound
    BY <2>4 DEF Unwound, Stages
  <2> QED BY <1>8, <2>1, <2>2, <2>3, <2>4
<1> QED BY <1>1, <1>2, <1>3, <1>4, <1>5, <1>6, <1>7, <1>8
        DEF Next, Writer, Lifecycle
(* What holds no update goes on holding none.                              *)
LEMMA NoneAppended ==
  ASSUME NEW seq \in Seq(Frame), NEW g \in Frame, HasNone(seq), ~IsUpdate(g)
  PROVE  HasNone(Append(seq, g))
BY DEF HasNone

LEMMA NoneLeft ==
  ASSUME NEW seq \in Seq(Frame), seq # <<>>, HasNone(seq)
  PROVE  ~IsUpdate(Head(seq)) /\ HasNone(Tail(seq))
<1>1. /\ Len(seq) \in Nat \ {0} /\ DOMAIN seq = 1..Len(seq)
      /\ Head(seq) = seq[1]
      /\ DOMAIN Tail(seq) = 1..(Len(seq) - 1)
      /\ \A k \in DOMAIN Tail(seq) : Tail(seq)[k] = seq[k + 1]
  OBVIOUS
<1> QED BY <1>1 DEF HasNone

LEMMA SentNone ==
  ASSUME Links, NEW d \in Fds, NEW f \in Frame, ~IsUpdate(f),
         FrameSent(d, f) \/ FrameFails(d, f),
         NEW c \in Conns, HasNone(conns[c].wire)
  PROVE  HasNone(conns'[c].wire)
<1>1. conns[c].wire \in Seq(Frame)
  BY DEF Links, Conn
<1>2. \/ conns'[c] = conns[c]
      \/ \E g \in Frame : /\ g = f \/ g.kind = "cut"
                          /\ conns'[c].wire = Append(conns[c].wire, g)
  BY FrameEffect
<1>3. CASE conns'[c] = conns[c]
  BY <1>3
<1>4. ASSUME NEW g \in Frame, g = f \/ g.kind = "cut",
             conns'[c].wire = Append(conns[c].wire, g)
      PROVE  HasNone(conns'[c].wire)
  <2>1. ~IsUpdate(g)
    BY <1>4 DEF IsUpdate
  <2> QED BY <1>1, <1>4, <2>1, NoneAppended
<1> QED BY <1>2, <1>3, <1>4

(* The connector's other steps end a greeting, or come after it.           *)
LEMMA LeavesGreeting ==
  ASSUME connector \in ConnectorType,
         Publish \/ LinkCheck \/ ReadFails \/ ConnectorLeaves
  PROVE  ~Greeting'
<1>1. connector.stage \in {"replay", "link", "read"}
      => connector \in [stage : {"hello", "snapshot", "replay", "link",
                                "read"}, fd : Fds, todo : Seq(Frame)]
  BY ConnectedConnector
<1>2. CASE Publish
  BY <1>1, <1>2 DEF Publish, Greeting
<1>3. CASE LinkCheck
  <2>1. CASE connector' = [stage |-> "connect"]
    BY <2>1 DEF Greeting
  <2>2. CASE connector' = [connector EXCEPT !.stage = "read"]
    BY <1>1, <1>3, <2>2 DEF LinkCheck, Greeting
  <2> QED BY <1>3, <2>1, <2>2 DEF LinkCheck
<1>4. CASE ReadFails \/ ConnectorLeaves
  BY <1>4 DEF ReadFails, ConnectorLeaves, Greeting
<1> QED BY <1>2, <1>3, <1>4

(* Before the first update there is none anywhere.                         *)
LEMMA NothingStep ==
  ASSUME TypeOK, Stages, NothingYet, Next
  PROVE  NothingYet'
<1>a. /\ bus \in Bus /\ writer \in WriterType /\ connector \in ConnectorType
      /\ Links /\ conns \in [Conns -> Conn] /\ java \in Java
      /\ bus.client_fd \in Fds \cup {NoFd}
  BY DEF TypeOK, Links, Bus
<1>b. Greeting => connector.fd \in Fds /\ connector.todo \in Seq(Frame)
  BY <1>a, ConnectedConnector DEF Greeting
<1> SUFFICES ASSUME Working', bus'.last = 0
             PROVE  /\ heard' = 0 /\ bus'.ring = <<>> /\ ~InHand'
                    /\ \A c \in Conns : HasNone(conns'[c].wire)
                    /\ Greeting' => HasNone(connector'.todo)
  BY DEF NothingYet, HasNone
<1>d. ~InHand => Woken(writer).stage \notin {"send", "failed"}
  BY DEF InHand, Woken
<1>e. ~InHand /\ writer' \in {writer, Woken(writer)} => ~InHand'
  BY <1>d DEF InHand
<1>1. CASE BusSend
  <2>1. bus'.last = sends + 1
    BY <1>a, <1>1 DEF BusSend, Cached, Enqueued, Bus
  <2> QED BY <2>1 DEF TypeOK
<1>2. CASE Writer
  <2>1. life' = life /\ UNCHANGED <<heard, connector>> /\ bus'.last = bus.last
    BY <1>a, <1>2 DEF Writer, WriterTakes, WriterSends, WriterDrops, Bus
  <2>2. /\ Working /\ heard = 0 /\ bus.ring = <<>> /\ ~InHand
        /\ \A c \in Conns : HasNone(conns[c].wire)
        /\ Greeting => HasNone(connector.todo)
    BY <2>1 DEF NothingYet, Working
  <2>3. WriterTakes /\ bus' = bus /\ conns' = conns /\ ~InHand'
    BY <1>2, <2>2 DEF Writer, WriterTakes, WriterSends, WriterDrops, InHand
  <2> QED BY <2>1, <2>2, <2>3 DEF Greeting
<1>3. CASE Connector
  <2>1. /\ life' = life /\ heard' = heard /\ bus'.last = bus.last
        /\ bus'.ring = bus.ring /\ writer' \in {writer, Woken(writer)}
    BY <1>a, <1>3 DEF Connector, Connect, Hello, Snapshot, SendReplay, Publish,
                      LinkCheck, ReadFails, ConnectorLeaves, Bus
  <2>2. /\ Working /\ heard' = 0 /\ bus'.ring = <<>> /\ ~InHand'
        /\ \A c \in Conns : HasNone(conns[c].wire)
        /\ Greeting => HasNone(connector.todo)
    BY <1>e, <2>1 DEF NothingYet, Working
  <2>3. ASSUME \A c \in Conns : HasNone(conns'[c].wire),
               Greeting' => HasNone(connector'.todo)
        PROVE  /\ heard' = 0 /\ bus'.ring = <<>> /\ ~InHand'
               /\ \A c \in Conns : HasNone(conns'[c].wire)
               /\ Greeting' => HasNone(connector'.todo)
    BY <2>2, <2>3
  <2>4. ASSUME NEW d \in Fds, Closing(d)
        PROVE  \A c \in Conns : HasNone(conns'[c].wire)
    BY <1>a, <2>2, <2>4, ClosingEffect
  <2>5. ASSUME NEW d \in Fds, Connect(d)
        PROVE  /\ \A c \in Conns : HasNone(conns'[c].wire)
               /\ Greeting' => HasNone(connector'.todo)
    <3>1. conns' = [conns EXCEPT ![made + 1] = Opened]
          /\ connector'.todo = <<Bare("hello")>>
      BY <2>5 DEF Connect
    <3>2. HasNone(Opened.wire)
      BY DEF Opened, HasNone
    <3>3. \A c \in Conns : conns'[c] \in {conns[c], Opened}
      BY <1>a, <3>1
    <3>4. HasNone(<<Bare("hello")>>)
      BY DEF HasNone, IsUpdate, Bare
    <3> QED BY <2>2, <3>1, <3>2, <3>3, <3>4
  <2>6. CASE Hello
    <3>1. connector.fd \in Fds /\ connector.todo \in Seq(Frame)
          /\ connector.todo # <<>> /\ HasNone(connector.todo)
      BY <1>b, <2>2, <2>6 DEF Hello, Greeting
    <3>2. Head(connector.todo) \in Frame /\ ~IsUpdate(Head(connector.todo))
      BY <3>1, NoneLeft
    <3>3. CASE FrameSent(connector.fd, Head(connector.todo))
               /\ connector' = [connector EXCEPT !.stage = "snapshot",
                                                 !.todo = <<>>]
      <4>1. \A c \in Conns : HasNone(conns'[c].wire)
        BY <1>a, <2>2, <3>1, <3>2, <3>3, SentNone
      <4>2. connector'.todo = <<>>
        BY <1>a, <2>6, <3>3, ConnectedConnector DEF Hello
      <4>3. HasNone(<<>>)
        BY DEF HasNone
      <4> QED BY <2>3, <4>1, <4>2, <4>3
    <3>4. CASE Closing(connector.fd) /\ connector' = [stage |-> "connect"]
      BY <2>3, <2>4, <3>1, <3>4 DEF Greeting
    <3> QED BY <2>6, <3>3, <3>4 DEF Hello
  <2>7. CASE Snapshot
    <3>1. bus.last = 0 /\ conns' = conns /\ connector'.todo = Replay(bus)
      BY <1>a, <2>1, <2>7, ConnectedConnector DEF Snapshot
    <3>2. HasNone(Replay(bus))
      BY <3>1 DEF Replay, HasNone, Bare, IsUpdate
    <3> QED BY <2>2, <2>3, <3>1, <3>2
  <2>8. CASE SendReplay
    <3>1. connector.fd \in Fds /\ connector.todo \in Seq(Frame)
          /\ connector.todo # <<>> /\ HasNone(connector.todo)
      BY <1>b, <2>2, <2>8 DEF SendReplay, Greeting
    <3>2. Head(connector.todo) \in Frame /\ ~IsUpdate(Head(connector.todo))
          /\ HasNone(Tail(connector.todo))
      BY <3>1, NoneLeft
    <3>3. connector'.todo = Tail(connector.todo)
      BY <1>a, <2>8, ConnectedConnector DEF SendReplay
    <3>4. \A c \in Conns : HasNone(conns'[c].wire)
      BY <1>a, <2>2, <2>8, <3>1, <3>2, SentNone DEF SendReplay
    <3> QED BY <2>3, <3>2, <3>3, <3>4
  <2>9. CASE Publish \/ ReadFails \/ LinkCheck \/ ConnectorLeaves
    <3>1. connector.stage \in {"replay", "link", "read"}
          => connector.fd \in Fds
      BY <1>a, ConnectedConnector
    <3>2. ~Greeting'
      BY <1>a, <2>9, LeavesGreeting
    <3>3. conns' = conns \/ \E d \in Fds : Closing(d)
      BY <1>a, <2>9, <3>1 DEF Publish, ReadFails, LinkCheck, ConnectorLeaves
    <3> QED BY <2>2, <2>3, <2>4, <3>2, <3>3
  <2> QED BY <1>3, <2>3, <2>5, <2>6, <2>7, <2>8, <2>9 DEF Connector
<1>4. CASE Timer
  <2>1. /\ life' = life /\ heard' = heard /\ bus' = bus /\ writer' = writer
        /\ conns' = conns /\ connector' = connector
    BY <1>4 DEF Timer, TimerFires, TimerReturns, TimerLeaves
  <2> QED BY <2>1 DEF NothingYet, Working, InHand, Greeting
<1>5. CASE Lifecycle \/ BusShutdown
  <2>1. CASE BusInit
    <3>1. /\ life = "off" /\ heard' = heard /\ bus'.last = bus.last
          /\ bus'.ring = <<>> /\ writer' = writer /\ conns' = conns
          /\ connector' = [stage |-> "connect"]
      BY <1>a, <2>1 DEF BusInit, Bus
    <3>2. ~Greeting'
      BY <3>1 DEF Greeting
    <3> QED BY <3>1, <3>2 DEF NothingYet, Working, InHand
  <2>2. CASE CreateThreads
    <3>1. /\ life = "creating" /\ heard' = heard /\ bus' = bus
          /\ writer' = [stage |-> "check"] /\ conns' = conns
          /\ connector' = connector
      BY <2>2 DEF CreateThreads
    <3>2. ~InHand'
      BY <3>1 DEF InHand
    <3> QED BY <3>1, <3>2 DEF NothingYet, Working, Greeting
  <2>3. ~(Unwound /\ Working')
    BY DEF Unwound, Stages
  <2>4. ~(WriterNotCreated \/ ShutdownWakes \/ ShutdownFrees \/ ShutdownDefers
          \/ BusShutdown)
    BY DEF WriterNotCreated, ShutdownWakes, ShutdownFrees, ShutdownDefers,
           BusShutdown, Working
  <2> QED BY <1>5, <2>1, <2>2, <2>3, <2>4 DEF Lifecycle
<1>6. CASE RouteStart \/ RouteStop \/ JavaDies \/ JavaIo
  <2>1. /\ life' = life /\ bus' = bus /\ writer' = writer
        /\ connector' = connector
    BY <1>6 DEF RouteStart, RouteStop, JavaDies, JavaIo, JavaAccepts,
       JavaReads, JavaDrops
  <2>2. /\ heard = 0 /\ bus'.ring = <<>> /\ ~InHand'
        /\ \A c \in Conns : HasNone(conns[c].wire)
        /\ Greeting' => HasNone(connector'.todo)
    BY <2>1 DEF NothingYet, Working, InHand, Greeting
  <2>3. ASSUME NEW c \in Conns PROVE HasNone(conns'[c].wire)
    <3>1. conns[c].wire \in Seq(Frame)
      BY <1>a DEF Conn
    <3>2. HasNone(<<>>)
      BY DEF HasNone
    <3> QED BY <1>6, <2>2, <3>1, <3>2, JavaEffect, NoneLeft
  <2>4. heard' = 0
    <3>1. CASE JavaReads
      <4>1. java.conn \in Conns /\ conns[java.conn].wire # <<>>
        BY <1>a, <3>1 DEF JavaReads, Java
      <4>2. conns[java.conn].wire \in Seq(Frame)
        BY <1>a, <4>1 DEF Conn
      <4>3. ~IsUpdate(Head(conns[java.conn].wire))
        BY <2>2, <4>1, <4>2, NoneLeft
      <4> QED BY <2>2, <3>1, <4>3 DEF JavaReads, IsUpdate
    <3>2. CASE ~JavaReads
      BY <1>6, <2>2, <3>2 DEF RouteStart, RouteStop, JavaDies, JavaIo,
         JavaAccepts, JavaDrops
    <3> QED BY <3>1, <3>2
  <2> QED BY <2>2, <2>3, <2>4
<1> QED BY <1>1, <1>2, <1>3, <1>4, <1>5, <1>6 DEF Next
LEMMA RemainsTail ==
  ASSUME NEW v \in 0..MaxSends, NEW seq \in Remains(v), seq # <<>>
  PROVE  Tail(seq) \in Remains(v) /\ Len(Tail(seq)) = Len(seq) - 1
<1> DEFINE b == Bare("begin")
           e == Bare("end")
           l == Last(v)
<1>1. Remains(v) = {<<>>, <<e>>, <<l, e>>, <<b, l, e>>, <<b, e>>}
  BY DEF Remains
<1> HIDE DEF b, e, l
<1>2. CASE seq = <<e>>
  BY <1>1, <1>2
<1>3. CASE seq = <<l, e>>
  <2>1. Tail(seq) = <<e>>
    BY <1>3
  <2> QED BY <1>1, <1>3, <2>1
<1>4. CASE seq = <<b, l, e>>
  <2>1. Tail(seq) = <<l, e>>
    BY <1>4
  <2> QED BY <1>1, <1>4, <2>1
<1>5. CASE seq = <<b, e>>
  <2>1. Tail(seq) = <<e>>
    BY <1>5
  <2> QED BY <1>1, <1>5, <2>1
<1> QED BY <1>1, <1>2, <1>3, <1>4, <1>5

LEMMA ReplayRemains ==
  ASSUME bus \in Bus
  PROVE  Replay(bus) \in Remains(bus.last) /\ Len(Replay(bus)) <= 3
<1> DEFINE b == Bare("begin")
           e == Bare("end")
           l == Last(bus.last)
<1>1. Remains(bus.last) = {<<>>, <<e>>, <<l, e>>, <<b, l, e>>, <<b, e>>}
  BY DEF Remains
<1>2. Replay(bus) = IF bus.last = 0 THEN <<b, e>> ELSE <<b, l, e>>
  BY DEF Replay, Last
<1> HIDE DEF b, e, l
<1> QED BY <1>1, <1>2

(* The connection that is greeted does not fill up under the greeting.     *)
LEMMA FitsStep ==
  ASSUME TypeOK, Owners, Stages, OneLink, GreetingFits, Next
  PROVE  GreetingFits'
<1>a. /\ bus \in Bus /\ writer \in WriterType /\ connector \in ConnectorType
      /\ Links /\ conns \in [Conns -> Conn] /\ java \in Java
      /\ bus.client_fd \in Fds \cup {NoFd} /\ NoFd \notin Fds
  BY BusAssumption DEF TypeOK, Links, Bus
<1>b. Greeting => /\ connector.fd \in Fds /\ connector.todo \in Seq(Frame)
                  /\ fds[connector.fd] \in Conns
                  /\ connector.fd # bus.client_fd
                  /\ Len(conns[fds[connector.fd]].wire) \in Nat
                  /\ Len(connector.todo) \in Nat
                  /\ connector \in [stage : {"hello", "snapshot", "replay",
                              "link", "read"}, fd : Fds, todo : Seq(Frame)]
  <2> SUFFICES ASSUME Greeting
               PROVE  /\ connector.fd \in Fds /\ connector.todo \in Seq(Frame)
                      /\ fds[connector.fd] \in Conns
                      /\ connector.fd # bus.client_fd
                      /\ conns[fds[connector.fd]].wire \in Seq(Frame)
                      /\ connector \in [stage : {"hello", "snapshot", "replay",
                              "link", "read"}, fd : Fds, todo : Seq(Frame)]
    OBVIOUS
  <2>1. connector.fd \in Fds /\ connector.todo \in Seq(Frame)
        /\ connector \in [stage : {"hello", "snapshot", "replay",
                              "link", "read"}, fd : Fds, todo : Seq(Frame)]
    BY <1>a, ConnectedConnector DEF Greeting
  <2>2. fds[connector.fd] \in Conns /\ connector.fd # bus.client_fd
    BY <1>a, <2>1 DEF Owners, Links
  <2> QED BY <1>a, <2>1, <2>2 DEF Conn
<1>c. Held \in 0..1 /\ Held' \in 0..1
  BY DEF Held
<1>d. ~Greeting' => GreetingFits'
  BY DEF Greeting, GreetingFits
<1>e. ASSUME Working' => Working, connector' = connector, Greeting,
             fds'[connector.fd] = fds[connector.fd],
             Len(conns'[fds[connector.fd]].wire) \in Nat,
             Len(conns'[fds[connector.fd]].wire) + Held' <= Waiting,
             bus'.ring = <<>> /\ ~lost' /\ bus'.last # 0
               => bus.ring = <<>> /\ ~lost /\ bus'.last = bus.last
      PROVE  GreetingFits'
  <2>1. Waiting' <= Waiting /\ Waiting \in Nat /\ Waiting' \in Nat
    BY SMTT(30), <1>b, <1>c, <1>e DEF Waiting
  <2> HIDE DEF Waiting
  <2>2. connector.stage = "replay" =>
          Waiting' + Len(connector.todo) <= Waiting + Len(connector.todo)
    BY <1>b, <1>e, <2>1
  <2>3. CASE connector.stage = "replay" /\ Working'
    <3>1. Waiting' + Len(connector.todo) <= 5
      BY <1>b, <1>e, <2>1, <2>3 DEF GreetingFits
    <3>2. PICK v \in 0..MaxSends :
            /\ connector.todo \in Remains(v)
            /\ bus.ring = <<>> /\ ~lost /\ bus.last # 0 => v = bus.last
      BY <1>e, <2>3 DEF GreetingFits
    <3>3. bus'.ring = <<>> /\ ~lost' /\ bus'.last # 0 => v = bus'.last
      BY <1>e, <3>2
    <3>4. connector'.todo \in Remains(v)
      BY <1>e, <3>2
    <3> QED BY <1>e, <2>3, <3>1, <3>3, <3>4 DEF GreetingFits
  <2>4. CASE connector.stage # "replay"
    BY <1>e, <2>1, <2>4 DEF GreetingFits
  <2> QED BY <2>3, <2>4 DEF GreetingFits
<1>f. ASSUME Working' => Working, connector' = connector, fds' = fds,
             conns' = conns, writer' \in {writer, Woken(writer)},
             bus'.ring = <<>> /\ ~lost' /\ bus'.last # 0
               => bus.ring = <<>> /\ ~lost /\ bus'.last = bus.last
      PROVE  GreetingFits'
  <2>1. CASE Greeting
    <3>1. Held' = Held
      BY <1>f DEF Held, Woken
    <3> QED BY <1>b, <1>c, <1>e, <1>f, <2>1, <3>1 DEF Waiting
  <2>2. CASE ~Greeting
    BY <1>d, <1>f, <2>2 DEF Greeting
  <2> QED BY <2>1, <2>2
<1>1. CASE BusSend
  <2>1. /\ UNCHANGED <<connector, fds, conns>> /\ (Working' => Working)
        /\ writer' \in {writer, Woken(writer)}
    BY <1>1 DEF BusSend, Working
  <2>2. ~(bus'.ring = <<>> /\ ~lost')
    <3>1. CASE Full
      BY <1>1, <3>1 DEF BusSend
    <3>2. CASE ~Full
      <4>1. bus' = Enqueued(Cached(sends + 1), sends + 1)
        BY <1>1, <3>2 DEF BusSend
      <4>2. bus'.ring = Append(bus.ring, [kind |-> "live",
                                          value |-> sends + 1])
        BY <1>a, <4>1 DEF Enqueued, Cached, Bus
      <4> QED BY <1>a, <4>2 DEF Bus
    <3> QED BY <3>1, <3>2
  <2> QED BY <1>f, <2>1, <2>2
<1>2. CASE Writer
  <2>1. /\ connector' = connector /\ (Working' => Working) /\ lost' = lost
        /\ bus'.last = bus.last /\ java' = java
    BY <1>a, <1>2 DEF Writer, WriterTakes, WriterSends, WriterDrops, Bus,
                      Working
  <2>2. CASE ~Greeting \/ ~Working'
    BY <1>d, <2>1, <2>2 DEF Greeting, GreetingFits
  <2>3. CASE Greeting /\ Working'
    <3>0. bus.client_fd = NoFd
      BY <2>1, <2>3 DEF OneLink, Greeting
    <3>1. CASE WriterTakes
      <4>1. bus' = bus /\ fds' = fds /\ conns' = conns /\ Held' = Held
        BY <3>0, <3>1 DEF WriterTakes, Held
      <4> QED BY <1>b, <1>c, <1>e, <2>1, <2>3, <4>1 DEF Waiting
    <3>2. CASE WriterSends
      <4>1. writer.fd \in Fds /\ writer.frame \in Frame /\ Held = 1
            /\ Held' = 0 /\ bus' = bus /\ fds' = fds
        <5>1. /\ writer.fd \in Fds /\ writer.frame \in Frame
              /\ writer \in [stage : {"send", "failed"}, frame : Frame,
                             fd : Fds, gen : Nat, conn : Conns \cup {NoConn}]
          BY <1>a, <3>2, SendingWriter DEF WriterSends
        <5>2. Held' = 0
          BY <3>2, <5>1 DEF WriterSends, Held
        <5> QED BY <3>2, <5>1, <5>2 DEF WriterSends, Held
      <4> DEFINE c == fds[connector.fd]
      <4>2. c \in Conns /\ conns[c].wire \in Seq(Frame)
        BY <1>a, <1>b, <2>3 DEF Conn
      <4>4. Len(conns'[c].wire) \in Nat
            /\ Len(conns'[c].wire) <= Len(conns[c].wire) + 1
            /\ Len(conns[c].wire) \in Nat
        <5>1. FrameSent(writer.fd, writer.frame)
              \/ FrameFails(writer.fd, writer.frame)
          BY <3>2 DEF WriterSends
        <5> QED BY <1>a, <4>1, <4>2, <5>1, WireGrows
      <4>5. Len(conns'[c].wire) + Held' <= Waiting
        BY <4>1, <4>4 DEF Waiting
      <4> QED BY <1>e, <2>1, <2>3, <4>1, <4>4, <4>5
    <3>3. CASE WriterDrops
      <4>1. writer.fd \in Fds /\ Held = 0 /\ Held' = 0 /\ bus'.ring = bus.ring
        <5>1. writer.fd \in Fds
          BY <1>a, <3>3, SendingWriter DEF WriterDrops
        <5> QED BY <1>a, <3>3, <5>1 DEF WriterDrops, Held, Bus
      <4>2. fds' = fds /\ conns' = conns
        BY <1>a, <3>0, <3>3, <4>1 DEF WriterDrops, SameConnection
      <4> QED BY <1>b, <1>c, <1>e, <2>1, <2>3, <4>1, <4>2 DEF Waiting
    <3> QED BY <1>2, <3>1, <3>2, <3>3 DEF Writer
  <2> QED BY <2>2, <2>3
<1>3. ASSUME NEW d \in Fds, Connect(d) PROVE GreetingFits'
  <2>1. /\ connector' = [stage |-> "hello", fd |-> d,
                         todo |-> <<Bare("hello")>>]
        /\ fds' = [fds EXCEPT ![d] = made + 1] /\ made + 1 \in Conns
        /\ conns' = [conns EXCEPT ![made + 1] = Opened]
    BY <1>3 DEF Connect
  <2>2. conns'[fds'[connector'.fd]].wire = <<>>
    BY <1>a, <2>1 DEF Links, Opened
  <2>3. Waiting' <= 1
    BY <1>c, <2>2 DEF Waiting
  <2> QED BY <2>1, <2>3 DEF GreetingFits
<1>4. CASE Hello
  <2>1. CASE /\ FrameSent(connector.fd, Head(connector.todo))
             /\ connector' = [connector EXCEPT !.stage = "snapshot",
                                               !.todo = <<>>]
             /\ UNCHANGED fds
    <3>0. Greeting /\ connector.stage = "hello" /\ Head(connector.todo) \in Frame
      BY <1>4, <1>b DEF Hello, Greeting
    <3> DEFINE c == fds[connector.fd]
    <3>1. c \in Conns /\ conns[c].wire \in Seq(Frame)
      BY <1>a, <1>b, <3>0 DEF Conn
    <3>3. Len(conns'[c].wire) \in Nat
          /\ Len(conns'[c].wire) <= Len(conns[c].wire) + 1
          /\ Len(conns[c].wire) \in Nat
      BY <1>a, <1>b, <2>1, <3>0, <3>1, WireGrows
    <3>4. Held' = Held /\ fds' = fds /\ (Working' => Working)
      BY <1>4, <2>1 DEF Hello, Held, Working
    <3>5. connector'.stage = "snapshot" /\ connector'.fd = connector.fd
      BY <1>b, <2>1, <3>0
    <3>6. Waiting' <= Waiting + 1 /\ Waiting \in Nat /\ Waiting' \in Nat
      <4>1. Waiting = Len(conns[c].wire) + Held
        BY DEF Waiting
      <4>2. Waiting' = Len(conns'[c].wire) + Held
        BY <3>4, <3>5 DEF Waiting
      <4> DEFINE m == Len(conns[c].wire)
                 n == Len(conns'[c].wire)
      <4>3. m \in Nat /\ n \in Nat /\ n <= m + 1
        BY <3>3
      <4>4. Waiting = m + Held /\ Waiting' = n + Held
        BY <4>1, <4>2
      <4> HIDE DEF m, n
      <4> QED BY <1>c, <4>3, <4>4
    <3>7. Working' => Waiting <= 1
      BY <3>0, <3>4 DEF GreetingFits
    <3>8. Working' => Waiting' <= 2
      BY <3>6, <3>7
    <3> QED BY <3>5, <3>8 DEF GreetingFits
  <2>2. CASE connector' = [stage |-> "connect"]
    BY <1>d, <2>2 DEF Greeting
  <2> QED BY <1>4, <2>1, <2>2 DEF Hello
<1>5. CASE Snapshot
  <2>1. /\ Greeting /\ connector.stage = "snapshot"
        /\ connector' = [connector EXCEPT !.stage = "replay",
                                          !.todo = Replay(bus)]
        /\ bus' = bus /\ fds' = fds /\ conns' = conns /\ lost' = lost
        /\ Held' = Held /\ (Working' => Working)
    BY <1>5 DEF Snapshot, Greeting, Held, Working
  <2>2. /\ connector'.stage = "replay" /\ connector'.fd = connector.fd
        /\ connector'.todo = Replay(bus)
    BY <1>b, <2>1
  <2>3. Waiting' = Waiting /\ Waiting \in Nat
    BY <1>b, <1>c, <2>1, <2>2 DEF Waiting
  <2>4. Replay(bus) \in Remains(bus.last) /\ Len(Replay(bus)) <= 3
        /\ Replay(bus) \in Seq(Frame)
    BY <1>a, ReplayRemains, ReplayType
  <2>5. Working' => Waiting' + Len(connector'.todo) <= 5
    <3>1. Working' => Waiting <= 2
      BY <2>1 DEF GreetingFits
    <3>2. Len(Replay(bus)) \in Nat
      BY <2>4
    <3> QED BY <2>2, <2>3, <2>4, <3>1, <3>2
  <2>6. bus.last \in 0..MaxSends /\ bus'.last = bus.last
    BY <1>a, <2>1 DEF Bus
  <2> QED BY <2>2, <2>4, <2>5, <2>6 DEF GreetingFits
<1>6. CASE SendReplay
  <2>1. /\ Greeting /\ connector.stage = "replay" /\ connector.todo # <<>>
        /\ connector' = [connector EXCEPT !.todo = Tail(@)]
        /\ bus' = bus /\ fds' = fds /\ lost' = lost
        /\ Held' = Held /\ (Working' => Working)
    BY <1>6 DEF SendReplay, Greeting, Held, Working
  <2>2. /\ connector'.stage = "replay" /\ connector'.fd = connector.fd
        /\ connector'.todo = Tail(connector.todo)
    BY <1>b, <2>1
  <2> DEFINE c == fds[connector.fd]
  <2>3. c \in Conns /\ conns[c].wire \in Seq(Frame)
        /\ Head(connector.todo) \in Frame
    BY <1>a, <1>b, <2>1 DEF Conn
  <2>4. FrameSent(connector.fd, Head(connector.todo))
        \/ FrameFails(connector.fd, Head(connector.todo))
    BY <1>6 DEF SendReplay
  <2>5. Len(conns'[c].wire) \in Nat
        /\ Len(conns'[c].wire) <= Len(conns[c].wire) + 1
        /\ Len(conns[c].wire) \in Nat
    BY <1>a, <1>b, <2>1, <2>3, <2>4, WireGrows
  <2>6. Waiting' <= Waiting + 1 /\ Waiting \in Nat /\ Waiting' \in Nat
    <3>1. Waiting = Len(conns[c].wire) + Held
      BY DEF Waiting
    <3>2. Waiting' = Len(conns'[c].wire) + Held
      BY <2>1, <2>2 DEF Waiting
    <3> DEFINE m == Len(conns[c].wire)
               n == Len(conns'[c].wire)
    <3>3. m \in Nat /\ n \in Nat /\ n <= m + 1
      BY <2>5
    <3>4. Waiting = m + Held /\ Waiting' = n + Held
      BY <3>1, <3>2
    <3> HIDE DEF m, n
    <3> QED BY <1>c, <3>3, <3>4
  <2>7. CASE Working'
    <3>1. PICK v \in 0..MaxSends :
            /\ connector.todo \in Remains(v)
            /\ bus.ring = <<>> /\ ~lost /\ bus.last # 0 => v = bus.last
      BY <2>1, <2>7 DEF GreetingFits
    <3>2. connector'.todo \in Remains(v)
          /\ Len(connector'.todo) = Len(connector.todo) - 1
      BY <2>1, <2>2, <3>1, RemainsTail
    <3>3. Waiting + Len(connector.todo) <= 5
      BY <2>1, <2>7 DEF GreetingFits
    <3>4. Waiting' + Len(connector'.todo) <= 5
      BY <1>b, <2>1, <2>6, <3>2, <3>3
    <3> QED BY <2>1, <2>2, <3>1, <3>2, <3>4 DEF GreetingFits
  <2> QED BY <2>7 DEF GreetingFits
<1>7. CASE Publish \/ LinkCheck \/ ReadFails \/ ConnectorLeaves
  BY <1>d, <1>7, LeavesGreeting, <1>a
<1>8. CASE Timer
  <2>1. /\ UNCHANGED <<connector, fds, conns, bus, lost>> /\ writer' = writer
        /\ (Working' => Working)
    BY <1>8 DEF Timer, TimerFires, TimerReturns, TimerLeaves, Working
  <2> QED BY <1>f, <2>1
<1>9. CASE Lifecycle \/ BusShutdown
  <2>1. CASE BusInit
    BY <1>d, <2>1 DEF BusInit, Greeting
  <2>2. CASE CreateThreads
    <3>1. /\ UNCHANGED <<connector, fds, conns, bus, lost>>
          /\ (Working' => Working) /\ Held = 0 /\ Held' = 0
      BY <2>2 DEF CreateThreads, Working, Held, Stages
    <3>2. CASE Greeting
      BY <1>b, <1>c, <1>e, <3>1, <3>2 DEF Waiting
    <3>3. CASE ~Greeting
      BY <1>d, <3>1, <3>3 DEF Greeting
    <3> QED BY <3>2, <3>3
  <2>3. ~Unwound
    BY DEF Unwound, Stages
  <2>4. CASE WriterNotCreated \/ ShutdownWakes \/ ShutdownFrees
             \/ ShutdownDefers \/ BusShutdown
    BY <2>4 DEF WriterNotCreated, ShutdownWakes, ShutdownFrees,
       ShutdownDefers, BusShutdown, Working, GreetingFits
  <2> QED BY <1>9, <2>1, <2>2, <2>3, <2>4 DEF Lifecycle
<1>10. CASE RouteStart \/ RouteStop \/ JavaDies \/ JavaIo
  <2>1. /\ life' = life /\ bus' = bus /\ writer' = writer /\ lost' = lost
        /\ connector' = connector /\ fds' = fds
    BY <1>10 DEF RouteStart, RouteStop, JavaDies, JavaIo, JavaAccepts,
       JavaReads, JavaDrops
  <2>2. (Working' => Working) /\ Held' = Held
    BY <2>1 DEF Working, Held
  <2>3. CASE ~Greeting
    BY <1>d, <2>1, <2>3 DEF Greeting
  <2>4. CASE Greeting
    <3> DEFINE c == fds[connector.fd]
    <3>1. c \in Conns
      BY <1>b, <2>4
    <3>3. Len(conns'[c].wire) \in Nat
          /\ Len(conns'[c].wire) <= Len(conns[c].wire)
          /\ Len(conns[c].wire) \in Nat
      BY <1>10, <3>1, WireShrinks
    <3>4. Len(conns'[c].wire) + Held' <= Waiting
      BY <1>c, <2>2, <3>3 DEF Waiting
    <3> QED BY <1>e, <2>1, <2>2, <2>4, <3>3, <3>4
  <2> QED BY <2>3, <2>4
<1> QED BY <1>1, <1>2, <1>3, <1>4, <1>5, <1>6, <1>7, <1>8, <1>9, <1>10
        DEF Next, Connector
(* bus_send leaves something to the writer, or has lost the update.        *)
LEMMA SendQueues ==
  ASSUME TypeOK, BusSend
  PROVE  bus'.ring # <<>> \/ lost'
<1>1. CASE Full
  BY <1>1 DEF BusSend
<1>2. CASE ~Full
  <2>1. bus' = Enqueued(Cached(sends + 1), sends + 1)
    BY <1>2 DEF BusSend
  <2>2. bus'.ring = Append(bus.ring, [kind |-> "live", value |-> sends + 1])
    BY <2>1 DEF Enqueued, Cached, TypeOK, Bus
  <2> QED BY <2>2 DEF TypeOK, Bus
<1> QED BY <1>1, <1>2

(* The writer's frame, and what is cut from it, is no older update.        *)
LEMMA WriterCarriesOn ==
  ASSUME TypeOK, LatestQueued, WriterSends, Working, bus.ring = <<>>, ~lost,
         NEW c \in Conns, Carries(c)
  PROVE  Carries(c)'
<1>1. /\ writer.fd \in Fds /\ writer.frame \in Frame /\ Links /\ InHand
      /\ UNCHANGED <<java, heard, bus>>
  BY SendingWriter DEF WriterSends, TypeOK, Links, InHand
<1>2. writer.frame.value = bus.last
  BY <1>1 DEF LatestQueued
<1>3. FrameSent(writer.fd, writer.frame) \/ FrameFails(writer.fd, writer.frame)
  BY DEF WriterSends
<1>4. /\ conns'[c].peer = conns[c].peer
      /\ \/ conns'[c] = conns[c]
         \/ \E g \in Frame : /\ g = writer.frame \/ g.kind = "cut"
                             /\ conns'[c].wire = Append(conns[c].wire, g)
  BY <1>1, <1>3, FrameEffect
<1>5. \/ conns'[c].wire = conns[c].wire
      \/ \E g \in Frame : /\ IsUpdate(g) => g.value = bus.last
                          /\ conns'[c].wire = Append(conns[c].wire, g)
  <2>1. \A g : g = writer.frame \/ g.kind = "cut"
               => (IsUpdate(g) => g.value = bus.last)
    BY <1>2 DEF IsUpdate
  <2> QED BY <1>4, <2>1
<1>6. bus'.last = bus.last
  BY <1>1
<1> QED BY <1>1, <1>4, <1>5, <1>6, CarriesOn

(* The update that is replayed gets out, or nobody is left to read it.     *)
LEMMA ReplayStep ==
  ASSUME TypeOK, Owners, Stages, OneLink, LatestQueued, GreetingFits,
         LatestReplayed, Next
  PROVE  LatestReplayed'
<1> SUFFICES ASSUME Working', connector'.stage = "replay", bus'.ring = <<>>,
                    ~lost', bus'.last # 0
             PROVE  (\E k \in DOMAIN connector'.todo :
                       IsUpdate(connector'.todo[k]))
                    \/ Carries(fds[connector.fd])'
  BY DEF LatestReplayed
<1> DEFINE Has(seq) == \E k \in DOMAIN seq : IsUpdate(seq[k])
<1>z. PICK c : c = fds[connector.fd]
  OBVIOUS
<1>a. /\ bus \in Bus /\ writer \in WriterType /\ connector \in ConnectorType
      /\ Links /\ conns \in [Conns -> Conn]
      /\ NoFd \notin Fds /\ NoConn \notin Conns
  BY BusAssumption DEF TypeOK, Links, NoConn, Conns
<1>b. ASSUME connector.stage = "replay", Working
      PROVE  /\ connector.fd \in Fds /\ c \in Conns /\ bus.client_fd = NoFd
             /\ connector.todo \in Seq(Frame)
             /\ connector \in [stage : {"hello", "snapshot", "replay", "link",
                                        "read"}, fd : Fds, todo : Seq(Frame)]
             /\ bus.ring = <<>> /\ ~lost /\ bus.last # 0
                  => Has(connector.todo) \/ Carries(c)
  <2>1. connector.fd \in Fds /\ connector.todo \in Seq(Frame)
        /\ connector \in [stage : {"hello", "snapshot", "replay", "link",
                                   "read"}, fd : Fds, todo : Seq(Frame)]
    BY <1>a, <1>b, ConnectedConnector
  <2>2. c \in Conns
    BY <1>a, <1>b, <1>z, <2>1 DEF Owners, Greeting, Links
  <2>3. bus.client_fd = NoFd
    BY <1>b DEF OneLink
  <2> QED BY <1>b, <1>z, <2>1, <2>2, <2>3 DEF LatestReplayed
<1>c. ASSUME connector'.fd = connector.fd, fds' = fds,
             Has(connector'.todo) \/ Carries(c)'
      PROVE  Has(connector'.todo) \/ Carries(fds[connector.fd])'
  <2>1. fds'[connector'.fd] = c
    BY <1>c, <1>z
  <2> QED BY <1>c, <2>1
<1>d. ASSUME UNCHANGED <<java, heard, conns>>, bus'.last = bus.last,
             NEW e \in Conns, Carries(e)
      PROVE  Carries(e)'
  BY <1>a, <1>d, CarriesOn
<1>1. CASE BusSend
  BY <1>1, SendQueues
<1>2. CASE Writer
  <2>1. /\ connector' = connector /\ Working /\ lost' = lost
        /\ bus'.last = bus.last /\ UNCHANGED <<java, heard>>
    BY <1>a, <1>2 DEF Writer, WriterTakes, WriterSends, WriterDrops, Bus,
                      Working
  <2>2. bus.client_fd = NoFd /\ c \in Conns
    BY <1>b, <2>1
  <2>3. WriterDrops => ~SameConnection
    BY <1>a, <2>2, SendingWriter DEF WriterDrops, SameConnection
  <2>4. bus' = bus /\ fds' = fds
    BY <1>2, <2>2, <2>3 DEF Writer, WriterTakes, WriterSends, WriterDrops
  <2>5. Has(connector.todo) \/ Carries(c)
    BY <1>b, <2>1, <2>4
  <2>6. CASE WriterSends
    <3>1. Carries(c) => Carries(c)'
      BY <2>1, <2>2, <2>4, <2>6, WriterCarriesOn
    <3> QED BY <1>c, <2>1, <2>4, <2>5, <3>1
  <2>7. CASE WriterTakes \/ WriterDrops
    <3>1. conns' = conns
      BY <2>3, <2>7 DEF WriterTakes, WriterDrops
    <3>2. Carries(c) => Carries(c)'
      BY <1>d, <2>1, <2>2, <3>1
    <3> QED BY <1>c, <2>1, <2>4, <2>5, <3>2
  <2> QED BY <1>2, <2>6, <2>7 DEF Writer
<1>3. ASSUME NEW d \in Fds, Connect(d) PROVE FALSE
  BY <1>3 DEF Connect
<1>4. CASE Hello
  <2>1. connector \in [stage : {"hello", "snapshot", "replay", "link", "read"},
                       fd : Fds, todo : Seq(Frame)]
    BY <1>4, <1>a, ConnectedConnector DEF Hello
  <2>2. CASE connector' = [connector EXCEPT !.stage = "snapshot",
                                            !.todo = <<>>]
    <3>1. connector'.stage = "snapshot"
      BY <2>1, <2>2
    <3> QED BY <3>1
  <2>3. CASE connector' = [stage |-> "connect"]
    BY <2>3
  <2> QED BY <1>4, <2>2, <2>3 DEF Hello
<1>5. CASE Snapshot
  <2>1. connector \in [stage : {"hello", "snapshot", "replay", "link", "read"},
                       fd : Fds, todo : Seq(Frame)]
    BY <1>5, <1>a, ConnectedConnector DEF Snapshot
  <2>2. connector'.todo = Replay(bus) /\ bus.last # 0
    BY <1>5, <2>1 DEF Snapshot
  <2>3. connector'.todo = <<Bare("begin"),
             [kind |-> "replay", value |-> bus.last], Bare("end")>>
    BY <2>2 DEF Replay
  <2>4. 2 \in DOMAIN connector'.todo /\ connector'.todo[2].kind = "replay"
    BY <2>3
  <2> QED BY <2>4 DEF IsUpdate
<1>6. CASE SendReplay
  <2>1. /\ connector.stage = "replay" /\ connector.todo # <<>> /\ Working
        /\ connector' = [connector EXCEPT !.todo = Tail(@)]
        /\ bus' = bus /\ fds' = fds /\ lost' = lost
        /\ UNCHANGED <<java, heard>>
    BY <1>6 DEF SendReplay, Working
  <2> DEFINE todo == connector.todo
             f == Head(todo)
  <2>2. /\ connector'.fd = connector.fd /\ connector'.todo = Tail(todo)
        /\ connector.fd \in Fds /\ c \in Conns /\ todo \in Seq(Frame)
        /\ Has(todo) \/ Carries(c)
    BY <1>b, <2>1
  <2>3. /\ Len(todo) \in Nat \ {0} /\ DOMAIN todo = 1..Len(todo)
        /\ f = todo[1] /\ f \in Frame
        /\ DOMAIN Tail(todo) = 1..(Len(todo) - 1)
        /\ \A k \in DOMAIN Tail(todo) : Tail(todo)[k] = todo[k + 1]
    BY <2>1, <2>2
  <2>4. FrameSent(connector.fd, f) \/ FrameFails(connector.fd, f)
    BY <1>6 DEF SendReplay
  <2>6. CASE IsUpdate(f)
    <3>1. PICK v \in 0..MaxSends : todo \in Remains(v) /\ v = bus.last
      BY <2>1 DEF GreetingFits
    <3>2. Len(todo) >= 2 /\ f = Last(v)
      <4>1. Bare("begin") # f /\ Bare("end") # f
        BY <2>6 DEF Bare, IsUpdate
      <4> DEFINE b == Bare("begin")
                 e == Bare("end")
                 l == Last(v)
      <4>2. todo \in {<<>>, <<e>>, <<l, e>>, <<b, l, e>>, <<b, e>>}
        BY <3>1 DEF Remains
      <4> HIDE DEF b, e, l
      <4>3. todo[1] # b /\ todo[1] # e
        BY <2>3, <4>1 DEF b, e
      <4>4. todo = <<l, e>>
        BY <2>1, <4>2, <4>3
      <4> QED BY <2>3, <4>4 DEF l
    <3>3. f.value = bus.last
      BY <3>1, <3>2 DEF Last
    <3>4. CASE FrameSent(connector.fd, f)
      <4>1. bus'.last = bus.last
        BY <2>1
      <4>2. Carries(c)'
        BY <1>a, <1>z, <2>2, <2>3, <2>6, <3>3, <3>4, <4>1, CarriesNow
      <4> QED BY <1>c, <2>1, <2>2, <4>2
    <3>5. CASE FrameFails(connector.fd, f)
      <4>1. conns[c].wire \in Seq(Frame) /\ Held \in 0..1
        BY <1>a, <2>2 DEF Conn, Held
      <4>2. Len(conns[c].wire) + Held + Len(todo) <= 5
        BY <1>z, <2>1 DEF GreetingFits, Waiting
      <4>3. Len(conns[c].wire) \in Nat /\ Len(conns[c].wire) <= 3
        <5> DEFINE m == Len(conns[c].wire)
                   n == Len(todo)
        <5>1. m \in Nat
          BY <4>1
        <5>2. n \in Nat /\ n >= 2
          BY <2>3, <3>2
        <5>3. m + Held + n <= 5
          BY <4>2
        <5> HIDE DEF m, n
        <5>4. m <= 3
          BY <4>1, <5>1, <5>2, <5>3
        <5> QED BY <5>1, <5>4 DEF m
      <4>4. PeerClosed(connector.fd)
        <5>1. InFlight(connector.fd) = Len(conns[c].wire)
          BY <1>a, <1>z, <2>2 DEF InFlight
        <5>2. ~(InFlight(connector.fd) >= Window)
          BY <4>3, <5>1, BusAssumption
        <5> QED BY <3>5, <5>2 DEF FrameFails, MayFail
      <4>5. conns' = conns /\ conns[c].peer = "closed"
        BY <1>a, <1>z, <2>2, <3>5, <4>4 DEF FrameFails, PeerClosed
      <4>6. Carries(c)'
        BY <4>5 DEF Carries
      <4> QED BY <1>c, <2>1, <2>2, <4>6
    <3> QED BY <2>4, <3>4, <3>5
  <2>7. CASE ~IsUpdate(f)
    <3>1. CASE Has(todo)
      <4>1. PICK k \in DOMAIN todo : IsUpdate(todo[k])
        BY <3>1
      <4>2. k - 1 \in DOMAIN Tail(todo) /\ Tail(todo)[k - 1] = todo[k]
        BY <2>3, <2>7, <4>1
      <4> QED BY <2>2, <4>1, <4>2
    <3>2. CASE Carries(c)
      <4>1. /\ conns'[c].peer = conns[c].peer
            /\ \/ conns'[c] = conns[c]
               \/ \E g \in Frame :
                    /\ g = f \/ g.kind = "cut"
                    /\ conns'[c].wire = Append(conns[c].wire, g)
        BY <1>a, <2>2, <2>3, <2>4, FrameEffect
      <4>2. \A g : g = f \/ g.kind = "cut" => ~IsUpdate(g)
        BY <2>7 DEF IsUpdate
      <4>3. \/ conns'[c].wire = conns[c].wire
            \/ \E g \in Frame :
                    /\ IsUpdate(g) => g.value = bus.last
                    /\ conns'[c].wire = Append(conns[c].wire, g)
        BY <4>1, <4>2
      <4>4. bus'.last = bus.last
        BY <2>1
      <4>5. Carries(c)'
        BY <1>a, <2>1, <2>2, <3>2, <4>1, <4>3, <4>4, CarriesOn
      <4> QED BY <1>c, <2>1, <2>2, <4>5
    <3> QED BY <2>2, <3>1, <3>2
  <2> QED BY <2>6, <2>7
<1>7. CASE Publish \/ LinkCheck \/ ReadFails \/ ConnectorLeaves
  BY <1>a, <1>7, LeavesGreeting DEF Greeting
<1>8. CASE Timer \/ CreateThreads
  <2>1. /\ UNCHANGED <<connector, fds, conns, bus, lost, java, heard>>
        /\ Working
    BY <1>8 DEF Timer, TimerFires, TimerReturns, TimerLeaves, CreateThreads,
                Working
  <2>2. (Has(connector.todo) \/ Carries(c)) /\ c \in Conns
    BY <1>b, <2>1
  <2>3. Carries(c) => Carries(c)'
    BY <1>d, <2>1, <2>2
  <2> QED BY <1>c, <2>1, <2>2, <2>3
<1>9. CASE BusInit
  BY <1>9 DEF BusInit
<1>10. ~Unwound
  BY DEF Unwound, Stages
<1>11. ~(WriterNotCreated \/ ShutdownWakes \/ ShutdownFrees \/ ShutdownDefers
         \/ BusShutdown)
  BY DEF WriterNotCreated, ShutdownWakes, ShutdownFrees, ShutdownDefers,
         BusShutdown, Working
<1>12. CASE RouteStart \/ RouteStop \/ JavaDies \/ JavaIo
  <2>1. /\ bus' = bus /\ lost' = lost /\ connector' = connector /\ fds' = fds
        /\ Working
    BY <1>12 DEF RouteStart, RouteStop, JavaDies, JavaIo, JavaAccepts,
       JavaReads, JavaDrops, Working
  <2>2. (Has(connector.todo) \/ Carries(c)) /\ c \in Conns
    BY <1>b, <2>1
  <2>3. Carries(c) => Carries(c)'
    BY <1>12, <2>2, CarriesRead
  <2> QED BY <1>c, <2>1, <2>2, <2>3
<1> QED BY <1>1, <1>2, <1>3, <1>4, <1>5, <1>6, <1>7, <1>8, <1>9, <1>10, <1>11,
           <1>12
        DEF Next, Connector, Lifecycle
(* On the current link the latest update is in the writer's hand, or the   *)
(* link carries it.                                                        *)
LEMMA SentStep ==
  ASSUME TypeOK, Owners, Stages, OneLink, LatestQueued, LatestReplayed,
         LatestSent, Next
  PROVE  LatestSent'
<1> SUFFICES ASSUME Working', connector'.stage \in {"link", "read"},
                    bus'.client_fd = connector'.fd, bus'.ring = <<>>, ~lost',
                    bus'.last # 0
             PROVE  (InHand /\ SameConnection)' \/ Carries(fds[connector.fd])'
  BY DEF LatestSent
<1>a. /\ bus \in Bus /\ writer \in WriterType /\ connector \in ConnectorType
      /\ Links /\ conns \in [Conns -> Conn]
      /\ NoFd \notin Fds /\ NoConn \notin Conns
  BY BusAssumption DEF TypeOK, Links, NoConn, Conns
<1>z. PICK c : c = fds[connector.fd]
  OBVIOUS
<1>b. connector.stage \in {"replay", "link", "read"} => connector.fd \in Fds
  BY <1>a, ConnectedConnector
<1>c. ASSUME connector.stage \in {"link", "read"}, Working,
             bus.client_fd = connector.fd
      PROVE  /\ c \in Conns
             /\ bus.ring = <<>> /\ ~lost /\ bus.last # 0
                  => (InHand /\ SameConnection) \/ Carries(c)
  <2>1. c \in Conns
    BY <1>a, <1>b, <1>c, <1>z DEF Owners, Links
  <2> QED BY <1>c, <1>z, <2>1 DEF LatestSent
<1>d. ASSUME UNCHANGED <<java, heard>>, bus'.last = bus.last,
             NEW e \in Conns, Carries(e),
             conns'[e].peer = conns[e].peer, conns'[e].wire = conns[e].wire
      PROVE  Carries(e)'
  BY <1>a, <1>d, CarriesOn
<1>e. ASSUME connector'.fd = connector.fd, fds'[connector.fd] = c, Carries(c)'
      PROVE  Carries(fds[connector.fd])'
  <2>1. fds'[connector'.fd] = c
    BY <1>e
  <2> QED BY <1>e, <2>1
<1>1. CASE BusSend
  BY <1>1, SendQueues
<1>2. CASE Writer
  <2>1. /\ connector' = connector /\ Working /\ lost' = lost
        /\ bus'.last = bus.last /\ UNCHANGED <<java, heard>>
        /\ connector.stage \in {"link", "read"}
    BY <1>a, <1>2 DEF Writer, WriterTakes, WriterSends, WriterDrops, Bus,
                      Working
  <2>2. connector.fd \in Fds
    BY <1>b, <2>1
  <2>3. CASE WriterTakes
    <3>1. CASE bus' = bus
      <4>1. bus.client_fd = connector.fd /\ bus.ring = <<>> /\ ~lost
            /\ bus.last # 0 /\ fds' = fds /\ conns' = conns /\ ~InHand
        BY <2>1, <2>3, <3>1 DEF WriterTakes, InHand
      <4>2. Carries(c) /\ c \in Conns
        BY <1>c, <2>1, <4>1
      <4>3. Carries(c)'
        BY <1>d, <2>1, <4>1, <4>2
      <4> QED BY <1>e, <1>z, <2>1, <4>1, <4>3
    <3>2. CASE /\ writer' = [stage |-> "send", frame |-> Head(bus.ring),
                             fd |-> bus.client_fd, gen |-> bus.client_gen,
                             conn |-> fds[bus.client_fd]]
               /\ bus' = [bus EXCEPT !.ring = Tail(@)]
      <4>1. bus'.client_fd = bus.client_fd /\ bus'.client_gen = bus.client_gen
        BY <1>a, <3>2 DEF Bus
      <4>2. InHand' /\ SameConnection'
        BY <3>2, <4>1 DEF InHand, SameConnection
      <4> QED BY <4>2
    <3> QED BY <2>3, <3>1, <3>2 DEF WriterTakes
  <2>4. CASE WriterSends
    <3>1. bus' = bus /\ fds' = fds /\ InHand /\ bus.client_fd = connector.fd
          /\ bus.ring = <<>> /\ ~lost /\ bus.last # 0
      BY <2>1, <2>4 DEF WriterSends, InHand
    <3>2. /\ writer.fd \in Fds /\ writer.frame \in Frame
          /\ writer \in [stage : {"send", "failed"}, frame : Frame, fd : Fds,
                         gen : Nat, conn : Conns \cup {NoConn}]
      BY <1>a, <3>1, SendingWriter DEF InHand
    <3>3. writer.frame.kind = "live" /\ writer.frame.value = bus.last
      BY <2>1, <3>1 DEF LatestQueued
    <3>4. CASE Carries(c)
      <4>1. Carries(c)'
        BY <1>c, <2>1, <2>4, <3>1, <3>4, WriterCarriesOn
      <4> QED BY <1>e, <1>z, <2>1, <3>1, <4>1
    <3>5. CASE SameConnection /\ writer' = [writer EXCEPT !.stage = "failed"]
      <4>1. /\ writer'.stage = "failed" /\ writer'.fd = writer.fd
            /\ writer'.gen = writer.gen
        BY <3>2, <3>5
      <4>2. InHand' /\ SameConnection'
        BY <3>1, <3>5, <4>1 DEF InHand, SameConnection
      <4> QED BY <4>2
    <3>6. CASE SameConnection /\ FrameSent(writer.fd, writer.frame)
      <4>1. c = fds[writer.fd] /\ c \in Conns
        BY <1>c, <1>z, <2>1, <3>1, <3>6 DEF SameConnection
      <4>2. IsUpdate(writer.frame) /\ bus'.last = bus.last
        BY <3>1, <3>3 DEF IsUpdate
      <4>3. Carries(c)'
        BY <1>a, <3>2, <3>3, <3>6, <4>1, <4>2, CarriesNow
      <4> QED BY <1>e, <1>z, <2>1, <3>1, <4>3
    <3> QED BY <1>c, <2>1, <2>4, <3>1, <3>4, <3>5, <3>6 DEF WriterSends
  <2>5. CASE WriterDrops
    <3>1. CASE SameConnection
      <4>1. bus'.client_fd = NoFd
        BY <1>a, <2>5, <3>1 DEF WriterDrops, Bus
      <4> QED BY <1>a, <2>1, <2>2, <4>1
    <3>2. CASE ~SameConnection
      <4>1. /\ bus' = bus /\ fds' = fds /\ conns' = conns
            /\ bus.client_fd = connector.fd /\ bus.ring = <<>> /\ ~lost
            /\ bus.last # 0
        BY <2>1, <2>5, <3>2 DEF WriterDrops
      <4>2. Carries(c) /\ c \in Conns
        BY <1>c, <2>1, <3>2, <4>1
      <4>3. Carries(c)'
        BY <1>d, <2>1, <4>1, <4>2
      <4> QED BY <1>e, <1>z, <2>1, <4>1, <4>3
    <3> QED BY <3>1, <3>2
  <2> QED BY <1>2, <2>3, <2>4, <2>5 DEF Writer
<1>3. ASSUME NEW d \in Fds, Connect(d) PROVE FALSE
  BY <1>3 DEF Connect
<1>4. ~(Hello \/ Snapshot \/ SendReplay)
  <2> SUFFICES ASSUME Hello \/ Snapshot \/ SendReplay
               PROVE  connector'.stage \notin {"link", "read"}
    OBVIOUS
  <2>1. connector \in [stage : {"hello", "snapshot", "replay", "link", "read"},
                       fd : Fds, todo : Seq(Frame)]
    BY <1>a, ConnectedConnector DEF Hello, Snapshot, SendReplay
  <2>2. CASE Hello
    <3>1. CASE connector' = [connector EXCEPT !.stage = "snapshot",
                                              !.todo = <<>>]
      <4>1. connector'.stage = "snapshot"
        BY <2>1, <3>1
      <4> QED BY <4>1
    <3>2. CASE connector' = [stage |-> "connect"]
      BY <3>2
    <3> QED BY <2>2, <3>1, <3>2 DEF Hello
  <2>3. CASE Snapshot \/ SendReplay
    <3>1. connector'.stage = "replay"
      BY <2>1, <2>3 DEF Snapshot, SendReplay
    <3> QED BY <3>1
  <2> QED BY <2>2, <2>3
<1>5. CASE Publish
  <2>1. /\ connector.stage = "replay" /\ connector.todo = <<>> /\ Working
        /\ lost' = lost /\ UNCHANGED <<java, heard>>
    BY <1>5 DEF Publish, Working
  <2>2. /\ bus'.ring = bus.ring /\ bus'.last = bus.last
        /\ connector'.fd = connector.fd
    BY <1>5, <1>a, ConnectedConnector DEF Publish, Bus
  <2>3. fds' = fds /\ conns' = conns
    BY <1>5, <2>1 DEF Publish, OneLink
  <2>4. Carries(fds[connector.fd])
    BY <2>1, <2>2 DEF LatestReplayed
  <2>5. c \in Conns /\ Carries(c)
    BY <1>a, <1>b, <1>z, <2>1, <2>4 DEF Owners, Greeting, Links
  <2>6. Carries(c)'
    BY <1>d, <2>1, <2>2, <2>3, <2>5
  <2> QED BY <1>e, <1>z, <2>2, <2>3, <2>6
<1>6. CASE LinkCheck
  <2>1. /\ connector.stage = "link" /\ Working /\ lost' = lost /\ bus' = bus
        /\ fds' = fds /\ conns' = conns /\ writer' = writer
        /\ UNCHANGED <<java, heard>>
    BY <1>6 DEF LinkCheck, Working
  <2>2. connector' = [connector EXCEPT !.stage = "read"]
    BY <1>6 DEF LinkCheck
  <2>3. connector'.fd = connector.fd
    BY <1>a, <2>1, <2>2, ConnectedConnector
  <2>4. (InHand /\ SameConnection) \/ Carries(c)
    BY <1>c, <2>1, <2>3
  <2>5. c \in Conns
    BY <1>c, <2>1, <2>3
  <2>6. CASE InHand /\ SameConnection
    BY <2>1, <2>6 DEF InHand, SameConnection
  <2>7. CASE Carries(c)
    <3>1. bus'.last = bus.last
      BY <2>1
    <3>2. Carries(c)'
      BY <1>d, <2>1, <2>5, <2>7, <3>1
    <3> QED BY <1>e, <1>z, <2>1, <2>3, <3>2
  <2> QED BY <2>4, <2>6, <2>7
<1>7. ~(ReadFails \/ ConnectorLeaves \/ BusInit \/ Unwound)
  BY DEF ReadFails, ConnectorLeaves, BusInit, Unwound, Stages
<1>8. CASE Timer
  <2>1. /\ UNCHANGED <<connector, fds, conns, bus, lost, java, heard, writer>>
        /\ Working
    BY <1>8 DEF Timer, TimerFires, TimerReturns, TimerLeaves, Working
  <2>2. c \in Conns /\ ((InHand /\ SameConnection) \/ Carries(c))
    BY <1>c, <2>1
  <2>3. CASE InHand /\ SameConnection
    BY <2>1, <2>3 DEF InHand, SameConnection
  <2>4. CASE Carries(c)
    <3>1. Carries(c)'
      BY <1>d, <2>1, <2>2, <2>4
    <3> QED BY <1>e, <1>z, <2>1, <3>1
  <2> QED BY <2>2, <2>3, <2>4
<1>9. ~CreateThreads
  BY DEF CreateThreads, Stages
<1>10. ~(WriterNotCreated \/ ShutdownWakes \/ ShutdownFrees \/ ShutdownDefers
         \/ BusShutdown)
  BY DEF WriterNotCreated, ShutdownWakes, ShutdownFrees, ShutdownDefers,
         BusShutdown, Working
<1>11. CASE RouteStart \/ RouteStop \/ JavaDies \/ JavaIo
  <2>1. /\ UNCHANGED <<connector, fds, bus, lost, writer>> /\ Working
    BY <1>11 DEF RouteStart, RouteStop, JavaDies, JavaIo, JavaAccepts,
       JavaReads, JavaDrops, Working
  <2>2. c \in Conns /\ ((InHand /\ SameConnection) \/ Carries(c))
    BY <1>c, <2>1
  <2>3. CASE InHand /\ SameConnection
    BY <2>1, <2>3 DEF InHand, SameConnection
  <2>4. CASE Carries(c)
    <3>1. Carries(c)'
      BY <1>11, <2>2, <2>4, CarriesRead
    <3> QED BY <1>e, <1>z, <2>1, <3>1
  <2> QED BY <2>2, <2>3, <2>4
<1> QED BY <1>1, <1>2, <1>3, <1>4, <1>5, <1>6, <1>7, <1>8, <1>9, <1>10, <1>11
        DEF Next, Connector, Lifecycle

LEMMA LatestStart == Init => LatestInv
<1> SUFFICES ASSUME Init PROVE LatestInv
  OBVIOUS
<1>1. /\ life = "off" /\ shutdown = FALSE /\ heard = 0 /\ ~lost
      /\ bus.ring = <<>> /\ bus.last = 0 /\ bus.client_fd = NoFd
      /\ writer.stage = "gone" /\ connector.stage = "gone"
      /\ java.conn = NoConn /\ \A c \in Conns : conns[c] = Unused
  BY DEF Init
<1>2. ~InHand /\ ~Greeting
  BY <1>1 DEF InHand, Greeting
<1>3. \A c \in Conns : conns[c].peer = "closed" /\ HasNone(conns[c].wire)
  BY <1>1 DEF Unused, HasNone
<1>4. Owners
  BY <1>1, <1>2 DEF Owners
<1>5. Stages /\ OneLink
  BY <1>1 DEF Stages, OneLink
<1>6. Made /\ LatestQueued
  BY <1>1, <1>2, <1>3 DEF Made, LatestQueued
<1>7. NothingYet
  BY <1>1, <1>2, <1>3 DEF NothingYet
<1>8. GreetingFits /\ LatestReplayed /\ LatestSent
  BY <1>1 DEF GreetingFits, LatestReplayed, LatestSent
<1> QED BY <1>4, <1>5, <1>6, <1>7, <1>8 DEF LatestInv

LEMMA LatestStep ==
  ASSUME ~CreateFails, TypeOK, LatestInv, Next
  PROVE  LatestInv'
<1>1. Owners' /\ Stages' /\ OneLink' /\ Made' /\ LatestQueued'
  BY OwnersStep, LinkStep, MadeStep, QueuedStep DEF LatestInv
<1>2. NothingYet' /\ GreetingFits'
  BY NothingStep, FitsStep DEF LatestInv
<1>3. LatestReplayed' /\ LatestSent'
  BY ReplayStep, SentStep DEF LatestInv
<1> QED BY <1>1, <1>2, <1>3 DEF LatestInv

(* When nothing is left on the way, Java's last update is the latest.      *)
LEMMA LatestReached ==
  ASSUME TypeOK, LatestInv
  PROVE  FollowsLatest
<1> SUFFICES ASSUME Settled, ~lost
             PROVE  heard = bus.last
  BY DEF FollowsLatest
<1> DEFINE c == fds[connector.fd]
<1>1. /\ Working /\ bus.ring = <<>> /\ ~InHand
      /\ connector.stage \in {"link", "read"} /\ bus.client_fd = connector.fd
      /\ c # NoConn /\ java.conn = c /\ conns[c].wire = <<>>
  BY DEF Settled, Working, InHand
<1>2. CASE bus.last = 0
  BY <1>1, <1>2 DEF LatestInv, NothingYet
<1>3. CASE bus.last # 0
  <2>1. Carries(c)
    BY <1>1, <1>3 DEF LatestInv, LatestSent
  <2>2. conns[c].peer = "open" /\ DOMAIN conns[c].wire = {}
    BY <1>1 DEF LatestInv, Made
  <2> QED BY <2>1, <2>2 DEF Carries
<1> QED BY <1>2, <1>3

(* Whatever broke, was resent or was lost with a link, and whichever frame *)
(* the writer had in hand meanwhile: once nothing is on its way, the last  *)
(* update Java heard is the latest, unless that one did not fit into the   *)
(* ring.  A bus_init that fails half way leaves a descriptor behind; the   *)
(* theorem is about the bus when the threads are created.                  *)
THEOREM LatestFollowed ==
  ASSUME ~CreateFails
  PROVE  Spec => []FollowsLatest
<1>1. Init => LatestInv
  BY LatestStart
<1>2. TypeOK /\ LatestInv /\ [Next]_vars => LatestInv'
  <2>1. TypeOK /\ LatestInv /\ Next => LatestInv'
    BY LatestStep
  <2>2. LatestInv /\ UNCHANGED vars => LatestInv'
    BY TimerAside DEF vars
  <2> QED BY <2>1, <2>2
<1>3. TypeOK /\ LatestInv => FollowsLatest
  BY LatestReached
<1> QED BY <1>1, <1>2, <1>3, TypeCorrect, PTL DEF Spec
=============================================================================

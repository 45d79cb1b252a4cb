------------------------------- MODULE RgiBus -------------------------------
(***************************************************************************)
(* The bus that carries the route guidance state from the iAP2 driver to   *)
(* the Java runtime: altscreen/native/framework/bus.c, and the reading end *)
(* in CarplayBus.java and RouteGuidance.java.                              *)
(*                                                                         *)
(* bus_send copies an update into the sticky cache and into a ring.  The   *)
(* writer thread drains the ring into the socket; the connector thread     *)
(* makes the connection, greets it with HELLO and a replay of the cache,   *)
(* publishes the descriptor and reads until the link breaks.  Descriptor   *)
(* numbers are reused.  The Java side takes connections one after another. *)
(* One action is one critical section of g_lock, or one call outside it.   *)
(* Everything the program sends is EVT_RGD_UPDATE with the sticky flag, so *)
(* there is one cache slot, and an update is the number of its bus_send.   *)
(* The reader ignores the sequence numbers of frames; they are left out.   *)
(***************************************************************************)
EXTENDS Naturals, Sequences

CONSTANTS
  Fds,          \* descriptor numbers sockets may get
  NoFd,         \* -1
  Capacity,     \* SEND_QUEUE_CAPACITY (256)
  Window,       \* frames in flight from which a send may time out
  MaxSends,     \* bound of the model: calls of bus_send
  MaxStimuli,   \* bound of the model: Java starts, stops, dies, no thread
  CreateFails   \* pthread_create may fail in bus_init

ASSUME BusAssumption ==
  /\ NoFd \notin Fds /\ Fds # {}
  /\ Capacity \in Nat \ {0}
  /\ Window \in Nat /\ Window >= 4     \* the socket buffer takes the greeting
  /\ MaxSends \in Nat /\ MaxStimuli \in Nat
  /\ CreateFails \in BOOLEAN

VARIABLES
  life,       \* where bus_init and bus_shutdown stand
  shutdown,   \* g_shutdown
  bus,        \* what g_lock protects
  writer,     \* the writer thread and its local variables
  connector,  \* the connector thread and its local variables
  timer,      \* the timer thread
  fds,        \* which connection a descriptor number refers to
  conns,      \* the connections: frames in flight, and both ends
  java,       \* the Java side
  heard,      \* history: the last update that reached the Java side
  lost,       \* history: the last update did not fit into the ring
  made,       \* connections made so far
  sends, stimuli

vars == <<life, shutdown, bus, writer, connector, timer, fds, conns, java,
          heard, lost, made, sends, stimuli>>

-----------------------------------------------------------------------------
Updates == 1..MaxSends
NoConn  == 0
(* A connection breaks by a stimulus or by a send that timed out.          *)
Conns   == 1..(MaxSends + MaxStimuli + 2)

Frame == [kind : {"hello", "begin", "replay", "live", "end", "cut"},
          value : 0..MaxSends]
Bare(kind) == [kind |-> kind, value |-> 0]

Conn   == [wire : Seq(Frame), native : BOOLEAN,
           peer : {"pending", "open", "closed"}]
Unused == [wire |-> <<>>, native |-> FALSE, peer |-> "closed"]
Opened == [wire |-> <<>>, native |-> TRUE, peer |-> "pending"]

Init ==
  /\ life = "off" /\ shutdown = FALSE
  /\ bus = [ring |-> <<>>, last |-> 0, client_fd |-> NoFd, client_gen |-> 0]
  /\ writer = [stage |-> "gone"]
  /\ connector = [stage |-> "gone"]
  /\ timer = "gone"
  /\ fds = [d \in Fds |-> NoConn]
  /\ conns = [c \in Conns |-> Unused]
  /\ java = [listening |-> FALSE, conn |-> NoConn, running |-> FALSE,
             view |-> 0]
  /\ heard = 0 /\ lost = FALSE
  /\ made = 0 /\ sends = 0 /\ stimuli = 0

Stimulus == stimuli < MaxStimuli /\ stimuli' = stimuli + 1

(* close(fd): what is in flight stays readable.                            *)
Closing(d) ==
  /\ fds' = [fds EXCEPT ![d] = NoConn]
  /\ conns' = IF fds[d] = NoConn THEN conns
              ELSE [conns EXCEPT ![fds[d]].native = FALSE]

(* send_frame(fd, f).  After the peer has closed the data is lost, with or *)
(* without an error; a closed descriptor fails, and so does a send without *)
(* room for 500 ms, when a part of the frame may have gone out.            *)
FrameSent(d, f) ==
  LET c == fds[d] IN
  /\ c # NoConn
  /\ conns' = IF conns[c].peer = "closed" THEN conns
              ELSE [conns EXCEPT ![c].wire = Append(@, f)]

PeerClosed(d) == fds[d] # NoConn => conns[fds[d]].peer = "closed"
InFlight(d)   == IF fds[d] = NoConn THEN 0 ELSE Len(conns[fds[d]].wire)
MayFail(d)    == PeerClosed(d) \/ InFlight(d) >= Window

FrameFails(d, f) ==
  /\ MayFail(d)
  /\ \/ UNCHANGED conns
     \/ /\ ~PeerClosed(d)
        /\ conns' = [conns EXCEPT ![fds[d]].wire =
                       Append(@, [f EXCEPT !.kind = "cut"])]

(* A thread asleep in pthread_cond_wait is woken to check again.           *)
Woken(w) == IF w.stage = "asleep" THEN [stage |-> "check"] ELSE w

-----------------------------------------------------------------------------
(* bus_send                                                                *)

Cached(v) == [bus EXCEPT !.last = v]

Enqueued(b, v) ==
  [b EXCEPT !.ring = Append(@, [kind |-> "live", value |-> v])]

Full == Len(bus.ring) = Capacity

AcceptingAlways == TRUE                                         \* mutant

Accepting == ~shutdown                                   \* or HOOK_ERR_BUSY

(* A full ring drops the frame; the cache has it all the same.             *)
BusSend ==
  LET v == sends + 1 IN
  /\ life \notin {"off", "creating", "unwinding"}
  /\ sends < MaxSends
  /\ Accepting
  /\ sends' = v
  /\ bus' = IF Full THEN Cached(v) ELSE Enqueued(Cached(v), v)
  /\ lost' = Full
  /\ writer' = IF Full THEN writer ELSE Woken(writer)
  /\ UNCHANGED <<life, shutdown, connector, timer, fds, conns, java, heard,
                 made, stimuli>>

-----------------------------------------------------------------------------
(* The writer thread                                                       *)

(* Take the oldest frame and the descriptor, or sleep.  conn is history:   *)
(* the connection the descriptor stood for.                                *)
WriterTakes ==
  /\ writer.stage = "check"
  /\ \/ /\ shutdown
        /\ writer' = [stage |-> "gone"]
        /\ UNCHANGED bus
     \/ /\ ~shutdown /\ (bus.ring = <<>> \/ bus.client_fd = NoFd)
        /\ writer' = [stage |-> "asleep"]
        /\ UNCHANGED bus
     \/ /\ ~shutdown /\ bus.ring # <<>> /\ bus.client_fd # NoFd
        /\ writer' = [stage |-> "send", frame |-> Head(bus.ring),
                      fd |-> bus.client_fd, gen |-> bus.client_gen,
                      conn |-> fds[bus.client_fd]]
        /\ bus' = [bus EXCEPT !.ring = Tail(@)]
  /\ UNCHANGED <<life, shutdown, connector, timer, fds, conns, java, heard,
                 lost, made, sends, stimuli>>

WriterSends ==
  /\ writer.stage = "send"
  /\ \/ /\ FrameSent(writer.fd, writer.frame)
        /\ writer' = [stage |-> "check"]
     \/ /\ FrameFails(writer.fd, writer.frame)
        /\ writer' = [writer EXCEPT !.stage = "failed"]
  /\ UNCHANGED <<life, shutdown, bus, connector, timer, fds, java, heard,
                 lost, made, sends, stimuli>>

SameNumber == bus.client_fd = writer.fd                     \* mutant

SameConnection == bus.client_fd = writer.fd /\ bus.client_gen = writer.gen

WriterDrops ==
  /\ writer.stage = "failed"
  /\ writer' = [stage |-> "check"]
  /\ IF SameConnection
     THEN Closing(writer.fd) /\ bus' = [bus EXCEPT !.client_fd = NoFd]
     ELSE UNCHANGED <<bus, fds, conns>>
  /\ UNCHANGED <<life, shutdown, connector, timer, java, heard, lost, made,
                 sends, stimuli>>

-----------------------------------------------------------------------------
(* The connector thread                                                    *)

(* Nobody else knows the descriptor yet.                                   *)
Connect(d) ==
  LET c == made + 1 IN
  /\ connector.stage = "connect" /\ ~shutdown
  /\ java.listening
  /\ fds[d] = NoConn /\ c \in Conns
  /\ made' = c
  /\ fds' = [fds EXCEPT ![d] = c]
  /\ conns' = [conns EXCEPT ![c] = Opened]
  /\ connector' = [stage |-> "hello", fd |-> d,
                   todo |-> <<Bare("hello")>>]
  /\ UNCHANGED <<life, shutdown, bus, writer, timer, java, heard, lost, sends,
                 stimuli>>

Hello ==
  /\ connector.stage = "hello" /\ connector.todo # <<>>
  /\ \/ /\ FrameSent(connector.fd, Head(connector.todo))
        /\ connector' = [connector EXCEPT !.stage = "snapshot", !.todo = <<>>]
        /\ UNCHANGED fds
     \/ /\ MayFail(connector.fd)
        /\ Closing(connector.fd)
        /\ connector' = [stage |-> "connect"]
  /\ UNCHANGED <<life, shutdown, bus, writer, timer, java, heard, lost, made,
                 sends, stimuli>>

(* send_sync_snapshot copies the cache under the lock ...                  *)
ReplayEmpty(b) == <<Bare("begin"), Bare("end")>>                 \* mutant

Replay(b) ==
  IF b.last = 0 THEN <<Bare("begin"), Bare("end")>>
  ELSE <<Bare("begin"), [kind |-> "replay", value |-> b.last], Bare("end")>>

Snapshot ==
  /\ connector.stage = "snapshot"
  /\ connector' = [connector EXCEPT !.stage = "replay", !.todo = Replay(bus)]
  /\ UNCHANGED <<life, shutdown, bus, writer, timer, fds, conns, java, heard,
                 lost, made, sends, stimuli>>

(* ... and sends frame by frame without it, whatever becomes of each.      *)
SendReplay ==
  /\ connector.stage = "replay" /\ connector.todo # <<>>
  /\ \/ FrameSent(connector.fd, Head(connector.todo))
     \/ FrameFails(connector.fd, Head(connector.todo))
  /\ connector' = [connector EXCEPT !.todo = Tail(@)]
  /\ UNCHANGED <<life, shutdown, bus, writer, timer, fds, java, heard, lost,
                 made, sends, stimuli>>

PublishSilently ==                                              \* mutant
  /\ connector.stage = "replay" /\ connector.todo = <<>>
  /\ connector' = [connector EXCEPT !.stage = "link"]
  /\ bus' = [bus EXCEPT !.client_fd = connector.fd, !.client_gen = @ + 1]
  /\ IF bus.client_fd = NoFd THEN UNCHANGED <<fds, conns>>
     ELSE Closing(bus.client_fd)
  /\ UNCHANGED <<life, shutdown, writer, timer, java, heard, lost, made,
                 sends, stimuli>>

(* The descriptor becomes g_client_fd; one left over is closed.            *)
Publish ==
  /\ connector.stage = "replay" /\ connector.todo = <<>>
  /\ connector' = [connector EXCEPT !.stage = "link"]
  /\ bus' = [bus EXCEPT !.client_fd = connector.fd, !.client_gen = @ + 1]
  /\ writer' = Woken(writer)
  /\ IF bus.client_fd = NoFd THEN UNCHANGED <<fds, conns>>
     ELSE Closing(bus.client_fd)
  /\ UNCHANGED <<life, shutdown, timer, java, heard, lost, made, sends,
                 stimuli>>

(* Go on reading only while the link is the current one.                   *)
LinkCheck ==
  /\ connector.stage = "link"
  /\ connector' = IF shutdown \/ bus.client_fd # connector.fd
                  THEN [stage |-> "connect"]
                  ELSE [connector EXCEPT !.stage = "read"]
  /\ UNCHANGED <<life, shutdown, bus, writer, timer, fds, conns, java, heard,
                 lost, made, sends, stimuli>>

(* recv returns nothing: close the link if it is still the current one.    *)
(* The Java side never sends, so there is nothing else to read.            *)
ReadFails ==
  /\ connector.stage = "read" /\ PeerClosed(connector.fd)
  /\ connector' = [stage |-> "connect"]
  /\ IF bus.client_fd = connector.fd
     THEN Closing(connector.fd) /\ bus' = [bus EXCEPT !.client_fd = NoFd]
     ELSE UNCHANGED <<bus, fds, conns>>
  /\ UNCHANGED <<life, shutdown, writer, timer, java, heard, lost, made,
                 sends, stimuli>>

ConnectorLeaves ==
  /\ connector.stage = "connect" /\ shutdown
  /\ connector' = [stage |-> "gone"]
  /\ UNCHANGED <<life, shutdown, bus, writer, timer, fds, conns, java, heard,
                 lost, made, sends, stimuli>>

-----------------------------------------------------------------------------
(* The timer thread: its callback may be long in stock code.               *)

TimerFires ==
  /\ timer = "sleep" /\ ~shutdown
  /\ timer' = "tick"
  /\ UNCHANGED <<life, shutdown, bus, writer, connector, fds, conns, java,
                 heard, lost, made, sends, stimuli>>

TimerReturns ==
  /\ timer = "tick"
  /\ timer' = "sleep"
  /\ UNCHANGED <<life, shutdown, bus, writer, connector, fds, conns, java,
                 heard, lost, made, sends, stimuli>>

TimerLeaves ==
  /\ timer = "sleep" /\ shutdown
  /\ timer' = "gone"
  /\ UNCHANGED <<life, shutdown, bus, writer, connector, fds, conns, java,
                 heard, lost, made, sends, stimuli>>

-----------------------------------------------------------------------------
(* bus_init and bus_shutdown                                               *)

BusInit ==
  /\ life = "off"
  /\ life' = "creating"
  /\ shutdown' = FALSE
  /\ bus' = [bus EXCEPT !.ring = <<>>]
  /\ connector' = [stage |-> "connect"]
  /\ UNCHANGED <<writer, timer, fds, conns, java, heard, lost, made, sends,
                 stimuli>>

(* The writer and the timer; the bus runs without the timer.               *)
CreateThreads ==
  /\ life = "creating"
  /\ life' = "up"
  /\ writer' = [stage |-> "check"]
  /\ timer' \in {"sleep"} \cup (IF CreateFails THEN {"gone"} ELSE {})
  /\ UNCHANGED <<shutdown, bus, connector, fds, conns, java, heard, lost,
                 made, sends, stimuli>>

DropClient ==
  IF bus.client_fd = NoFd THEN UNCHANGED <<bus, fds, conns>>
  ELSE Closing(bus.client_fd) /\ bus' = [bus EXCEPT !.client_fd = NoFd]

(* No writer: the connector that already runs is stopped and joined.       *)
WriterNotCreated ==
  /\ life = "creating" /\ CreateFails /\ Stimulus
  /\ life' = "unwinding"
  /\ shutdown' = TRUE
  /\ DropClient
  /\ UNCHANGED <<writer, connector, timer, java, heard, lost, made, sends>>

Unwound ==
  /\ life = "unwinding" /\ connector.stage = "gone"
  /\ life' = "off"
  /\ UNCHANGED <<shutdown, bus, writer, connector, timer, fds, conns, java,
                 heard, lost, made, sends, stimuli>>

BusShutdown ==
  /\ life = "up"
  /\ life' = "closing"
  /\ shutdown' = TRUE
  /\ UNCHANGED <<bus, writer, connector, timer, fds, conns, java, heard, lost,
                 made, sends, stimuli>>

ShutdownWakes ==
  /\ life = "closing"
  /\ life' = "waiting"
  /\ DropClient
  /\ writer' = Woken(writer)
  /\ UNCHANGED <<shutdown, connector, timer, java, heard, lost, made, sends,
                 stimuli>>

ThreadsGone ==
  writer.stage = "gone" /\ connector.stage = "gone" /\ timer = "gone"

(* All threads have left within BUS_SHUTDOWN_WAIT_MS: free ring and cache. *)
ShutdownFrees ==
  /\ life = "waiting" /\ ThreadsGone
  /\ life' = "freed"
  /\ bus' = [bus EXCEPT !.ring = <<>>, !.last = 0]
  /\ UNCHANGED <<shutdown, writer, connector, timer, fds, conns, java, heard,
                 lost, made, sends, stimuli>>

ShutdownJoinsAll ==                                             \* mutant
  life = "waiting" /\ ~ThreadsGone /\ UNCHANGED vars

(* The wait has expired: everything is left to the end of the process.     *)
ShutdownDefers ==
  /\ life = "waiting" /\ ~ThreadsGone
  /\ life' = "deferred"
  /\ UNCHANGED <<shutdown, bus, writer, connector, timer, fds, conns, java,
                 heard, lost, made, sends, stimuli>>

-----------------------------------------------------------------------------
(* The Java side                                                           *)

(* RouteGuidance.start and stop: the listener; the first start also opens  *)
(* the server, which stop leaves open.                                     *)
RouteStart ==
  /\ ~java.running /\ Stimulus
  /\ java' = [java EXCEPT !.running = TRUE, !.listening = TRUE]
  /\ UNCHANGED <<life, shutdown, bus, writer, connector, timer, fds, conns,
                 heard, lost, made, sends>>

RouteStop ==
  /\ java.running /\ Stimulus
  /\ java' = [java EXCEPT !.running = FALSE]
  /\ UNCHANGED <<life, shutdown, bus, writer, connector, timer, fds, conns,
                 heard, lost, made, sends>>

(* The process dies and takes every connection with it.                    *)
JavaDies ==
  /\ java.listening /\ Stimulus
  /\ java' = [listening |-> FALSE, conn |-> NoConn, running |-> FALSE,
              view |-> 0]
  /\ conns' = [c \in Conns |->
                 [conns[c] EXCEPT !.wire = <<>>, !.peer = "closed"]]
  /\ heard' = 0
  /\ UNCHANGED <<life, shutdown, bus, writer, connector, timer, fds, lost,
                 made, sends>>

JavaAccepts(c) ==
  /\ java.listening /\ java.conn = NoConn
  /\ conns[c].peer = "pending"
  /\ \A e \in Conns : conns[e].peer = "pending" => c <= e
  /\ java' = [java EXCEPT !.conn = c]
  /\ conns' = [conns EXCEPT ![c].peer = "open"]
  /\ UNCHANGED <<life, shutdown, bus, writer, connector, timer, fds, heard,
                 lost, made, sends, stimuli>>

(* readerLoop and dispatch: an update without a listener is dropped, the   *)
(* other kinds have none.                                                  *)
JavaReads ==
  LET c == java.conn
      f == Head(conns[c].wire) IN
  /\ c # NoConn /\ conns[c].wire # <<>> /\ f.kind # "cut"
  /\ conns' = [conns EXCEPT ![c].wire = Tail(@)]
  /\ IF f.kind \in {"replay", "live"}
     THEN /\ heard' = f.value
          /\ java' = IF java.running THEN [java EXCEPT !.view = f.value]
                     ELSE java
     ELSE UNCHANGED <<heard, java>>
  /\ UNCHANGED <<life, shutdown, bus, writer, connector, timer, fds, lost,
                 made, sends, stimuli>>

(* The end of the stream, or frames that do not follow a whole one.        *)
JavaDrops ==
  LET c == java.conn IN
  /\ c # NoConn
  /\ \/ conns[c].wire = <<>> /\ ~conns[c].native
     \/ /\ conns[c].wire # <<>> /\ Head(conns[c].wire).kind = "cut"
        /\ Len(conns[c].wire) > 1 \/ ~conns[c].native
  /\ java' = [java EXCEPT !.conn = NoConn]
  /\ conns' = [conns EXCEPT ![c].wire = <<>>, ![c].peer = "closed"]
  /\ UNCHANGED <<life, shutdown, bus, writer, connector, timer, fds, heard,
                 lost, made, sends, stimuli>>

-----------------------------------------------------------------------------
Writer    == WriterTakes \/ WriterSends \/ WriterDrops
Connector == (\E d \in Fds : Connect(d)) \/ Hello \/ Snapshot \/ SendReplay
             \/ Publish \/ LinkCheck \/ ReadFails \/ ConnectorLeaves
Timer     == TimerFires \/ TimerReturns \/ TimerLeaves
Lifecycle == BusInit \/ CreateThreads \/ WriterNotCreated \/ Unwound
             \/ ShutdownWakes \/ ShutdownFrees \/ ShutdownDefers
JavaIo    == (\E c \in Conns : JavaAccepts(c)) \/ JavaReads \/ JavaDrops

Next == BusSend \/ Writer \/ Connector \/ Timer \/ Lifecycle \/ BusShutdown
        \/ RouteStart \/ RouteStop \/ JavaDies \/ JavaIo

Spec == Init /\ [][Next]_vars

(* Threads run; that the timer's callback returns is not assumed.          *)
Fairness ==
  /\ WF_vars(Writer) /\ WF_vars(Connector) /\ WF_vars(JavaIo)
  /\ WF_vars(TimerLeaves)
  /\ WF_vars(ShutdownWakes \/ ShutdownFrees \/ ShutdownDefers)

FairSpec == Spec /\ Fairness

-----------------------------------------------------------------------------
Bus == [ring : Seq(Frame), last : 0..MaxSends, client_fd : Fds \cup {NoFd},
        client_gen : Nat]

Java == [listening : BOOLEAN, conn : Conns \cup {NoConn}, running : BOOLEAN,
         view : 0..MaxSends]

WriterType ==
  [stage : {"gone", "asleep", "check"}]
  \cup [stage : {"send", "failed"}, frame : Frame, fd : Fds, gen : Nat,
        conn : Conns \cup {NoConn}]

ConnectorType ==
  [stage : {"gone", "connect"}]
  \cup [stage : {"hello", "snapshot", "replay", "link", "read"}, fd : Fds,
        todo : Seq(Frame)]

(* Every variable has its type; the ring keeps its capacity and a thread   *)
(* that sends has a descriptor number to send on.                          *)
TypeOK ==
  /\ life \in {"off", "creating", "unwinding", "up", "closing", "waiting",
               "freed", "deferred"}
  /\ shutdown \in BOOLEAN
  /\ bus \in Bus
  /\ Len(bus.ring) <= Capacity
  /\ writer \in WriterType
  /\ connector \in ConnectorType
  /\ timer \in {"gone", "sleep", "tick"}
  /\ fds \in [Fds -> Conns \cup {NoConn}]
  /\ conns \in [Conns -> Conn]
  /\ java \in Java
  /\ heard \in 0..MaxSends /\ lost \in BOOLEAN
  /\ made \in Conns \cup {0}
  /\ sends \in 0..MaxSends /\ stimuli \in 0..MaxStimuli

(* Nothing is on its way: the link is up, and all that was sent was read.  *)
Settled ==
  /\ life = "up"
  /\ bus.ring = <<>> /\ writer.stage \in {"check", "asleep"}
  /\ connector.stage \in {"link", "read"} /\ bus.client_fd = connector.fd
  /\ LET c == fds[connector.fd] IN
       c # NoConn /\ java.conn = c /\ conns[c].wire = <<>>

(* Whatever broke, was resent or was lost with a link: once things have    *)
(* settled, the last update Java heard is the latest, unless that one did  *)
(* not fit into the ring.                                                  *)
FollowsLatest == Settled /\ ~lost => heard = bus.last

(* The writer never closes another connection than the one it sent on,     *)
(* though the connector may have reused its descriptor number.             *)
WriterClosesItsOwn ==
  [][ \A c \in Conns :
        WriterDrops /\ conns[c].native /\ ~conns'[c].native
          => c = writer.conn ]_vars

(* What bus_shutdown has freed stays free, and no thread is left to use    *)
(* it, although callers and threads go on after g_shutdown is set.         *)
FreedStaysFree ==
  life = "freed" => ThreadsGone /\ bus.ring = <<>> /\ bus.last = 0

(* Updates stop coming: then the latest one arrives, whatever the links    *)
(* do, while there is a Java side and the bus is not shut down.            *)
LatestArrives ==
  <>[](shutdown \/ ~java.listening \/ lost \/ heard = bus.last)

(* bus_shutdown comes to an end, also when a callback never returns.       *)
ShutdownEnds == life = "closing" ~> life \in {"freed", "deferred"}
=============================================================================

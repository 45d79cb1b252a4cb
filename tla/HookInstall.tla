---------------------------- MODULE HookInstall ----------------------------
(***************************************************************************)
(* How the preloaded library gets into the stock iAP2 driver, and what it  *)
(* then does with a received frame (observer.c, ident_hook.c,              *)
(* message_table.c, rgi_bridge.c, receive_probe.c, the installation of     *)
(* send_hook.c, the session and sequence of diagnostics.c).                *)
(*                                                                         *)
(* dlopen finds the driver by two of its symbols.  The first packet that   *)
(* passes the one memcpy the driver copies a packet with installs, once:   *)
(* the identification builder, then the group 0x52 of the message table,   *)
(* then the two callbacks behind which 0x5200 is sent.  Each checks that   *)
(* it finds what the stock driver has there, writes, and reads back.       *)
(* Threads of the driver use the same words meanwhile.  The exit of the    *)
(* process takes the bus down while the receiving thread goes on.          *)
(*                                                                         *)
(* The words of the driver and what it does with them are external: a word *)
(* holds what the stock driver has there ("stock", or nothing: "null"),    *)
(* "ours", or something "else"; each of the six keeps what is written to   *)
(* it or does not.  A packet is what the probe finds in it: the message    *)
(* identifier, or 0, whether the frame is complete, and its length.        *)
(* Stores and loads are taken in the order of the program.                 *)
(***************************************************************************)
EXTENDS Integers, Sequences, FiniteSets

CONSTANTS
    Builds,        \* the drivers: see Build
    MaxTransport,  \* K2161_MAX_TRANSPORT_LEN
    RawLimit,      \* K2161_RAW_CAPTURE_LIMIT
    RawHeader,     \* K2161_RAW_HEADER_LEN
    Frames,        \* what is found in packets
    Packets,       \* bound on the packets received
    Sessions       \* bound on the identifications

DriverWords == {"ident", "name", "messages", "count", "msg", "close"}

RgiIds == 20992 .. 20996       \* 0x5200 .. 0x5204
Expected == {20993, 20994, 20996}

(* symbols: what the two lookups of the driver agree on; ident, msg and    *)
(* close: the words before; refs: groups 0x50 and 0x68 and the now playing *)
(* messages are where they are expected; group: the words of group 0x52;   *)
(* keeps: the words that take a write.                                     *)
Build == [symbols : BOOLEAN, ident : {"stock", "else"}, msg : {"stock", "else"},
          close : {"stock", "else"}, refs : BOOLEAN, group : {"null", "else"},
          keeps : SUBSET DriverWords]

ASSUME InstallAssumption ==
    /\ Builds \subseteq Build
    /\ {MaxTransport, RawHeader, RawLimit, Packets, Sessions} \subseteq Nat
    /\ MaxTransport + RawHeader <= RawLimit
    /\ Frames \subseteq [id : {0} \cup RgiIds, complete : BOOLEAN, len : Nat]

NoFrame == [id |-> 0, complete |-> FALSE, len |-> 0]
Idle == [at |-> "idle", frame |-> NoFrame, seq |-> 0]

VARIABLES
    build,     \* the driver of this process
    base,      \* driver_base is set
    mem,       \* the driver's words
    mine,      \* the library's: what each wrapper needs is set, and its flag
    attempted, \* ident_install_attempted
    rx,        \* the receiving thread: where it is, the frame, its sequence
    loader,    \* a thread that calls dlopen
    stock,     \* a driver thread at each callback: what it fetched
    lookup,    \* a driver thread in the message table: it saw a count
    bridge,    \* ready, down, and who holds g_init_lock
    handed,    \* messages given to the parser
    diag,      \* session, sequence, and the current sequence and message
    raw,       \* bytes captured
    packets,   \* packets received
    alive      \* the process has not called, or read, through NULL

installVars == <<build, base, mem, mine, attempted, rx, loader, stock, lookup,
                 bridge, handed, diag, raw, packets, alive>>

Callbacks == {"ident", "msg", "close"}

InstallInit ==
    /\ build \in Builds
    /\ base \in {FALSE, build.symbols}   \* what the constructor finds
    /\ mem = [ident |-> build.ident, msg |-> build.msg, close |-> build.close,
              name |-> build.group, messages |-> build.group, count |-> build.group]
    /\ mine = [c \in Callbacks |-> FALSE]
    /\ attempted = FALSE
    /\ rx = Idle
    /\ loader = "idle"
    /\ stock = [c \in Callbacks |-> "none"]
    /\ lookup = FALSE
    /\ bridge = [ready |-> FALSE, down |-> FALSE, lock |-> "free"]
    /\ handed = 0
    /\ diag = [session |-> 1, seq |-> 0, current |-> 0, msg |-> 0]
    /\ raw = 0
    /\ packets = 0
    /\ alive = TRUE

-----------------------------------------------------------------------------
(* dlopen.                                                                 *)

(* resolve_driver_base: the library that was loaded is the driver or not.  *)
Dlopen(driver) ==
    /\ loader = "idle"
    /\ base' = (base \/ (driver /\ build.symbols))
    /\ loader' = IF base' THEN "init" ELSE "idle"
    /\ UNCHANGED <<build, mem, mine, attempted, rx, stock, lookup, bridge,
                   handed, diag, raw, packets, alive>>

(* k2161_rgi_bridge_init: bus_init may fail, and is then tried again by    *)
(* the next dlopen or frame.                                               *)
(* Mutant: init comes back after the exit. *)
BridgeInitAgain(ok) ==
    /\ bridge.lock = "free"
    /\ bridge' = IF bridge.ready THEN bridge ELSE [bridge EXCEPT !.ready = ok]

BridgeInit(ok) ==
    /\ bridge.lock = "free"
    /\ bridge' = IF bridge.down \/ bridge.ready THEN bridge
                 ELSE [bridge EXCEPT !.ready = ok]

DlopenInit ==
    /\ loader = "init"
    /\ \E ok \in BOOLEAN : BridgeInit(ok)
    /\ loader' = "idle"
    /\ UNCHANGED <<build, base, mem, mine, attempted, rx, stock, lookup,
                   handed, diag, raw, packets, alive>>

-----------------------------------------------------------------------------
(* The receiving thread, in memcpy.                                        *)

RxGoes(at) == rx' = IF at = "idle" THEN Idle ELSE [rx EXCEPT !.at = at]

(* A store to one of the driver's words.                                   *)
Written(word, value) ==
    mem' = IF word \in build.keeps THEN [mem EXCEPT ![word] = value] ELSE mem

(* What the steps of the installation leave alone.                         *)
Installing == UNCHANGED <<build, base, attempted, loader, stock, lookup, bridge,
                          handed, diag, raw, packets, alive>>

Receive(frame) ==
    /\ rx.at = "idle"
    /\ base
    /\ packets < Packets
    /\ packets' = packets + 1
    /\ attempted' = TRUE
    /\ rx' = [at |-> IF attempted THEN "capture" ELSE "ident",
              frame |-> frame, seq |-> 0]
    /\ UNCHANGED <<build, base, mem, mine, loader, stock, lookup, bridge,
                   handed, diag, raw, alive>>

(* The three kinds of a step: a store, a look at the words, and the        *)
(* clearing of what a wrapper calls.                                       *)
Stores(at, word, value, next) ==
    /\ rx.at = at
    /\ Written(word, value)
    /\ RxGoes(next)
    /\ UNCHANGED mine /\ Installing

Looks(at, good, next, otherwise) ==
    /\ rx.at = at
    /\ RxGoes(IF good THEN next ELSE otherwise)
    /\ UNCHANGED <<mem, mine>> /\ Installing

Clears(at, c, next) ==
    /\ rx.at = at
    /\ mine' = [mine EXCEPT ![c] = FALSE]
    /\ RxGoes(next)
    /\ UNCHANGED mem /\ Installing

(* k2161_ident_try_install_base.                                           *)
IdentPrepare ==
    /\ rx.at = "ident"
    /\ IF mem.ident = "stock"
       THEN mine' = [mine EXCEPT !["ident"] = TRUE] /\ RxGoes("ident_write")
       ELSE UNCHANGED mine /\ RxGoes("capture")
    /\ UNCHANGED mem /\ Installing

IdentWrite == Stores("ident_write", "ident", "ours", "ident_verify")

IdentVerify == Looks("ident_verify", mem.ident = "ours", "table", "ident_clear")

IdentClear == Clears("ident_clear", "ident", "capture")

(* k2161_msgtable_try_install_base: the count goes in last and out first.  *)
Rgi(m) == m.name = "ours" /\ m.messages = "ours" /\ m.count = "ours"

TableCheck ==
    Looks("table", build.refs /\ {mem.name, mem.messages, mem.count} = {"null"},
          "table_name", "capture")

TableName == Stores("table_name", "name", "ours", "table_messages")

TableMessages == Stores("table_messages", "messages", "ours", "table_count")

TableCount == Stores("table_count", "count", "ours", "table_verify")

(* Mutant: the read back looks for what the check looked for. *)
TableVerifiedEmpty ==
    Looks("table_verify", {mem.name, mem.messages, mem.count} = {"null"},
          "send", "back_count")

TableVerify == Looks("table_verify", Rgi(mem), "send", "back_count")

BackCount == Stores("back_count", "count", "null", "back_messages")

BackMessages == Stores("back_messages", "messages", "null", "back_name")

BackName == Stores("back_name", "name", "null", "capture")

(* k2161_send_hook_try_install_base: k2161_msgtable_ready reads back the   *)
(* group, both callbacks have to be the stock ones, and what the wrappers  *)
(* call is set before the first of them is put in.                         *)
SendPrepare ==
    /\ rx.at = "send"
    /\ IF Rgi(mem) /\ mem.msg = "stock" /\ mem.close = "stock"
       THEN mine' = [mine EXCEPT !["msg"] = TRUE, !["close"] = TRUE]
                /\ RxGoes("send_msg")
       ELSE UNCHANGED mine /\ RxGoes("capture")
    /\ UNCHANGED mem /\ Installing

SendMsg == Stores("send_msg", "msg", "ours", "send_close")

SendClose == Stores("send_close", "close", "ours", "send_verify")

(* Mutant: one of the two is enough. *)
SendVerifiedByOne ==
    Looks("send_verify", mem.msg = "ours" \/ mem.close = "ours", "capture", "back_msg")

SendVerify ==
    Looks("send_verify", mem.msg = "ours" /\ mem.close = "ours", "capture", "back_msg")

(* The one that took its wrapper gets the stock function back, and then    *)
(* the wrappers lose what they call.                                       *)
BackMsg == IF mem.msg = "ours" THEN Stores("back_msg", "msg", "stock", "back_close")
           ELSE Looks("back_msg", TRUE, "back_close", "back_close")

BackClose == IF mem.close = "ours" THEN Stores("back_close", "close", "stock", "clear_msg")
             ELSE Looks("back_close", TRUE, "clear_msg", "clear_msg")

ClearMsg == Clears("clear_msg", "msg", "clear_close")

ClearClose == Clears("clear_close", "close", "capture")

-----------------------------------------------------------------------------
(* observe_transport_copy.                                                 *)

Observing == UNCHANGED <<build, base, mem, mine, attempted, loader, stock,
                         lookup, packets, alive>>

(* write_raw_packet: only a record that was written whole is counted.      *)
Capture(whole) ==
    /\ rx.at = "capture"
    /\ LET record == RawHeader + rx.frame.len
       IN  raw' = IF /\ rx.frame.len \in 1 .. MaxTransport
                     /\ raw <= RawLimit - record
                     /\ whole
                  THEN raw + record ELSE raw
    /\ RxGoes(IF rx.frame.id = 0 THEN "idle" ELSE "begin")
    /\ UNCHANGED <<bridge, handed, diag>> /\ Observing

(* rgi_diag_rx_begin; only a complete frame is handed on.                  *)
RxBegin ==
    /\ rx.at = "begin"
    /\ diag' = [diag EXCEPT !.seq = @ + 1, !.current = diag.seq + 1,
                            !.msg = rx.frame.id]
    /\ rx' = [rx EXCEPT !.at = IF rx.frame.complete THEN "feed" ELSE "end",
                        !.seq = diag.seq + 1]
    /\ UNCHANGED <<bridge, handed, raw>> /\ Observing

(* k2161_rgi_bridge_feed: the bus is looked at, or started, under the one  *)
(* lock, and the message handed to the parser under the other.             *)
FeedRefused ==
    /\ rx.at = "feed"
    /\ rx.frame.id \notin Expected
    /\ RxGoes("end")
    /\ UNCHANGED <<bridge, handed, diag, raw>> /\ Observing

FeedInit ==
    /\ rx.at = "feed"
    /\ rx.frame.id \in Expected
    /\ \E ok \in BOOLEAN : BridgeInit(ok)
    /\ RxGoes(IF ~bridge.down /\ bridge'.ready THEN "hand" ELSE "end")
    /\ UNCHANGED <<handed, diag, raw>> /\ Observing

FeedHand ==
    /\ rx.at = "hand"
    /\ handed' = handed + 1
    /\ RxGoes("end")
    /\ UNCHANGED <<bridge, diag, raw>> /\ Observing

(* rgi_diag_rx_end.                                                        *)
(* Mutant: the message stays the current one. *)
RxEndForgotten ==
    /\ rx.at = "end"
    /\ RxGoes("idle")
    /\ UNCHANGED <<bridge, handed, diag, raw>> /\ Observing

RxEnd ==
    /\ rx.at = "end"
    /\ diag' = IF diag.current = rx.seq
               THEN [diag EXCEPT !.current = 0, !.msg = 0] ELSE diag
    /\ RxGoes("idle")
    /\ UNCHANGED <<bridge, handed, raw>> /\ Observing

-----------------------------------------------------------------------------
(* Threads of the driver.                                                  *)

Elsewhere == UNCHANGED <<build, base, mem, mine, attempted, rx, loader, bridge,
                         handed, raw, packets>>

(* It reads the word, and later calls what it read.                        *)
Fetch(c) ==
    /\ stock[c] = "none"
    /\ stock' = [stock EXCEPT ![c] = mem[c]]
    /\ UNCHANGED <<lookup, diag, alive>> /\ Elsewhere

(* The wrapper of the identification looks whether it has a stock function *)
(* to call; those of the two callbacks call it.                            *)
CallsNull(c) == c # "ident" /\ stock[c] = "ours" /\ ~mine[c]

Call(c) ==
    /\ stock[c] # "none"
    /\ stock' = [stock EXCEPT ![c] = "none"]
    /\ alive' = ~CallsNull(c)
    /\ UNCHANGED <<lookup, diag>> /\ Elsewhere

(* StartIdentification at the wrapper of the messages begins a new session *)
(* of the diagnostics before the stock function is called.                 *)
StartIdentification ==
    /\ stock["msg"] = "ours"
    /\ diag.session < Sessions
    /\ stock' = [stock EXCEPT !["msg"] = "none"]
    /\ diag' = [session |-> diag.session + 1, seq |-> 0, current |-> 0, msg |-> 0]
    /\ alive' = ~CallsNull("msg")
    /\ UNCHANGED lookup /\ Elsewhere

(* The lookup checks the count before it uses the messages.                *)
LookupCount ==
    /\ ~lookup
    /\ mem.count # "null"
    /\ lookup' = TRUE
    /\ UNCHANGED <<stock, diag, alive>> /\ Elsewhere

LookupUse ==
    /\ lookup
    /\ lookup' = FALSE
    /\ alive' = (mem.messages # "null")
    /\ UNCHANGED <<stock, diag>> /\ Elsewhere

-----------------------------------------------------------------------------
(* k2161_rgi_bridge_shutdown, from the destructor of the library: the lock *)
(* is held while the parser and the bus are taken down.                    *)
Shutdown ==
    /\ bridge.lock = "free"
    /\ ~bridge.down
    /\ bridge' = [bridge EXCEPT !.down = TRUE,
                                !.lock = IF bridge.ready THEN "exit" ELSE "free"]
    /\ UNCHANGED <<build, base, mem, mine, attempted, rx, loader, stock, lookup,
                   handed, diag, raw, packets, alive>>

ShutdownDone ==
    /\ bridge.lock = "exit"
    /\ bridge' = [bridge EXCEPT !.ready = FALSE, !.lock = "free"]
    /\ UNCHANGED <<build, base, mem, mine, attempted, rx, loader, stock, lookup,
                   handed, diag, raw, packets, alive>>

Install == \/ IdentPrepare \/ IdentWrite \/ IdentVerify \/ IdentClear
           \/ TableCheck \/ TableName \/ TableMessages \/ TableCount \/ TableVerify
           \/ BackCount \/ BackMessages \/ BackName
           \/ SendPrepare \/ SendMsg \/ SendClose \/ SendVerify
           \/ BackMsg \/ BackClose \/ ClearMsg \/ ClearClose

Observe == \/ \E whole \in BOOLEAN : Capture(whole)
           \/ RxBegin \/ FeedRefused \/ FeedInit \/ FeedHand \/ RxEnd

Drive == \/ \E c \in Callbacks : Fetch(c) \/ Call(c)
         \/ StartIdentification \/ LookupCount \/ LookupUse

Running ==
    \/ \E driver \in BOOLEAN : Dlopen(driver)
    \/ DlopenInit
    \/ \E frame \in Frames : Receive(frame)
    \/ Install \/ Observe \/ Drive
    \/ Shutdown \/ ShutdownDone

(* A process that died stays so.                                           *)
Dead == ~alive /\ UNCHANGED installVars

InstallNext == (alive /\ Running) \/ Dead

(* The receiving thread and the exit go on with what they have begun.      *)
InstallSpec == /\ InstallInit /\ [][InstallNext]_installVars
               /\ WF_installVars(alive /\ Install)
               /\ WF_installVars(alive /\ Observe)
               /\ WF_installVars(alive /\ ShutdownDone)

-----------------------------------------------------------------------------
(* Properties.                                                             *)

Ats == {"idle", "ident", "ident_write", "ident_verify", "ident_clear",
        "table", "table_name", "table_messages", "table_count", "table_verify",
        "back_count", "back_messages", "back_name",
        "send", "send_msg", "send_close", "send_verify",
        "back_msg", "back_close", "clear_msg", "clear_close",
        "capture", "begin", "feed", "hand", "end"}
Contents == {"stock", "null", "ours", "else"}

MemType == [ident : Contents, msg : Contents, close : Contents,
            name : Contents, messages : Contents, count : Contents]
RxType == [at : Ats, frame : Frames \cup {NoFrame}, seq : Nat]

(* The shape of the state.                                                 *)
InstallTypeOK ==
    /\ build \in Builds
    /\ base \in BOOLEAN
    /\ mem \in MemType
    /\ mine \in [Callbacks -> BOOLEAN]
    /\ attempted \in BOOLEAN
    /\ rx \in RxType
    /\ loader \in {"idle", "init"}
    /\ stock \in [Callbacks -> Contents \cup {"none"}]
    /\ lookup \in BOOLEAN
    /\ bridge \in [ready : BOOLEAN, down : BOOLEAN, lock : {"free", "exit"}]
    /\ diag \in [session : Nat, seq : Nat, current : Nat, msg : {0} \cup RgiIds]
    /\ {handed, packets} \subseteq Nat
    /\ raw \in 0 .. RawLimit
    /\ alive \in BOOLEAN

(* 0x5200 is not armed, not even while the installation is half done,      *)
(* unless the identification and the whole group of the message table are  *)
(* in the same driver.                                                     *)
ArmedBehindIdent ==
    mem.msg = "ours" \/ mem.close = "ours" => mem.ident = "ours" /\ Rgi(mem)

(* Drivers that take neither or both of the callbacks, and no count        *)
(* without the words it counts for.                                        *)
CallbacksEven == "msg" \in build.keeps <=> "close" \in build.keeps
TableEven == "count" \in build.keeps => {"name", "messages"} \subseteq build.keeps

(* A wrapper that is in the driver has what it calls, also while it is     *)
(* taken out again.  One that a thread has fetched still has it when it is *)
(* called, unless one callback was taken back because the other could not  *)
(* be put in.                                                              *)
WrappersReturn ==
    \A c \in Callbacks :
        /\ mem[c] = "ours" => mine[c]
        /\ stock[c] = "ours" /\ (c = "ident" \/ CallbacksEven) => mine[c]

(* The count of group 0x52 is there only with the words it counts for,     *)
(* also while they are taken out again; a driver that refuses one of those *)
(* shows it until the read back only.  A lookup that saw the count uses    *)
(* messages that are there, unless the driver refused one.                 *)
SeenWhole ==
    /\ mem.count = "ours" =>
         /\ \A w \in {"name", "messages"} \cap build.keeps : mem[w] = "ours"
         /\ Rgi(mem) \/ rx.at \in {"table_verify", "back_count"}
    /\ lookup /\ TableEven => mem.messages # "null" /\ mem.name # "null"

(* What cannot be put in whole is taken out whole: outside of the steps    *)
(* that do so no part of a group or of the pair of callbacks is left, nor  *)
(* what a wrapper that is not there would call.                            *)
NothingHalf ==
    /\ rx.at \notin {"table_messages", "table_count", "table_verify",
                     "back_count", "back_messages", "back_name"} =>
         Rgi(mem) \/ "ours" \notin {mem.name, mem.messages, mem.count}
    /\ rx.at \notin {"send_msg", "send_close", "send_verify", "back_msg", "back_close",
                     "clear_msg", "clear_close"} =>
         \A c, d \in {"msg", "close"} : mem[c] = "ours" <=> mine[d]

(* The library does not make the process call or read through NULL, unless *)
(* the driver took a part of what was written and refused another.         *)
Survives == alive \/ ~CallbacksEven \/ ~TableEven

(* What is not the stock driver's is left as it is, and a check that fails *)
(* ends the installation: nothing behind it is touched.                    *)
ForeignKept ==
    /\ \A c \in Callbacks : build[c] = "else" => mem[c] = "else"
    /\ build.group = "else" => {mem.name, mem.messages, mem.count} = {"else"}
    /\ ~build.symbols => ~base /\ ~attempted
    /\ ~build.symbols \/ build.ident = "else" \/ build.group = "else" \/ ~build.refs
           => mem.msg = build.msg /\ mem.close = build.close
                /\ mem.name = build.group /\ mem.count = build.group

(* The installation is sound at every moment, also half done or undone     *)
(* under the threads of the driver.                                        *)
HooksSound == /\ ArmedBehindIdent /\ WrappersReturn /\ SeenWhole /\ NothingHalf
              /\ ForeignKept /\ Survives

(* A line of the diagnostics names the message at hand or, after a new     *)
(* session began in the middle of it, none: never another message.         *)
LinesNameTheMessage ==
    /\ rx.at \in {"feed", "hand", "end"} =>
         diag.current \in {0, rx.seq} /\ diag.msg \in {0, rx.frame.id}
    /\ rx.at \notin {"feed", "hand", "end"} => diag.current = 0 /\ diag.msg = 0

(* Once the library has been shut down the bus is not started again, by a  *)
(* late dlopen or a late frame, and of the frames received after that none *)
(* reaches the parser: only the one that had found the bus up before.      *)
StaysDown ==
    [][bridge.down => /\ bridge'.ready => bridge.ready
                      /\ handed' > handed => rx.at = "hand"
                      /\ rx'.at = "hand" => rx.at = "hand"]_installVars

(* In the driver the library was made for, the first packet leads to the   *)
(* hooks, and to stay.                                                     *)
Fits == /\ build.symbols /\ build.refs /\ build.keeps = DriverWords
        /\ build.ident = "stock" /\ build.msg = "stock" /\ build.close = "stock"
        /\ build.group = "null"
Arms == attempted /\ Fits ~> [](mem.msg = "ours" /\ mem.close = "ours")
=============================================================================

--------------------------- MODULE BoundaryProofs ---------------------------
(***************************************************************************)
(* Theorems about the three places where the library meets what is not its *)
(* own: the stock driver it installs itself in (HookInstall), the messages *)
(* of the phone (RgdTlv), and the information the receiver gives of itself *)
(* (AirPlayInfo).  They hold for any driver, whichever of its words keep   *)
(* what is written to them, for any messages and sizes of the arrays, and  *)
(* for any answers, files and failed allocations.                          *)
(***************************************************************************)
EXTENDS RgdTlv, HookInstall, AirPlayInfo, SequenceTheorems, WellFoundedInduction, TLAPS

-----------------------------------------------------------------------------
(* The driver's words: how far the installation has come.                  *)

TableAsBuilt == mem.name = build.group /\ mem.messages = build.group
                  /\ mem.count = build.group
IdentSteps == {"ident", "ident_write", "ident_verify", "ident_clear"}
TableSteps == {"table_messages", "table_count", "table_verify",
               "back_count", "back_messages", "back_name"}
ArmingSteps == {"send_msg", "send_close", "send_verify", "back_msg", "back_close",
                "clear_msg", "clear_close"}
TableFits == build.refs /\ build.group = "null"
SendFits == build.msg = "stock" /\ build.close = "stock"

(* What a word holds once it has been stored to.                           *)
Put(word, before) == mem[word] = IF word \in build.keeps THEN "ours" ELSE before

(* Before the identification is written, nothing is.                       *)
IdentStands ==
    /\ attempted => base
    /\ base => build.symbols
    /\ ~attempted => rx.at = "idle"
    /\ mem.ident = "ours" => mine["ident"]
    /\ mem.ident \in {build.ident, "ours"}
    /\ mem.ident = "ours" => attempted /\ build.ident = "stock"
    /\ rx.at \in {"ident", "ident_write"} => mem.ident = build.ident
    /\ rx.at = "ident_clear" => mem.ident # "ours"
    /\ rx.at \in {"ident_write", "ident_verify"} =>
         mine["ident"] /\ build.ident = "stock"

(* The group is untouched until the identification is in and the driver    *)
(* has been found to have no such group; then each word is stored to, the  *)
(* count last, and taken back, the count first, if the driver refused one. *)
TableStands ==
    /\ TableAsBuilt \/ (mem.ident = "ours" /\ TableFits)
    /\ ~attempted \/ rx.at \in IdentSteps \cup {"table", "table_name"} => TableAsBuilt
    /\ rx.at \in {"table", "table_name", "send"} \cup TableSteps \cup ArmingSteps =>
         mem.ident = "ours"
    /\ rx.at \in {"table_name"} \cup TableSteps => TableFits
    /\ mem.count \in {build.group, "ours"} /\ mem.messages \in {build.group, "ours"}
         /\ mem.name \in {build.group, "ours"}
    /\ rx.at \in TableSteps => Put("name", "null")
    /\ rx.at \in {"table_messages", "back_name"} => mem.messages = "null"
    /\ rx.at \in TableSteps \ {"table_messages", "back_name"} => Put("messages", "null")
    /\ rx.at \in {"table_verify", "back_count"} => Put("count", "null")
    /\ rx.at \in TableSteps \ {"table_verify", "back_count"} => mem.count = "null"
    /\ rx.at = "back_count" => ~Rgi(mem)
    /\ rx.at \notin TableSteps => TableAsBuilt \/ Rgi(mem)
    /\ rx.at \in {"send"} \cup ArmingSteps => Rgi(mem)

(* The callbacks are untouched until the group is in; then both are stored *)
(* to, and the one that was taken is taken back if the other was not.      *)
SendStands ==
    /\ mem.msg \in {build.msg, "ours"} /\ mem.close \in {build.close, "ours"}
    /\ mem.msg = "ours" \/ mem.close = "ours" =>
         mem.ident = "ours" /\ Rgi(mem) /\ TableFits /\ SendFits
    /\ ~attempted \/ rx.at \in IdentSteps \cup TableSteps \cup
         {"table", "table_name", "send", "send_msg", "clear_msg", "clear_close"} =>
         mem.msg = build.msg /\ mem.close = build.close
    /\ rx.at \in ArmingSteps => SendFits
    /\ rx.at \in ArmingSteps \ {"clear_close"} => mine["msg"] /\ mine["close"]
    /\ rx.at = "clear_close" => ~mine["msg"]
    /\ rx.at \in {"send_close", "send_verify", "back_msg"} => Put("msg", "stock")
    /\ rx.at = "send_close" => mem.close = "stock"
    /\ rx.at \in {"send_verify", "back_msg", "back_close"} => Put("close", "stock")
    /\ rx.at \in {"back_msg", "back_close"} => ~({"msg", "close"} \subseteq build.keeps)
    /\ rx.at = "back_close" => mem.msg = "stock"
    /\ rx.at \notin ArmingSteps =>
         \A c, d \in {"msg", "close"} : mem[c] = "ours" <=> mine[d]

(* What other threads have taken from the driver is still there, in a      *)
(* driver that does not take one word and refuse the other.                *)
ThreadsStand ==
    /\ stock["ident"] = "ours" => mem.ident = "ours"
    /\ stock["msg"] = "ours" /\ CallbacksEven => mem.msg = "ours"
    /\ stock["close"] = "ours" /\ CallbacksEven => mem.close = "ours"
    /\ lookup /\ TableEven => mem.count # "null"

Standing == IdentStands /\ TableStands /\ SendStands /\ ThreadsStand /\ Survives

-----------------------------------------------------------------------------
(* The shape of the state of the installation is kept by every step.       *)
LEMMA RxMoves ==
    ASSUME InstallTypeOK, NEW at \in Ats, RxGoes(at) PROVE rx' \in RxType
BY DEF InstallTypeOK, RxType, RxGoes, Idle, Ats

LEMMA StoresTyped ==
    ASSUME InstallTypeOK, NEW at, NEW word \in DriverWords, NEW value \in Contents,
           NEW next \in Ats, Stores(at, word, value, next)
    PROVE  InstallTypeOK'
<1>1. mem' \in MemType
      BY DEF InstallTypeOK, Stores, Written, DriverWords, MemType
<1> QED BY <1>1, RxMoves DEF InstallTypeOK, Stores, Installing

LEMMA LooksTyped ==
    ASSUME InstallTypeOK, NEW at, NEW good, NEW next \in Ats, NEW otherwise \in Ats,
           Looks(at, good, next, otherwise)
    PROVE  InstallTypeOK'
BY RxMoves DEF InstallTypeOK, Looks, Installing

LEMMA ClearsTyped ==
    ASSUME InstallTypeOK, NEW at, NEW c \in Callbacks, NEW next \in Ats,
           Clears(at, c, next)
    PROVE  InstallTypeOK'
<1>1. mine' \in [Callbacks -> BOOLEAN]
      BY ZenonT(40) DEF InstallTypeOK, Clears
<1> QED BY <1>1, RxMoves DEF InstallTypeOK, Clears, Installing

LEMMA InstallTyped ==
    InstallTypeOK /\ [InstallNext]_installVars => InstallTypeOK'
<1> SUFFICES ASSUME InstallTypeOK, [InstallNext]_installVars PROVE InstallTypeOK'
    OBVIOUS
<1> USE InstallAssumption, RxMoves DEF InstallTypeOK
<1>1. ASSUME NEW driver \in BOOLEAN, Dlopen(driver) PROVE InstallTypeOK'
      BY <1>1 DEF Dlopen
<1>2. CASE DlopenInit BY <1>2 DEF DlopenInit, BridgeInit
<1>3. ASSUME NEW frame \in Frames, Receive(frame) PROVE InstallTypeOK'
      BY <1>3 DEF Receive, RxType, Ats
<1>4. CASE Install
  <2>1. CASE IdentPrepare BY <2>1, ZenonT(40) DEF IdentPrepare, Installing, Ats, Callbacks
  <2>2. CASE IdentWrite BY <2>2, StoresTyped DEF IdentWrite, Ats, DriverWords, Contents
  <2>3. CASE IdentVerify BY <2>3, LooksTyped DEF IdentVerify, Ats
  <2>4. CASE IdentClear BY <2>4, ClearsTyped DEF IdentClear, Ats, Callbacks
  <2>5. CASE TableCheck BY <2>5, LooksTyped DEF TableCheck, Ats
  <2>6. CASE TableName BY <2>6, StoresTyped DEF TableName, Ats, DriverWords, Contents
  <2>7. CASE TableMessages BY <2>7, StoresTyped DEF TableMessages, Ats, DriverWords, Contents
  <2>8. CASE TableCount BY <2>8, StoresTyped DEF TableCount, Ats, DriverWords, Contents
  <2>9. CASE TableVerify BY <2>9, LooksTyped DEF TableVerify, Ats
  <2>10. CASE BackCount BY <2>10, StoresTyped DEF BackCount, Ats, DriverWords, Contents
  <2>11. CASE BackMessages BY <2>11, StoresTyped DEF BackMessages, Ats, DriverWords, Contents
  <2>12. CASE BackName BY <2>12, StoresTyped DEF BackName, Ats, DriverWords, Contents
  <2>13. CASE SendPrepare BY <2>13, ZenonT(40) DEF SendPrepare, Installing, Ats, Callbacks
  <2>14. CASE SendMsg BY <2>14, StoresTyped DEF SendMsg, Ats, DriverWords, Contents
  <2>15. CASE SendClose BY <2>15, StoresTyped DEF SendClose, Ats, DriverWords, Contents
  <2>16. CASE SendVerify BY <2>16, LooksTyped DEF SendVerify, Ats
  <2>17. CASE BackMsg BY <2>17, StoresTyped, LooksTyped DEF BackMsg, Ats, DriverWords, Contents
  <2>18. CASE BackClose BY <2>18, StoresTyped, LooksTyped DEF BackClose, Ats, DriverWords, Contents
  <2>19. CASE ClearMsg BY <2>19, ClearsTyped DEF ClearMsg, Ats, Callbacks
  <2>20. CASE ClearClose BY <2>20, ClearsTyped DEF ClearClose, Ats, Callbacks
  <2> QED BY <1>4, <2>1, <2>2, <2>3, <2>4, <2>5, <2>6, <2>7, <2>8, <2>9, <2>10,
             <2>11, <2>12, <2>13, <2>14, <2>15, <2>16, <2>17, <2>18, <2>19, <2>20
             DEF Install
<1>5. CASE Observe
  <2>1. ASSUME NEW written \in BOOLEAN, Capture(written) PROVE InstallTypeOK'
        BY <2>1 DEF Capture, Observing, Ats, RxType, NoFrame
  <2>2. CASE RxBegin
    <3>1. rx.frame.id \in {0} \cup RgiIds
          BY DEF RxType, NoFrame
    <3>0. diag.seq \in Nat /\ diag.seq + 1 \in Nat
          OBVIOUS
    <3>2. rx' \in RxType
          BY <2>2, <3>0 DEF RxBegin, RxType, Ats
    <3>3. diag' \in [session : Nat, seq : Nat, current : Nat, msg : {0} \cup RgiIds]
          BY <2>2, <3>0, <3>1 DEF RxBegin
    <3> QED BY <2>2, <3>2, <3>3 DEF RxBegin, Observing
  <2>3. CASE FeedRefused BY <2>3 DEF FeedRefused, Observing, Ats
  <2>4. CASE FeedInit BY <2>4 DEF FeedInit, BridgeInit, Observing, Ats
  <2>5. CASE FeedHand BY <2>5 DEF FeedHand, Observing, Ats
  <2>6. CASE RxEnd BY <2>6 DEF RxEnd, Observing, Ats
  <2> QED BY <1>5, <2>1, <2>2, <2>3, <2>4, <2>5, <2>6 DEF Observe
<1>6. CASE Drive
  <2>1. ASSUME NEW c \in Callbacks, Fetch(c) PROVE InstallTypeOK'
        BY <2>1 DEF Fetch, Elsewhere, MemType, Callbacks
  <2>2. ASSUME NEW c \in Callbacks, Call(c) PROVE InstallTypeOK'
        BY <2>2 DEF Call, CallsNull, Elsewhere
  <2>3. CASE StartIdentification
    <3>1. stock' \in [Callbacks -> Contents \cup {"none"}]
          BY <2>3 DEF StartIdentification
    <3>2. diag' \in [session : Nat, seq : Nat, current : Nat, msg : {0} \cup RgiIds]
          BY <2>3 DEF StartIdentification
    <3> QED BY <2>3, <3>1, <3>2 DEF StartIdentification, CallsNull, Elsewhere
  <2>4. CASE LookupCount BY <2>4 DEF LookupCount, Elsewhere
  <2>5. CASE LookupUse BY <2>5 DEF LookupUse, Elsewhere
  <2> QED BY <1>6, <2>1, <2>2, <2>3, <2>4, <2>5 DEF Drive
<1>7. CASE Shutdown BY <1>7 DEF Shutdown
<1>8. CASE ShutdownDone BY <1>8 DEF ShutdownDone
<1>9. CASE UNCHANGED installVars BY <1>9 DEF installVars
<1> QED BY <1>1, <1>2, <1>3, <1>4, <1>5, <1>6, <1>7, <1>8, <1>9
        DEF InstallNext, Running, Dead

LEMMA InstallBegins == InstallInit => InstallTypeOK /\ Standing
<1> SUFFICES ASSUME InstallInit PROVE InstallTypeOK /\ Standing
    OBVIOUS
<1> USE InstallAssumption DEF InstallInit
<1>1. build \in Build BY DEF InstallInit
<1>2. InstallTypeOK
  <2>1. mem \in MemType
        BY <1>1 DEF Build, MemType, Contents
  <2>2. rx \in RxType
        BY DEF RxType, Idle, Ats
  <2>3. mine \in [Callbacks -> BOOLEAN] /\ stock \in [Callbacks -> Contents \cup {"none"}]
        OBVIOUS
  <2>4. raw \in 0 .. RawLimit /\ {handed, packets} \subseteq Nat
        OBVIOUS
  <2>5. bridge \in [ready : BOOLEAN, down : BOOLEAN, lock : {"free", "exit"}]
        OBVIOUS
  <2>6. diag \in [session : Nat, seq : Nat, current : Nat, msg : {0} \cup RgiIds]
        OBVIOUS
  <2>7. base \in BOOLEAN /\ alive \in BOOLEAN
        BY <1>1 DEF Build
  <2> QED BY <1>1, <2>1, <2>2, <2>3, <2>4, <2>5, <2>6, <2>7 DEF InstallTypeOK
<1>3. IdentStands BY <1>1 DEF IdentStands, Build, Idle
<1>4. TableStands
      BY <1>1 DEF TableStands, Build, Idle, TableAsBuilt, IdentSteps, TableSteps, ArmingSteps
<1>5. SendStands
      BY <1>1 DEF SendStands, Build, Idle, IdentSteps, TableSteps, ArmingSteps, Callbacks
<1>6. ThreadsStand /\ Survives BY DEF ThreadsStand, Survives, Callbacks
<1> QED BY <1>2, <1>3, <1>4, <1>5, <1>6 DEF Standing

(* What the wrappers and the lookup need is in place.                      *)
LEMMA InPlace == InstallTypeOK /\ Standing => WrappersReturn /\ SeenWhole
<1> SUFFICES ASSUME InstallTypeOK, Standing PROVE WrappersReturn /\ SeenWhole
    OBVIOUS
<1>0. build \in Build
      BY InstallAssumption DEF InstallTypeOK
<1> USE <1>0 DEF Standing
<1>1. \A c \in Callbacks : mem[c] = "ours" => mine[c]
  <2>1. mem.ident = "ours" => mine["ident"]
        BY DEF IdentStands
  <2>2. mem.msg = "ours" \/ mem.close = "ours" => rx.at # "clear_close"
        BY DEF SendStands, SendFits
  <2>3. rx.at \in ArmingSteps \ {"clear_close"} => mine["msg"] /\ mine["close"]
        BY DEF SendStands
  <2>4. rx.at \notin ArmingSteps =>
          (mem.msg = "ours" => mine["msg"]) /\ (mem.close = "ours" => mine["close"])
        BY DEF SendStands
  <2> QED BY <2>1, <2>2, <2>3, <2>4 DEF Callbacks
<1>2. \A c \in Callbacks : stock[c] = "ours" /\ (c = "ident" \/ CallbacksEven) =>
        mem[c] = "ours"
      BY DEF ThreadsStand, Callbacks
<1>3. mem.count = "ours" =>
        /\ \A w \in {"name", "messages"} \cap build.keeps : mem[w] = "ours"
        /\ Rgi(mem) \/ rx.at \in {"table_verify", "back_count"}
      BY DEF TableStands, TableAsBuilt, TableFits, TableSteps, Put, Rgi, Build
<1>4. lookup /\ TableEven => mem.messages # "null" /\ mem.name # "null"
      BY DEF ThreadsStand, TableStands, TableAsBuilt, TableSteps, TableEven, Put, Rgi, Build
<1> QED BY <1>1, <1>2, <1>3, <1>4 DEF WrappersReturn, SeenWhole

(* A step that leaves the driver's words, the wrappers and the place of    *)
(* the receiving thread in the installation alone.                         *)
After == {"idle", "capture", "begin", "feed", "hand", "end"}

LEMMA InstallPreserves ==
    InstallTypeOK /\ Standing /\ [InstallNext]_installVars => Standing'
<1> SUFFICES ASSUME InstallTypeOK, Standing, [InstallNext]_installVars PROVE Standing'
    OBVIOUS
<1>0. /\ build \in Build /\ mem \in MemType /\ rx \in RxType
      /\ mine \in [Callbacks -> BOOLEAN]
      BY InstallAssumption DEF InstallTypeOK
<1>1. ASSUME NEW driver \in BOOLEAN, Dlopen(driver) PROVE Standing'
  <2>1. IdentStands'
        BY <1>0, <1>1 DEF Dlopen, Standing, IdentStands
  <2>2. /\ TableStands' /\ SendStands' /\ ThreadsStand' /\ Survives'
        BY <1>1 DEF Dlopen, Standing, TableStands, SendStands, ThreadsStand,
           TableAsBuilt, IdentSteps, TableSteps, ArmingSteps, SendFits, TableFits, Rgi, Put,
           CallbacksEven, TableEven, Survives
  <2> QED BY <2>1, <2>2 DEF Standing
<1>3. ASSUME NEW frame \in Frames, Receive(frame) PROVE Standing'
      BY <1>0, <1>3 DEF Receive, Standing, IdentStands, TableStands, SendStands, ThreadsStand,
         TableAsBuilt, IdentSteps, TableSteps, ArmingSteps, SendFits, TableFits, Rgi, Put,
         CallbacksEven, TableEven, Survives
<1>4. CASE Install
  <2> USE <1>0 DEF Standing, Installing, RxGoes, MemType, RxType, Callbacks, Build, Contents,
             DriverWords, TableAsBuilt, IdentSteps, TableSteps, ArmingSteps, CallbacksEven, TableEven,
             Survives, Idle, Stores, Looks, Clears, Written, Rgi, Put, TableFits, SendFits
  <2>1. CASE IdentPrepare
    <3>1. IdentStands' BY <2>1 DEF IdentPrepare, IdentStands
    <3>2. TableStands' BY <2>1 DEF IdentPrepare, TableStands, IdentStands
    <3>3. SendStands' BY <2>1 DEF IdentPrepare, SendStands, TableStands
    <3>4. ThreadsStand' /\ Survives' BY <2>1 DEF IdentPrepare, ThreadsStand, TableStands, SendStands
    <3> QED BY <3>1, <3>2, <3>3, <3>4
  <2>2. CASE IdentWrite
    <3>1. IdentStands' BY <2>2 DEF IdentWrite, IdentStands
    <3>2. TableStands' BY <2>2 DEF IdentWrite, TableStands, IdentStands
    <3>3. SendStands' BY <2>2 DEF IdentWrite, SendStands, TableStands
    <3>4. ThreadsStand' /\ Survives' BY <2>2 DEF IdentWrite, ThreadsStand, TableStands, SendStands
    <3> QED BY <3>1, <3>2, <3>3, <3>4
  <2>3. CASE IdentVerify
    <3>1. IdentStands' BY <2>3 DEF IdentVerify, IdentStands
    <3>2. TableStands' BY <2>3 DEF IdentVerify, TableStands, IdentStands
    <3>3. SendStands' BY <2>3 DEF IdentVerify, SendStands, TableStands
    <3>4. ThreadsStand' /\ Survives' BY <2>3 DEF IdentVerify, ThreadsStand, TableStands, SendStands
    <3> QED BY <3>1, <3>2, <3>3, <3>4
  <2>4. CASE IdentClear
    <3>1. IdentStands' BY <2>4 DEF IdentClear, IdentStands
    <3>2. TableStands' BY <2>4 DEF IdentClear, TableStands, IdentStands
    <3>3. SendStands' BY <2>4 DEF IdentClear, SendStands, TableStands
    <3>4. ThreadsStand' /\ Survives' BY <2>4 DEF IdentClear, ThreadsStand, TableStands, SendStands
    <3> QED BY <3>1, <3>2, <3>3, <3>4
  <2>5. CASE TableCheck
    <3>1. IdentStands' BY <2>5 DEF TableCheck, IdentStands
    <3>2. TableStands' BY <2>5 DEF TableCheck, TableStands, IdentStands
    <3>3. SendStands' BY <2>5 DEF TableCheck, SendStands, TableStands
    <3>4. ThreadsStand' /\ Survives' BY <2>5 DEF TableCheck, ThreadsStand, TableStands, SendStands
    <3> QED BY <3>1, <3>2, <3>3, <3>4
  <2>6. CASE TableName
    <3>1. IdentStands' BY <2>6 DEF TableName, IdentStands
    <3>2. TableStands' BY <2>6 DEF TableName, TableStands, IdentStands
    <3>3. SendStands' BY <2>6 DEF TableName, SendStands, TableStands
    <3>4. ThreadsStand' /\ Survives' BY <2>6 DEF TableName, ThreadsStand, TableStands, SendStands
    <3> QED BY <3>1, <3>2, <3>3, <3>4
  <2>7. CASE TableMessages
    <3>1. IdentStands' BY <2>7 DEF TableMessages, IdentStands
    <3>2. TableStands' BY <2>7 DEF TableMessages, TableStands, IdentStands
    <3>3. SendStands' BY <2>7 DEF TableMessages, SendStands, TableStands
    <3>4. ThreadsStand' /\ Survives' BY <2>7 DEF TableMessages, ThreadsStand, TableStands, SendStands
    <3> QED BY <3>1, <3>2, <3>3, <3>4
  <2>8. CASE TableCount
    <3>1. IdentStands' BY <2>8 DEF TableCount, IdentStands
    <3>2. TableStands' BY <2>8 DEF TableCount, TableStands, IdentStands
    <3>3. SendStands' BY <2>8 DEF TableCount, SendStands, TableStands
    <3>4. ThreadsStand' /\ Survives' BY <2>8 DEF TableCount, ThreadsStand, TableStands, SendStands
    <3> QED BY <3>1, <3>2, <3>3, <3>4
  <2>9. CASE TableVerify
    <3>1. IdentStands' BY <2>9 DEF TableVerify, IdentStands
    <3>2. TableStands' BY <2>9 DEF TableVerify, TableStands, IdentStands
    <3>3. SendStands' BY <2>9 DEF TableVerify, SendStands, TableStands
    <3>4. ThreadsStand' /\ Survives' BY <2>9 DEF TableVerify, ThreadsStand, TableStands, SendStands
    <3> QED BY <3>1, <3>2, <3>3, <3>4
  <2>10. CASE BackCount
    <3>1. IdentStands' BY <2>10 DEF BackCount, IdentStands
    <3>2. TableStands' BY <2>10 DEF BackCount, TableStands, IdentStands
    <3>3. SendStands' BY <2>10 DEF BackCount, SendStands, TableStands
    <3>4. ThreadsStand' /\ Survives' BY <2>10 DEF BackCount, ThreadsStand, TableStands, SendStands
    <3> QED BY <3>1, <3>2, <3>3, <3>4
  <2>11. CASE BackMessages
    <3>1. IdentStands' BY <2>11 DEF BackMessages, IdentStands
    <3>2. TableStands' BY <2>11 DEF BackMessages, TableStands, IdentStands
    <3>3. SendStands' BY <2>11 DEF BackMessages, SendStands, TableStands
    <3>4. ThreadsStand' /\ Survives' BY <2>11 DEF BackMessages, ThreadsStand, TableStands, SendStands
    <3> QED BY <3>1, <3>2, <3>3, <3>4
  <2>12. CASE BackName
    <3>1. IdentStands' BY <2>12 DEF BackName, IdentStands
    <3>2. TableStands' BY <2>12 DEF BackName, TableStands, IdentStands
    <3>3. SendStands' BY <2>12 DEF BackName, SendStands, TableStands
    <3>4. ThreadsStand' /\ Survives' BY <2>12 DEF BackName, ThreadsStand, TableStands, SendStands
    <3> QED BY <3>1, <3>2, <3>3, <3>4
  <2>13. CASE SendPrepare
    <3>1. IdentStands' BY <2>13 DEF SendPrepare, IdentStands
    <3>2. TableStands' BY <2>13 DEF SendPrepare, TableStands, IdentStands
    <3>3. SendStands' BY <2>13 DEF SendPrepare, SendStands, TableStands
    <3>4. ThreadsStand' /\ Survives' BY <2>13 DEF SendPrepare, ThreadsStand, TableStands, SendStands
    <3> QED BY <3>1, <3>2, <3>3, <3>4
  <2>14. CASE SendMsg
    <3>1. IdentStands' BY <2>14 DEF SendMsg, IdentStands
    <3>2. TableStands' BY <2>14 DEF SendMsg, TableStands, IdentStands
    <3>3. SendStands' BY <2>14 DEF SendMsg, SendStands, TableStands
    <3>4. ThreadsStand' /\ Survives' BY <2>14 DEF SendMsg, ThreadsStand, TableStands, SendStands
    <3> QED BY <3>1, <3>2, <3>3, <3>4
  <2>15. CASE SendClose
    <3>1. IdentStands' BY <2>15 DEF SendClose, IdentStands
    <3>2. TableStands' BY <2>15 DEF SendClose, TableStands, IdentStands
    <3>3. SendStands' BY <2>15 DEF SendClose, SendStands, TableStands
    <3>4. ThreadsStand' /\ Survives' BY <2>15 DEF SendClose, ThreadsStand, TableStands, SendStands
    <3> QED BY <3>1, <3>2, <3>3, <3>4
  <2>16. CASE SendVerify
    <3>1. IdentStands' BY <2>16 DEF SendVerify, IdentStands
    <3>2. TableStands' BY <2>16 DEF SendVerify, TableStands, IdentStands
    <3>3. SendStands' BY <2>16 DEF SendVerify, SendStands, TableStands
    <3>4. ThreadsStand' /\ Survives' BY <2>16 DEF SendVerify, ThreadsStand, TableStands, SendStands
    <3> QED BY <3>1, <3>2, <3>3, <3>4
  <2>17. CASE BackMsg
    <3>1. IdentStands' BY <2>17 DEF BackMsg, IdentStands
    <3>2. TableStands' BY <2>17 DEF BackMsg, TableStands, IdentStands
    <3>3. SendStands' BY <2>17 DEF BackMsg, SendStands, TableStands
    <3>4. ThreadsStand' /\ Survives' BY <2>17 DEF BackMsg, ThreadsStand, TableStands, SendStands
    <3> QED BY <3>1, <3>2, <3>3, <3>4
  <2>18. CASE BackClose
    <3>1. IdentStands' BY <2>18 DEF BackClose, IdentStands
    <3>2. TableStands' BY <2>18 DEF BackClose, TableStands, IdentStands
    <3>3. SendStands' BY <2>18 DEF BackClose, SendStands, TableStands
    <3>4. ThreadsStand' /\ Survives'
      <4>1. CASE mem.close = "ours"
        <5>1. ~CallbacksEven
              BY <2>18, <4>1 DEF BackClose, SendStands
        <5> QED BY <2>18, <4>1, <5>1 DEF BackClose, ThreadsStand
      <4>2. CASE mem.close # "ours"
            BY <2>18, <4>2 DEF BackClose, ThreadsStand
      <4> QED BY <4>1, <4>2
    <3> QED BY <3>1, <3>2, <3>3, <3>4
  <2>19. CASE ClearMsg
    <3>1. IdentStands' BY <2>19 DEF ClearMsg, IdentStands
    <3>2. TableStands' BY <2>19 DEF ClearMsg, TableStands, IdentStands
    <3>3. SendStands' BY <2>19 DEF ClearMsg, SendStands, TableStands
    <3>4. ThreadsStand' /\ Survives' BY <2>19 DEF ClearMsg, ThreadsStand, TableStands, SendStands
    <3> QED BY <3>1, <3>2, <3>3, <3>4
  <2>20. CASE ClearClose
    <3>1. IdentStands' BY <2>20 DEF ClearClose, IdentStands
    <3>2. TableStands' BY <2>20 DEF ClearClose, TableStands, IdentStands
    <3>3. SendStands' BY <2>20 DEF ClearClose, SendStands, TableStands
    <3>4. ThreadsStand' /\ Survives' BY <2>20 DEF ClearClose, ThreadsStand, TableStands, SendStands
    <3> QED BY <3>1, <3>2, <3>3, <3>4
  <2> QED BY <1>4, <2>1, <2>2, <2>3, <2>4, <2>5, <2>6, <2>7, <2>8, <2>9, <2>10,
             <2>11, <2>12, <2>13, <2>14, <2>15, <2>16, <2>17, <2>18, <2>19, <2>20
             DEF Install
<1>5. CASE Observe
  <2>1. /\ UNCHANGED <<build, base, mem, mine, attempted, stock, lookup>>
        /\ rx.at \in After /\ rx'.at \in After /\ attempted /\ alive' = alive
    <3>1. CASE \E written \in BOOLEAN : Capture(written)
          BY <1>0, <3>1 DEF Capture, Observing, RxGoes, Idle, RxType, After, Standing, IdentStands
    <3>2. CASE RxBegin
          BY <1>0, <3>2 DEF RxBegin, Observing, RxType, After, Standing, IdentStands
    <3>3. CASE FeedRefused \/ FeedInit \/ FeedHand
          BY <1>0, <3>3 DEF FeedRefused, FeedInit, FeedHand, Observing, RxGoes, Idle, RxType,
             After, Standing, IdentStands
    <3>4. CASE RxEnd
          BY <1>0, <3>4 DEF RxEnd, Observing, RxGoes, Idle, After, Standing, IdentStands
    <3> QED BY <1>5, <3>1, <3>2, <3>3, <3>4 DEF Observe
  <2> QED BY <2>1 DEF Standing, IdentStands, TableStands, SendStands, ThreadsStand, After,
             TableAsBuilt, IdentSteps, TableSteps, ArmingSteps, SendFits, TableFits, Rgi, Put,
             CallbacksEven, TableEven, Survives
<1>6. CASE Drive
  <2>1. UNCHANGED <<build, base, mem, mine, attempted, rx>>
        BY <1>6 DEF Drive, Fetch, Call, StartIdentification, LookupCount, LookupUse, Elsewhere
  <2>2. ThreadsStand'
        BY <1>0, <1>6, <2>1 DEF Drive, Fetch, Call, StartIdentification, LookupCount, LookupUse,
           Standing, ThreadsStand, Callbacks, InstallTypeOK, CallbacksEven, TableEven
  <2>3. CallbacksEven => \A c \in Callbacks : ~CallsNull(c)
        BY InPlace DEF CallsNull, WrappersReturn
  <2>4. lookup /\ TableEven => mem.messages # "null"
        BY InPlace DEF SeenWhole
  <2>5. Survives'
    <3>1. CASE alive' = alive
          BY <3>1, <2>1 DEF Standing, Survives, CallbacksEven, TableEven
    <3>2. ASSUME NEW c \in Callbacks, alive' = ~CallsNull(c) PROVE Survives'
          BY <3>2, <2>1, <2>3 DEF Survives, CallbacksEven, TableEven
    <3>3. CASE LookupUse
          BY <3>3, <2>1, <2>4 DEF LookupUse, Survives, CallbacksEven, TableEven
    <3> QED BY <1>6, <3>1, <3>2, <3>3
               DEF Drive, Fetch, Call, StartIdentification, LookupCount, Callbacks
  <2> QED BY <2>1, <2>2, <2>5 DEF Standing, IdentStands, TableStands, SendStands,
             TableAsBuilt, IdentSteps, TableSteps, ArmingSteps, SendFits, TableFits, Rgi, Put
<1>7. CASE DlopenInit \/ Shutdown \/ ShutdownDone \/ UNCHANGED installVars
      BY <1>7 DEF DlopenInit, Shutdown, ShutdownDone, installVars, Standing, IdentStands,
         TableStands, SendStands, ThreadsStand, TableAsBuilt, IdentSteps, TableSteps,
         ArmingSteps, SendFits, TableFits, Rgi, Put, CallbacksEven, TableEven, Survives
<1> QED BY <1>1, <1>3, <1>4, <1>5, <1>6, <1>7 DEF InstallNext, Running, Dead

(* The state of the installation keeps its shape: what was captured never  *)
(* exceeds the limit of the raw capture.                                   *)
THEOREM InstallTypeCorrect == InstallSpec => []InstallTypeOK
BY InstallBegins, InstallTyped, PTL DEF InstallSpec

LEMMA StandsAlways == InstallSpec => [](InstallTypeOK /\ Standing)
BY InstallBegins, InstallTyped, InstallPreserves, PTL DEF InstallSpec

(* HooksSound, for any driver, any of the six words that does not keep     *)
(* what is written to it, and threads of the driver that look at any       *)
(* moment: half done or undone, a wrapper that is in the driver has what   *)
(* it calls.  What a thread has fetched is still in place in a driver that *)
(* takes both callbacks or none (CallbacksEven), as a word is then only    *)
(* undone when it was never there; where one is taken back because of the  *)
(* other, nothing is said of the thread that has it.  So with a lookup and *)
(* a driver that takes the count but not what it counts (TableEven).       *)
THEOREM InstallSound == InstallSpec => []HooksSound
<1>1. InstallTypeOK /\ Standing => HooksSound
  <2> SUFFICES ASSUME InstallTypeOK, Standing PROVE HooksSound
      OBVIOUS
  <2>0. build \in Build
        BY InstallAssumption DEF InstallTypeOK
  <2> USE <2>0 DEF Standing
  <2>1. ArmedBehindIdent
        BY DEF ArmedBehindIdent, SendStands
  <2>2. WrappersReturn /\ SeenWhole
        BY InPlace DEF Standing
  <2>5. NothingHalf
    <3>1. rx.at \notin TableSteps => Rgi(mem) \/ "ours" \notin {mem.name, mem.messages, mem.count}
          BY DEF TableStands, TableAsBuilt, Build
    <3>2. rx.at \notin ArmingSteps =>
            \A c, d \in {"msg", "close"} : mem[c] = "ours" <=> mine[d]
          BY DEF SendStands
    <3> QED BY <3>1, <3>2 DEF NothingHalf, TableSteps, ArmingSteps
  <2>4. ForeignKept
    <3>1. \A c \in Callbacks : build[c] = "else" => mem[c] = "else"
          BY DEF IdentStands, SendStands, SendFits, Callbacks
    <3>2. build.group = "else" => {mem.name, mem.messages, mem.count} = {"else"}
          BY DEF TableStands, TableAsBuilt, TableFits
    <3>3. ~build.symbols => ~base /\ ~attempted
          BY DEF IdentStands
    <3>4. ~build.symbols \/ build.ident = "else" \/ build.group = "else" \/ ~build.refs
             => mem.msg = build.msg /\ mem.close = build.close
                  /\ mem.name = build.group /\ mem.count = build.group
          BY <3>3 DEF IdentStands, TableStands, SendStands, TableAsBuilt, TableFits
    <3> QED BY <3>1, <3>2, <3>3, <3>4 DEF ForeignKept
  <2> QED BY <2>1, <2>2, <2>4, <2>5 DEF HooksSound
<1> QED BY <1>1, StandsAlways, PTL
-----------------------------------------------------------------------------
(* The diagnostics: the current message is the one at hand or none, and    *)
(* none has no identifier.                                                 *)
Diagnosed == LinesNameTheMessage /\ (diag.current = 0 => diag.msg = 0)

LEMMA DiagnosedStays ==
    InstallTypeOK /\ Diagnosed /\ [InstallNext]_installVars => Diagnosed'
<1> SUFFICES ASSUME InstallTypeOK, Diagnosed, [InstallNext]_installVars PROVE Diagnosed'
    OBVIOUS
<1>0. rx \in RxType /\ diag \in [session : Nat, seq : Nat, current : Nat, msg : {0} \cup RgiIds]
      BY DEF InstallTypeOK
<1> USE <1>0 DEF Diagnosed, LinesNameTheMessage, RxType
<1>1. CASE \/ \E driver \in BOOLEAN : Dlopen(driver)
           \/ DlopenInit \/ Shutdown \/ ShutdownDone \/ UNCHANGED installVars
      BY <1>1 DEF Dlopen, DlopenInit, Shutdown, ShutdownDone, installVars
<1>2. ASSUME NEW frame \in Frames, Receive(frame) PROVE Diagnosed'
      BY <1>2 DEF Receive
<1>3. CASE Install
  <2>1. /\ UNCHANGED diag
        /\ rx.at \notin {"feed", "hand", "end"} /\ rx'.at \notin {"feed", "hand", "end"}
        BY <1>3 DEF Install, IdentPrepare, IdentWrite, IdentVerify, IdentClear, TableCheck,
           TableName, TableMessages, TableCount, TableVerify, BackCount, BackMessages, BackName,
           SendPrepare, SendMsg, SendClose, SendVerify, BackMsg, BackClose, ClearMsg, ClearClose,
           Stores, Looks, Clears, Installing, RxGoes, Idle
  <2> QED BY <2>1
<1>4. CASE Observe
  <2>1. ASSUME NEW written \in BOOLEAN, Capture(written) PROVE Diagnosed'
        BY <2>1 DEF Capture, RxGoes, Idle
  <2>2. CASE RxBegin BY <2>2 DEF RxBegin
  <2>3. CASE FeedRefused \/ FeedInit \/ FeedHand
        BY <2>3 DEF FeedRefused, FeedInit, FeedHand, RxGoes, Idle
  <2>4. CASE RxEnd BY <2>4 DEF RxEnd, RxGoes, Idle
  <2> QED BY <1>4, <2>1, <2>2, <2>3, <2>4 DEF Observe
<1>5. CASE Drive
  <2>1. CASE StartIdentification BY <2>1 DEF StartIdentification, Elsewhere
  <2>2. CASE UNCHANGED <<rx, diag>> BY <2>2
  <2> QED BY <1>5, <2>1, <2>2 DEF Drive, Fetch, Call, LookupCount, LookupUse, Elsewhere
<1> QED BY <1>1, <1>2, <1>3, <1>4, <1>5 DEF InstallNext, Running, Dead

(* LinesNameTheMessage: however a new session falls into the middle of a   *)
(* message, no line names another message than the one at hand.            *)
THEOREM LinesNamed == InstallSpec => []LinesNameTheMessage
<1>1. InstallInit => Diagnosed
      BY DEF InstallInit, Diagnosed, LinesNameTheMessage, Idle
<1>2. Diagnosed => LinesNameTheMessage
      BY DEF Diagnosed
<1> QED BY <1>1, <1>2, DiagnosedStays, InstallTypeCorrect, PTL DEF InstallSpec

(* StaysDown: after the exit no dlopen and no frame starts the bus again,  *)
(* and no message reaches the parser but the one that was on its way.      *)
THEOREM DownStays == InstallSpec => StaysDown
<1> DEFINE Stays == bridge.down => /\ bridge'.ready => bridge.ready
                                   /\ handed' > handed => rx.at = "hand"
                                   /\ rx'.at = "hand" => rx.at = "hand"
<1>1. ASSUME InstallTypeOK, [InstallNext]_installVars PROVE Stays
  <2> SUFFICES ASSUME bridge.down PROVE Stays
      OBVIOUS
  <2>0. /\ rx \in RxType /\ handed \in Nat
        /\ bridge \in [ready : BOOLEAN, down : BOOLEAN, lock : {"free", "exit"}]
        BY <1>1 DEF InstallTypeOK
  <2> USE <2>0 DEF RxType
  <2>1. ASSUME NEW driver \in BOOLEAN, Dlopen(driver) PROVE Stays
        BY <2>1 DEF Dlopen
  <2>2. CASE DlopenInit BY <2>2 DEF DlopenInit, BridgeInit
  <2>3. ASSUME NEW frame \in Frames, Receive(frame) PROVE Stays
        BY <2>3 DEF Receive
  <2>4. CASE Install
    <3>1. UNCHANGED <<bridge, handed>> /\ rx'.at # "hand"
          BY <2>4 DEF Install, IdentPrepare, IdentWrite, IdentVerify, IdentClear, TableCheck,
             TableName, TableMessages, TableCount, TableVerify, BackCount, BackMessages, BackName,
             SendPrepare, SendMsg, SendClose, SendVerify, BackMsg, BackClose, ClearMsg, ClearClose,
             Stores, Looks, Clears, Installing, RxGoes, Idle
    <3> QED BY <3>1
  <2>5. CASE Observe
    <3>1. ASSUME NEW written \in BOOLEAN, Capture(written) PROVE Stays
          BY <3>1 DEF Capture, RxGoes, Idle
    <3>2. CASE RxBegin BY <3>2 DEF RxBegin
    <3>3. CASE FeedRefused BY <3>3 DEF FeedRefused, RxGoes, Idle
    <3>4. CASE FeedInit BY <3>4 DEF FeedInit, BridgeInit, RxGoes, Idle
    <3>5. CASE FeedHand BY <3>5 DEF FeedHand, RxGoes, Idle
    <3>6. CASE RxEnd BY <3>6 DEF RxEnd, RxGoes, Idle
    <3> QED BY <2>5, <3>1, <3>2, <3>3, <3>4, <3>5, <3>6 DEF Observe
  <2>6. CASE Drive
        BY <2>6 DEF Drive, Fetch, Call, StartIdentification, LookupCount, LookupUse, Elsewhere
  <2>7. CASE Shutdown BY <2>7 DEF Shutdown
  <2>8. CASE ShutdownDone
    <3>1. ~bridge'.ready /\ handed' = handed /\ rx' = rx
          BY <2>8 DEF ShutdownDone
    <3> QED BY <3>1
  <2>9. CASE UNCHANGED installVars
    <3>1. bridge' = bridge /\ handed' = handed /\ rx' = rx
          BY <2>9 DEF installVars
    <3> QED BY <3>1
  <2> QED BY <1>1, <2>1, <2>2, <2>3, <2>4, <2>5, <2>6, <2>7, <2>8, <2>9
             DEF InstallNext, Running, Dead
<1>2. ASSUME InstallTypeOK, [InstallNext]_installVars PROVE [Stays]_installVars
      BY <1>1, <1>2
<1> QED BY <1>2, InstallTypeCorrect, PTL DEF InstallSpec, StaysDown

-----------------------------------------------------------------------------
(* The answer to the phone: what the call owns at each step, for certain   *)
(* and if it could be made.                                                *)

EarlySteps == {"asked_for", "copies", "ready", "stock"}
AreaSteps == {"area", "safe", "pair", "fill_area"}
DisplaySteps == {"copy", "alt", "areas", "suggest", "fields", "append"} \cup AreaSteps
InfoSteps == {"clone", "features", "set_features", "look", "set_displays", "finish"}
Carried == IF request.op = "info" THEN {"stock", "out"} ELSE {"stock"}

Firm ==
    CASE step \in EarlySteps -> {}
      [] step = "urls"          -> IF request.kind = "none" THEN {} ELSE {"stock"}
      [] step = "clone"         -> {"stock"}
      [] step = "set_features"  -> {"stock", "out", "features"}
      [] step \in {"area", "safe", "pair"} -> Carried \cup {"areas"}
      [] step = "fill_area"     -> Carried \cup {"areas", AreaOf(slot), SafeOf(slot)}
      [] step \in {"set_displays", "hand_over"} -> Carried \cup {"patched"}
      [] step = "answered"      -> {answer}
      [] OTHER                  -> Carried

Perhaps ==
    CASE step = "alt" -> {"patched"}
      [] step \in {"areas", "area", "fill_area", "append"} -> {"patched", "alt"}
      [] step = "safe" -> {"patched", "alt", AreaOf(slot)}
      [] step = "pair" -> {"patched", "alt"} \cup Pair
      [] step = "suggest" -> {"patched", "alt", "areas"}
      [] step = "fields"  -> {"patched", "alt", "areas", "suggest"}
      [] OTHER -> {}

Counted == \A o \in Objects : /\ held[o] \in {0, 1}
                              /\ o \in Firm => held[o] = 1
                              /\ held[o] = 1 => o \in Firm \cup Perhaps

(* Which request leads to which steps, and what is known of it there.      *)
Routed ==
    /\ step \in InfoSteps => request.op = "info"
    /\ step \in {"hand_over", "stock_stays"} => request.op = "displays"
    /\ step \in {"check"} \cup DisplaySteps => request.op \in {"info", "displays"}
    /\ step \in {"check", "hand_over", "stock_stays"} \cup DisplaySteps \cup InfoSteps =>
         request.kind # "none"
    /\ step \in DisplaySteps => request.listed /\ request.shows # <<>>
    /\ step \in {"check", "set_displays", "hand_over"} \cup DisplaySteps =>
         "alt" \notin Range(request.shows)
    /\ step \in AreaSteps => slot \in 0 .. ViewCount - 1
    /\ step = "answered" => answer \in {"none", "stock", "urls", "out", "patched"}

(* The containers of the stock answer hold what it came with.              *)
StockParts == {"stock", "stock_displays", "main"}
StockPairs == {p \in inside : p[1] \in StockParts}
StockAsCame ==
    /\ step \in EarlySteps => inside = {} /\ whole = {}
    /\ step \notin EarlySteps /\ (step = "answered" => answer # "none") =>
         StockPairs = StockInside

(* The second display is put in when it is complete, and is complete when  *)
(* all its parts could be made and filled.                                 *)
ViewMade(i) == /\ {AreaOf(i), SafeOf(i)} \subseteq whole
               /\ {<<"areas", AreaOf(i)>>, <<AreaOf(i), SafeOf(i)>>} \subseteq inside
ViewsMade == \A i \in 0 .. ViewCount - 1 : ViewMade(i)
AltMade == /\ {"alt", "suggest"} \subseteq whole
           /\ {<<"alt", "areas">>, <<"alt", "suggest">>} \subseteq inside
           /\ ViewsMade
AltInside == \E x \in Objects : <<x, "alt">> \in inside
PartsMade ==
    /\ step \in AreaSteps => \A i \in 0 .. slot - 1 : ViewMade(i)
    /\ step \in {"suggest", "fields"} /\ Owns("areas") => ViewsMade
    /\ step = "fields" /\ Owns("suggest") => "suggest" \in whole
    /\ step = "append" /\ Owns("alt") => AltMade
    /\ \A x \in Objects : <<x, "alt">> \in inside => x = "patched"
    /\ AltInside => AltMade /\ "alt" \notin Range(request.shows)
    /\ AltInside => step \in {"set_displays", "hand_over", "finish", "answered"}
    /\ request.op = "info" /\ step \in {"look", "check", "set_displays", "finish"} \cup DisplaySteps
         => <<"out", "features">> \in inside
    /\ step = "answered" /\ answer = "out" => <<"out", "features">> \in inside

InfoStanding == Counted /\ Routed /\ StockAsCame /\ PartsMade

(* What the two files make of the profile is sound whatever they hold: the *)
(* last line that counts is one of those that hold for the view.           *)
ProfileSound(p) ==
    /\ p \in ProfileType
    /\ \A i \in 0 .. ViewCount - 1 :
         \/ RectValid(p.safe[i], p.w, p.h)
         \/ i \in {2, 3} /\ p.safe[i] = Whole(Geometry.w, Geometry.h)

LEMMA LeastOfNat ==
    ASSUME NEW R \in SUBSET Nat, R # {}
    PROVE  \E r \in R : \A j \in R : r <= j
<1> DEFINE Less == {ss \in Nat \X Nat : ss[1] < ss[2]}
<1>1. IsWellFoundedOn(Less, Nat)
  <2>1. Less = OpToRel(<, Nat)
        BY DEF OpToRel
  <2> QED BY <2>1, NatLessThanWellFounded, Zenon
<1>2. \A x, y \in Nat : <<y, x>> \notin Less => x <= y
      OBVIOUS
<1> HIDE DEF Less
<1>3. \E r \in R : \A j \in R : <<j, r>> \notin Less
      BY <1>1, WFMin
<1> QED BY <1>2, <1>3

LEMMA LastIsOne ==
    ASSUME NEW n \in Nat, NEW S \in SUBSET (1 .. n), S # {}
    PROVE  LastOf(S) \in S
<1> DEFINE R == {n - k : k \in S}
<1>0. \A k \in S : k \in Nat
      OBVIOUS
<1>1. R \in SUBSET Nat /\ R # {}
  <2>1. PICK m \in S : TRUE
        OBVIOUS
  <2>2. n - m \in R
        OBVIOUS
  <2>3. \A k \in S : n - k \in Nat
        OBVIOUS
  <2> QED BY <2>2, <2>3
<1>2. PICK r \in R : \A j \in R : r <= j
  <2> HIDE DEF R
  <2> QED BY <1>1, LeastOfNat
<1>3. PICK k \in S : r = n - k
      BY <1>2
<1>4. ASSUME NEW j \in S PROVE j <= k
  <2>1. n - j \in R
        BY DEF R
  <2>2. r <= n - j
        BY <1>2, <2>1
  <2>3. j \in Nat /\ k \in Nat
        BY <1>0
  <2> QED BY <1>3, <2>2, <2>3
<1> QED BY <1>4 DEF LastOf

LEMMA BaseSound == ASSUME NEW f \in ProfileFile PROVE ProfileSound(Base(f))
<1> DEFINE w == IF ProfileTaken(f) THEN f.w ELSE Geometry.w
           h == IF ProfileTaken(f) THEN f.h ELSE Geometry.h
           safe == IF ProfileTaken(f) /\ f.read >= 8 /\ RectValid(f.safe, w, h)
                   THEN f.safe ELSE Whole(w, h)
           areas == [i \in 0 .. ViewCount - 1 |->
                        IF i \in {0, 1} THEN safe ELSE Whole(Geometry.w, Geometry.h)]
<1>1. Base(f) = [w |-> w, h |-> h, safe |-> areas]
      BY DEF Base
<1>2. w \in Nat \ {0} /\ h \in Nat \ {0}
      BY InfoAssumption DEF ProfileTaken, ProfileFile
<1>3. RectValid(safe, w, h) /\ safe \in Rect
      BY <1>2 DEF RectValid, Whole, Rect, ProfileFile
<1>4. Whole(Geometry.w, Geometry.h) \in Rect
      BY InfoAssumption DEF Whole, Rect
<1> HIDE DEF w, h, safe
<1> QED BY <1>1, <1>2, <1>3, <1>4 DEF ProfileSound, ProfileType, ViewCount

LEMMA ProfileLoadsAny ==
    ASSUME NEW f \in ProfileFile, NEW views \in Seq(ViewLine)
    PROVE  ProfileSound(LoadProfile(f, views))
<1> DEFINE own == Base(f)
           lines(i) == Lines(views, i, own.w, own.h)
           safe == [i \in 0 .. ViewCount - 1 |->
                       IF lines(i) = {} THEN own.safe[i] ELSE views[LastOf(lines(i))].safe]
<1>1. ProfileSound(own)
      BY BaseSound
<1>2. LoadProfile(f, views) = [own EXCEPT !.safe = safe]
      BY DEF LoadProfile
<1>3. ASSUME NEW i \in 0 .. ViewCount - 1, lines(i) # {}
      PROVE  /\ RectValid(safe[i], own.w, own.h)
             /\ safe[i] \in Rect
  <2>1. lines(i) \in SUBSET (1 .. Len(views)) /\ Len(views) \in Nat
        BY DEF Lines
  <2>2. LastOf(lines(i)) \in lines(i)
        BY <1>3, <2>1, LastIsOne
  <2>3. views[LastOf(lines(i))] \in ViewLine
        BY <2>1, <2>2, ElementOfSeq
  <2>4. RectValid(views[LastOf(lines(i))].safe, own.w, own.h)
        BY <2>2 DEF Lines
  <2> QED BY <1>3, <2>3, <2>4 DEF ViewLine
<1>4. ASSUME NEW i \in 0 .. ViewCount - 1, lines(i) = {}
      PROVE  safe[i] = own.safe[i]
      BY <1>4
<1>5. own \in ProfileType /\ safe \in [0 .. ViewCount - 1 -> Rect]
      BY <1>1, <1>3, <1>4 DEF ProfileSound, ProfileType
<1>6. /\ LoadProfile(f, views).w = own.w /\ LoadProfile(f, views).h = own.h
      /\ LoadProfile(f, views).safe = safe
      /\ LoadProfile(f, views) \in ProfileType
  <2> HIDE DEF own, safe
  <2> QED BY <1>2, <1>5 DEF ProfileType
<1> HIDE DEF own, lines, safe
<1> QED BY <1>1, <1>3, <1>4, <1>6 DEF ProfileSound

LEMMA ProfileLoads ==
    ASSUME NEW f \in ProfileFiles, NEW views \in ViewFiles
    PROVE  ProfileSound(LoadProfile(f, views))
BY ProfileLoadsAny, InfoAssumption

LEMMA NoProfileLoads == ProfileSound(NoProfile)
<1>1. [read |-> 0, w |-> 0, h |-> 0, fps |-> 0, safe |-> Whole(0, 0)] \in ProfileFile
      BY DEF ProfileFile, Whole, Rect
<1>2. <<>> \in Seq(ViewLine)
      OBVIOUS
<1>3. ProfileSound(LoadProfile([read |-> 0, w |-> 0, h |-> 0, fps |-> 0,
                                safe |-> Whole(0, 0)], <<>>))
      BY <1>1, <1>2, ProfileLoadsAny
<1> QED BY <1>3 DEF NoProfile

LEMMA SlotObjects ==
    ASSUME NEW i \in 0 .. ViewCount - 1
    PROVE  /\ AreaOf(i) \in Areas /\ SafeOf(i) \in Safes /\ AreaOf(i) # SafeOf(i)
           /\ AreaOf(i) \notin {"stock", "stock_displays", "main", "out", "features",
                              "patched", "alt", "areas", "suggest"}
           /\ SafeOf(i) \notin {"stock", "stock_displays", "main", "out", "features",
                              "patched", "alt", "areas", "suggest"}
           /\ \A j \in 0 .. ViewCount - 1 :
                (AreaOf(i) = AreaOf(j) <=> i = j) /\ (SafeOf(i) = SafeOf(j) <=> i = j)
BY DEF AreaOf, SafeOf, Areas, Safes, ViewCount

LEMMA Named ==
    /\ "stock" \in Objects /\ "stock_displays" \in Objects /\ "main" \in Objects
    /\ "out" \in Objects /\ "features" \in Objects /\ "patched" \in Objects
    /\ "alt" \in Objects /\ "areas" \in Objects /\ "suggest" \in Objects
    /\ "urls" \in Objects /\ Areas \subseteq Objects /\ Safes \subseteq Objects
    /\ "none" \notin Objects
BY DEF Objects, Areas, Safes

LEMMA HeldMoves ==
    ASSUME held \in Heldings
    PROVE  /\ \A o : Makes(o) => held' \in Heldings
           /\ \A S : Releases(S) => held' \in Heldings
BY DEF Heldings, Makes, Releases

LEMMA AllSlots ==
    /\ Areas = {AreaOf(i) : i \in 0 .. ViewCount - 1}
    /\ Safes = {SafeOf(i) : i \in 0 .. ViewCount - 1}
<1>1. 0 .. ViewCount - 1 = {0, 1, 2, 3}
      BY DEF ViewCount
<1> QED BY <1>1 DEF AreaOf, SafeOf, Areas, Safes

LEMMA InfoTyped ==
    InfoTypeOK /\ Routed /\ [InfoNext]_infoVars => InfoTypeOK'
<1> SUFFICES ASSUME InfoTypeOK, Routed, [InfoNext]_infoVars PROVE InfoTypeOK'
    OBVIOUS
<1> USE HeldMoves DEF InfoTypeOK, Steps, Goes, Answers, Building, heap
<1>1. CASE ResolveBegins
      BY <1>1, Named DEF ResolveBegins
<1>2. CASE ResolveGoesOn
      BY <1>2, Named, InfoAssumption DEF ResolveGoesOn, Platform
<1>3. CASE ElsewhereBegins
      BY <1>3, Named DEF ElsewhereBegins
<1>4. CASE ElsewhereGoesOn
      BY <1>4, Named, InfoAssumption DEF ElsewhereGoesOn, Platform
<1>5. CASE NoStock
      BY <1>5, Named DEF NoStock
<1>6. CASE InfoDone
      BY <1>6, Named DEF InfoDone
<1>7. CASE Check
      BY <1>7, Named DEF Check, AfterDisplays
<1>8. CASE AppendAlt
      BY <1>8, Named DEF AppendAlt, AfterDisplays, Owned, Owns
<1>9. CASE HandOver
      BY <1>9, Named DEF HandOver
<1>10. CASE StockStays
      BY <1>10, Named DEF StockStays, Owns
<1>11. ASSUME NEW b \in BOOLEAN, MayFail(b) PROVE InfoTypeOK'
  <2>1. CASE StockAnswers(b)
        BY <2>1, Named DEF StockAnswers, StockInside, Branch
  <2>2. CASE Urls(b)
        BY <2>2, Named DEF Urls, Owns, Heldings
  <2>3. CASE Clone(b)
        BY <2>3, Named DEF Clone
  <2>4. CASE Features(b)
        BY <2>4, Named DEF Features
  <2>5. CASE SetFeatures(b)
        BY <2>5, Named DEF SetFeatures
  <2>6. CASE Look(b)
        BY <2>6, Named DEF Look
  <2>7. CASE SetDisplays(b)
        BY <2>7, Named DEF SetDisplays
  <2>8. CASE Copy(b)
        BY <2>8, Named DEF Copy, Source
  <2>9. CASE AreaArray(b)
        BY <2>9, Named DEF AreaArray, ViewCount
  <2>10. CASE FillArea(b)
    <3>1. /\ AreaOf(slot) \in Objects /\ SafeOf(slot) \in Objects
          /\ slot \in 0 .. ViewCount - 1
          BY <2>10, SlotObjects, Named DEF FillArea, Routed, AreaSteps
    <3>2. held' \in Heldings
          BY <2>10 DEF FillArea
    <3>3. inside' \subseteq Objects \X Objects /\ whole' \subseteq Objects
          BY <2>10, <3>1, Named DEF FillArea
    <3>4. slot' \in 0 .. ViewCount
          BY <2>10, <3>1 DEF FillArea, ViewCount
    <3> QED BY <2>10, <3>2, <3>3, <3>4 DEF FillArea
  <2>11. CASE Suggest(b)
        BY <2>11, Named DEF Suggest
  <2>12. CASE Fields(b)
        BY <2>12, Named DEF Fields, Parts, Owned, Owns
  <2>13. CASE MakeArea(b)
        BY <2>13, Named, SlotObjects DEF MakeArea, Routed, AreaSteps
  <2>14. CASE MakeSafe(b)
        BY <2>14, Named, SlotObjects DEF MakeSafe, Routed, AreaSteps
  <2> QED BY <1>11, <2>1, <2>2, <2>3, <2>4, <2>5, <2>6, <2>7, <2>8,
             <2>9, <2>10, <2>11, <2>12, <2>13, <2>14 DEF MayFail
<1>12. ASSUME NEW file \in ProfileFiles, NEW views \in ViewFiles, NEW made \in BOOLEAN,
            Alt(file, views, made)
      PROVE  InfoTypeOK'

      BY <1>12, Named, ProfileLoads, NoProfileLoads DEF Alt, ProfileSound
<1>13. CASE PairMade
      BY <1>13 DEF PairMade
<1>14. CASE AsksAgain
      BY <1>14, Named, ProfileLoads, NoProfileLoads DEF AsksAgain, Heldings, ViewCount, ProfileSound
<1>15. CASE UNCHANGED infoVars
      BY <1>15, Named DEF infoVars
<1> QED BY <1>1, <1>2, <1>3, <1>4, <1>5, <1>6, <1>7, <1>8,
           <1>9, <1>10, <1>11, <1>12, <1>13, <1>14, <1>15 DEF InfoNext


(* What is assumed of a request.                                           *)
LEMMA RequestFacts ==
    ASSUME InfoTypeOK
    PROVE  /\ request.op \in {"displays", "urls", "unrelated", "info"}
           /\ request.listed => request.kind # "none"
           /\ request.listed /\ request.op # "info" => request.kind = "array"
           /\ request.op = "displays" => "alt" \notin Range(request.shows)
           /\ Len(request.shows) = 1 => "alt" \notin Range(request.shows)
<1>1. request \in Request /\ request \in Requests
      BY InfoAssumption DEF InfoTypeOK
<1>2. /\ request.op \in {"displays", "urls", "unrelated", "info"}
      /\ request.shows \in Seq({"main", "other", "alt", "no_dict"})
      /\ request.listed \in BOOLEAN
      BY <1>1 DEF Request
<1>3. /\ request.listed => request.kind = IF request.op = "info" THEN "dict" ELSE "array"
      /\ request.op = "displays" => "alt" \notin Range(request.shows)
      /\ request.shows # <<>> => request.shows[1] # "alt"
      BY <1>1, InfoAssumption
<1>4. ASSUME Len(request.shows) = 1 PROVE "alt" \notin Range(request.shows)
  <2>1. DOMAIN request.shows = {1} /\ request.shows # <<>>
        BY <1>2, <1>4
  <2> QED BY <1>3, <2>1 DEF Range
<1> QED BY <1>2, <1>3, <1>4

LEMMA RoutedStays ==
    InfoTypeOK /\ Routed /\ [InfoNext]_infoVars => Routed'
<1> SUFFICES ASSUME InfoTypeOK, Routed, [InfoNext]_infoVars PROVE Routed'
    OBVIOUS
<1> USE DEF Routed, DisplaySteps, AreaSteps, InfoSteps, Goes, Answers, Building, heap
<1>1. CASE ResolveBegins
      BY <1>1 DEF ResolveBegins
<1>2. CASE ResolveGoesOn
      BY <1>2 DEF ResolveGoesOn
<1>3. CASE ElsewhereBegins
      BY <1>3 DEF ElsewhereBegins
<1>4. CASE ElsewhereGoesOn
      BY <1>4 DEF ElsewhereGoesOn
<1>5. CASE NoStock
      BY <1>5 DEF NoStock
<1>6. CASE InfoDone
      BY <1>6 DEF InfoDone
<1>7. CASE Check
      BY <1>7 DEF Check, AfterDisplays
<1>8. CASE AppendAlt
      BY <1>8 DEF AppendAlt, AfterDisplays
<1>9. CASE HandOver
      BY <1>9 DEF HandOver
<1>10. CASE StockStays
      BY <1>10 DEF StockStays
<1>11. ASSUME NEW b \in BOOLEAN, MayFail(b) PROVE Routed'
  <2>1. CASE StockAnswers(b)
        BY <2>1, RequestFacts DEF StockAnswers, Branch
  <2>2. CASE Urls(b)
        BY <2>2 DEF Urls
  <2>3. CASE Clone(b)
        BY <2>3 DEF Clone
  <2>4. CASE Features(b)
        BY <2>4 DEF Features
  <2>5. CASE SetFeatures(b)
        BY <2>5 DEF SetFeatures
  <2>6. CASE Look(b)
        BY <2>6, RequestFacts DEF Look
  <2>7. CASE SetDisplays(b)
        BY <2>7 DEF SetDisplays
  <2>8. CASE Copy(b)
        BY <2>8 DEF Copy
  <2>9. CASE AreaArray(b)
        BY <2>9 DEF AreaArray, ViewCount
  <2>10. CASE FillArea(b)
        BY <2>10 DEF FillArea, ViewCount
  <2>11. CASE Suggest(b)
        BY <2>11 DEF Suggest
  <2>12. CASE Fields(b)
        BY <2>12 DEF Fields
  <2>13. CASE MakeArea(b)
        BY <2>13 DEF MakeArea
  <2>14. CASE MakeSafe(b)
        BY <2>14 DEF MakeSafe
  <2> QED BY <1>11, <2>1, <2>2, <2>3, <2>4, <2>5, <2>6, <2>7, <2>8,
             <2>9, <2>10, <2>11, <2>12, <2>13, <2>14 DEF MayFail
<1>12. ASSUME NEW file \in ProfileFiles, NEW views \in ViewFiles, NEW made \in BOOLEAN,
            Alt(file, views, made)
      PROVE  Routed'

      BY <1>12 DEF Alt
<1>13. CASE PairMade
      BY <1>13 DEF PairMade
<1>14. CASE AsksAgain
      BY <1>14 DEF AsksAgain
<1>15. CASE UNCHANGED infoVars
      BY <1>15 DEF infoVars
<1> QED BY <1>1, <1>2, <1>3, <1>4, <1>5, <1>6, <1>7, <1>8,
           <1>9, <1>10, <1>11, <1>12, <1>13, <1>14, <1>15 DEF InfoNext


(* What a step does to the references.                                     *)
LEMMA HeldIs ==
    ASSUME InfoTypeOK
    PROVE  /\ \A p \in Objects : Makes(p) =>
                \A o \in Objects : held'[o] = IF o = p THEN held[o] + 1 ELSE held[o]
           /\ \A S : Releases(S) =>
                \A o \in Objects : held'[o] = IF o \in S THEN held[o] - 1 ELSE held[o]
           /\ UNCHANGED held => \A o \in Objects : held'[o] = held[o]
           /\ \A o \in Objects : held[o] \in Int
BY DEF InfoTypeOK, Heldings, Makes, Releases

LEMMA CountedStays ==
    InfoTypeOK /\ Routed /\ Counted /\ [InfoNext]_infoVars => Counted'
<1> SUFFICES ASSUME InfoTypeOK, Routed, Counted, [InfoNext]_infoVars PROVE Counted'
    OBVIOUS
<1> USE DEF Counted, Firm, Perhaps, Pair, Carried, Routed, EarlySteps, DisplaySteps, AreaSteps, InfoSteps, Goes, Answers,
           Building, heap
<1>1. CASE ResolveBegins
      BY <1>1, HeldIs, Named DEF ResolveBegins
<1>2. CASE ResolveGoesOn
      BY <1>2, HeldIs, Named DEF ResolveGoesOn
<1>3. CASE ElsewhereBegins
      BY <1>3, HeldIs, Named DEF ElsewhereBegins
<1>4. CASE ElsewhereGoesOn
      BY <1>4, HeldIs, Named DEF ElsewhereGoesOn
<1>5. CASE NoStock
      BY <1>5, HeldIs, Named DEF NoStock
<1>6. CASE InfoDone
      BY <1>6, HeldIs, Named DEF InfoDone
<1>7. CASE Check
      BY <1>7, HeldIs, Named DEF Check, AfterDisplays
<1>8. CASE AppendAlt
      BY <1>8, HeldIs, Named DEF AppendAlt, AfterDisplays, Owned, Owns
<1>9. CASE HandOver
      BY <1>9, HeldIs, Named DEF HandOver
<1>10. CASE StockStays
      BY <1>10, HeldIs, Named DEF StockStays, Owns
<1>11. ASSUME NEW b \in BOOLEAN, MayFail(b) PROVE Counted'
  <2>1. CASE StockAnswers(b)
        BY <2>1, HeldIs, Named, RequestFacts DEF StockAnswers, Branch
  <2>2. CASE Urls(b)
        BY <2>2, HeldIs, Named DEF Urls, Owns, InfoTypeOK, Heldings
  <2>3. CASE Clone(b)
        BY <2>3, HeldIs, Named DEF Clone
  <2>4. CASE Features(b)
        BY <2>4, HeldIs, Named DEF Features
  <2>5. CASE SetFeatures(b)
        BY <2>5, HeldIs, Named DEF SetFeatures
  <2>6. CASE Look(b)
        BY <2>6, HeldIs, Named DEF Look
  <2>7. CASE SetDisplays(b)
        BY <2>7, HeldIs, Named DEF SetDisplays
  <2>8. CASE Copy(b)
        BY <2>8, HeldIs, Named DEF Copy
  <2>9. CASE AreaArray(b)
        BY <2>9, HeldIs, Named, SlotObjects DEF AreaArray, ViewCount
  <2>10. CASE FillArea(b)
    <3>0. slot \in 0 .. ViewCount - 1 /\ AreaOf(slot) \in Objects /\ SafeOf(slot) \in Objects
          BY <2>10, SlotObjects, Named DEF FillArea
    <3>1. CASE ~b
          BY <2>10, <3>0, <3>1, HeldIs, SlotObjects, Named DEF FillArea
    <3>2. CASE b
      <4>1. \A o \in Objects : held'[o] = IF o \in {AreaOf(slot), SafeOf(slot)} THEN held[o] - 1 ELSE held[o]
            BY <2>10, <3>2, HeldIs DEF FillArea
      <4>2. step = "fill_area" /\ step' \in {"suggest", "area"} /\ request' = request
            BY <2>10, <3>2 DEF FillArea
      <4> QED BY <3>0, <4>1, <4>2, SlotObjects, Named
    <3> QED BY <3>1, <3>2
  <2>11. CASE Suggest(b)
        BY <2>11, HeldIs, Named DEF Suggest
  <2>12. CASE Fields(b)
        BY <2>12, HeldIs, Named DEF Fields, Owned, Owns, Parts
  <2>13. CASE MakeArea(b)
    <3>0. AreaOf(slot) \in Objects
          BY <2>13, SlotObjects, Named DEF MakeArea
    <3> QED BY <2>13, <3>0, HeldIs, SlotObjects, Named DEF MakeArea
  <2>14. CASE MakeSafe(b)
    <3>0. /\ slot \in 0 .. ViewCount - 1 /\ step = "safe" /\ step' = "pair"
          /\ UNCHANGED <<request, slot>>
          BY <2>14 DEF MakeSafe
    <3>1. AreaOf(slot) \in Objects /\ SafeOf(slot) \in Objects
          BY <3>0, SlotObjects, Named
    <3> QED BY <2>14, <3>0, <3>1, HeldIs, SlotObjects, Named DEF MakeSafe, Pair
  <2> QED BY <1>11, <2>1, <2>2, <2>3, <2>4, <2>5, <2>6, <2>7, <2>8,
             <2>9, <2>10, <2>11, <2>12, <2>13, <2>14 DEF MayFail
<1>12. ASSUME NEW file \in ProfileFiles, NEW views \in ViewFiles, NEW made \in BOOLEAN,
            Alt(file, views, made)
      PROVE  Counted'

      BY <1>12, HeldIs, Named DEF Alt
<1>13. CASE PairMade
  <2>0. /\ slot \in 0 .. ViewCount - 1 /\ AreaOf(slot) \in Objects /\ SafeOf(slot) \in Objects
        /\ step = "pair" /\ UNCHANGED <<request, slot>>
        BY <1>13, SlotObjects, Named DEF PairMade
  <2>1. CASE Owned(Pair) = Pair
    <3>1. held[AreaOf(slot)] = 1 /\ held[SafeOf(slot)] = 1
          BY <2>0, <2>1 DEF Owned, Owns, Pair
    <3> QED BY <1>13, <2>0, <2>1, <3>1, HeldIs, SlotObjects, Named DEF PairMade, Pair
  <2>2. CASE Owned(Pair) # Pair
    <3>1. \A o \in Objects :
            held'[o] = IF o \in Owned(Pair) \cup {"areas"} THEN held[o] - 1 ELSE held[o]
          BY <1>13, <2>2, HeldIs DEF PairMade
    <3>2. \A o \in Objects :
            held'[o] = IF o \in Pair \cup {"areas"} THEN 0 ELSE held[o]
      <4>1. held["areas"] = 1 /\ \A o \in Objects : held[o] \in {0, 1}
            BY <2>0, Named
      <4>2. \A o \in Objects : o \in Owned(Pair) <=> o \in Pair /\ held[o] = 1
            BY <4>1 DEF Owned, Owns
      <4> HIDE DEF Pair, Counted, Routed
      <4> QED BY <3>1, <4>1, <4>2
    <3>3. step' = "suggest"
          BY <1>13, <2>2 DEF PairMade
    <3>4. "areas" \in Objects /\ Pair \subseteq Objects /\ Pair \cap Carried = {}
          BY <2>0, SlotObjects, Named
    <3> HIDE DEF Pair
    <3> QED BY <2>0, <3>2, <3>3, <3>4
  <2> QED BY <2>1, <2>2
<1>14. CASE AsksAgain
      BY <1>14, HeldIs, Named DEF AsksAgain
<1>15. CASE UNCHANGED infoVars
      BY <1>15, HeldIs, Named DEF infoVars
<1> QED BY <1>1, <1>2, <1>3, <1>4, <1>5, <1>6, <1>7, <1>8,
           <1>9, <1>10, <1>11, <1>12, <1>13, <1>14, <1>15 DEF InfoNext


LEMMA SameStock ==
    ASSUME NEW R, NEW A, inside' = (inside \ R) \cup A,
           \A p \in A \cup R : p[1] \notin StockParts
    PROVE  StockPairs' = StockPairs
BY DEF StockPairs

LEMMA StockStaysAsCame ==
    InfoTypeOK /\ Routed /\ StockAsCame /\ [InfoNext]_infoVars => StockAsCame'
<1> SUFFICES ASSUME InfoTypeOK, Routed, StockAsCame, [InfoNext]_infoVars PROVE StockAsCame'
    OBVIOUS
<1> USE DEF StockAsCame, EarlySteps, Goes, Answers, Building, heap
<1>0. UNCHANGED request => StockInside' = StockInside
      BY DEF StockInside
<1> USE <1>0
<1>1. CASE ResolveBegins
      BY <1>1 DEF ResolveBegins, StockPairs
<1>2. CASE ResolveGoesOn
      BY <1>2 DEF ResolveGoesOn, StockPairs
<1>3. CASE ElsewhereBegins
      BY <1>3 DEF ElsewhereBegins, StockPairs
<1>4. CASE ElsewhereGoesOn
      BY <1>4 DEF ElsewhereGoesOn, StockPairs
<1>5. CASE NoStock
      BY <1>5 DEF NoStock, StockPairs
<1>6. CASE InfoDone
      BY <1>6 DEF InfoDone, StockPairs
<1>7. CASE Check
      BY <1>7 DEF Check, AfterDisplays, StockPairs
<1>8. CASE AppendAlt
  <2>1. CASE Owns("patched") /\ Owns("alt")
    <3>1. \A p \in {<<"patched", "alt">>}
                \cup {} : p[1] \notin StockParts
          BY DEF StockParts
    <3>2. inside' = (inside \ {})
                  \cup {<<"patched", "alt">>}
          BY <1>8, <2>1 DEF AppendAlt
    <3> QED BY <1>8, <3>1, <3>2, SameStock DEF AppendAlt, AfterDisplays
  <2>2. CASE ~(Owns("patched") /\ Owns("alt"))
        BY <1>8, <2>2 DEF AppendAlt, AfterDisplays, StockPairs
  <2> QED BY <2>1, <2>2
<1>9. CASE HandOver
      BY <1>9 DEF HandOver, StockPairs
<1>10. CASE StockStays
      BY <1>10 DEF StockStays, StockPairs
<1>11. ASSUME NEW b \in BOOLEAN, MayFail(b) PROVE StockAsCame'
  <2>1. CASE StockAnswers(b)
    <3>1. \A p \in StockInside : p[1] \in StockParts
          BY DEF StockInside, StockParts
    <3>2. inside' = StockInside /\ StockInside' = StockInside
          BY <2>1 DEF StockAnswers, StockInside
    <3>3. StockPairs' = StockInside'
          BY <3>1, <3>2 DEF StockPairs
    <3> QED BY <2>1, <3>3 DEF StockAnswers, Branch
  <2>2. CASE Urls(b)
        BY <2>2 DEF Urls, StockPairs
  <2>3. CASE Clone(b)
    <3>1. CASE b
      <4>1. \A p \in {<<"out", p[2]>> : p \in {q \in inside : q[1] = "stock"}}
                  \cup {} : p[1] \notin StockParts
            BY DEF StockParts
      <4>2. inside' = (inside \ {})
                    \cup {<<"out", p[2]>> : p \in {q \in inside : q[1] = "stock"}}
            BY <2>3, <3>1 DEF Clone
      <4> QED BY <2>3, <4>1, <4>2, SameStock DEF Clone
    <3>2. CASE ~(b)
          BY <2>3, <3>2 DEF Clone, StockPairs
    <3> QED BY <3>1, <3>2
  <2>4. CASE Features(b)
        BY <2>4 DEF Features, StockPairs
  <2>5. CASE SetFeatures(b)
    <3>1. CASE b
      <4>1. \A p \in {<<"out", "features">>}
                  \cup {} : p[1] \notin StockParts
            BY DEF StockParts
      <4>2. inside' = (inside \ {})
                    \cup {<<"out", "features">>}
            BY <2>5, <3>1 DEF SetFeatures
      <4> QED BY <2>5, <4>1, <4>2, SameStock DEF SetFeatures
    <3>2. CASE ~(b)
          BY <2>5, <3>2 DEF SetFeatures, StockPairs
    <3> QED BY <3>1, <3>2
  <2>6. CASE Look(b)
        BY <2>6 DEF Look, StockPairs
  <2>7. CASE SetDisplays(b)
    <3>1. CASE b
      <4>1. \A p \in {<<"out", "patched">>}
                  \cup {<<"out", "stock_displays">>} : p[1] \notin StockParts
            BY DEF StockParts
      <4>2. inside' = (inside \ {<<"out", "stock_displays">>})
                    \cup {<<"out", "patched">>}
            BY <2>7, <3>1 DEF SetDisplays
      <4> QED BY <2>7, <4>1, <4>2, SameStock DEF SetDisplays
    <3>2. CASE ~(b)
          BY <2>7, <3>2 DEF SetDisplays, StockPairs
    <3> QED BY <3>1, <3>2
  <2>8. CASE Copy(b)
    <3>1. CASE b
      <4>1. \A p \in {<<"patched", p[2]>> : p \in {q \in inside : q[1] = Source}}
                  \cup {} : p[1] \notin StockParts
            BY DEF StockParts
      <4>2. inside' = (inside \ {})
                    \cup {<<"patched", p[2]>> : p \in {q \in inside : q[1] = Source}}
            BY <2>8, <3>1 DEF Copy
      <4> QED BY <2>8, <4>1, <4>2, SameStock DEF Copy
    <3>2. CASE ~(b)
          BY <2>8, <3>2 DEF Copy, StockPairs
    <3> QED BY <3>1, <3>2
  <2>9. CASE AreaArray(b)
        BY <2>9 DEF AreaArray, StockPairs
  <2>10. CASE FillArea(b)
    <3>1. CASE b
      <4>0. AreaOf(slot) \notin StockParts
            BY <2>10, SlotObjects DEF FillArea, Routed, AreaSteps, StockParts
      <4>1. \A p \in {<<AreaOf(slot), SafeOf(slot)>>, <<"areas", AreaOf(slot)>>}
                  \cup {} : p[1] \notin StockParts
            BY <4>0 DEF StockParts
      <4>2. inside' = (inside \ {})
                    \cup {<<AreaOf(slot), SafeOf(slot)>>, <<"areas", AreaOf(slot)>>}
            BY <2>10, <3>1 DEF FillArea
      <4> QED BY <2>10, <4>1, <4>2, SameStock DEF FillArea
    <3>2. CASE ~(b)
          BY <2>10, <3>2 DEF FillArea, StockPairs
    <3> QED BY <3>1, <3>2
  <2>11. CASE Suggest(b)
        BY <2>11 DEF Suggest, StockPairs
  <2>12. CASE Fields(b)
    <3>1. CASE Owned(Parts) = Parts /\ b
      <4>1. \A p \in {<<"alt", "areas">>, <<"alt", "suggest">>}
                  \cup {} : p[1] \notin StockParts
            BY DEF StockParts
      <4>2. inside' = (inside \ {})
                    \cup {<<"alt", "areas">>, <<"alt", "suggest">>}
            BY <2>12, <3>1 DEF Fields
      <4> QED BY <2>12, <4>1, <4>2, SameStock DEF Fields
    <3>2. CASE ~(Owned(Parts) = Parts /\ b)
          BY <2>12, <3>2 DEF Fields, StockPairs
    <3> QED BY <3>1, <3>2
  <2>13. CASE MakeArea(b)
        BY <2>13 DEF MakeArea, StockPairs
  <2>14. CASE MakeSafe(b)
        BY <2>14 DEF MakeSafe, StockPairs
  <2> QED BY <1>11, <2>1, <2>2, <2>3, <2>4, <2>5, <2>6, <2>7, <2>8,
             <2>9, <2>10, <2>11, <2>12, <2>13, <2>14 DEF MayFail
<1>12. ASSUME NEW file \in ProfileFiles, NEW views \in ViewFiles, NEW made \in BOOLEAN,
            Alt(file, views, made)
      PROVE  StockAsCame'

      BY <1>12 DEF Alt, StockPairs
<1>13. CASE PairMade
      BY <1>13 DEF PairMade, StockPairs
<1>14. CASE AsksAgain
      BY <1>14 DEF AsksAgain, StockPairs
<1>15. CASE UNCHANGED infoVars
      BY <1>15 DEF infoVars, StockPairs
<1> QED BY <1>1, <1>2, <1>3, <1>4, <1>5, <1>6, <1>7, <1>8,
           <1>9, <1>10, <1>11, <1>12, <1>13, <1>14, <1>15 DEF InfoNext


(* What has been made stays made: containers only grow, but for the        *)
(* displays that are replaced.                                             *)
Kept ==
    /\ \A k \in 0 .. ViewCount - 1 : ViewMade(k) => ViewMade(k)'
    /\ ViewsMade => ViewsMade'
    /\ AltMade => AltMade'
    /\ \A x \in Objects : <<x, "alt">> \in inside' => <<x, "alt">> \in inside
    /\ AltInside' => AltInside
    /\ <<"out", "features">> \in inside => <<"out", "features">> \in inside'
    /\ "suggest" \in whole => "suggest" \in whole'

LEMMA PartsKept ==
    ASSUME InfoTypeOK, whole \subseteq whole',
           \A p \in inside : p \in inside' \/ p = <<"out", "stock_displays">>,
           \A x \in Objects : <<x, "alt">> \in inside' => <<x, "alt">> \in inside
    PROVE  Kept
<1>1. ASSUME NEW k \in 0 .. ViewCount - 1, ViewMade(k) PROVE ViewMade(k)'
  <2>1. AreaOf(k) # "out"
        BY SlotObjects
  <2> QED BY <1>1, <2>1 DEF ViewMade
<1>2. ViewsMade => ViewsMade'
      BY <1>1 DEF ViewsMade
<1>3. AltMade => AltMade'
      BY <1>2 DEF AltMade
<1> QED BY <1>1, <1>2, <1>3 DEF Kept, AltInside

(* What the references tell of the parts.                                  *)
LEMMA Progress ==
    ASSUME InfoTypeOK, Counted
    PROVE  /\ step = "alt" => held["alt"] = 0
           /\ step \in {"alt", "areas"} => held["areas"] = 0
           /\ step \in AreaSteps => held["areas"] = 1
           /\ step = "suggest" => held["suggest"] = 0
BY Named DEF Counted, Firm, Perhaps, Carried, EarlySteps, AreaSteps

LEMMA PartsStayMade ==
    InfoTypeOK /\ InfoStanding /\ [InfoNext]_infoVars => PartsMade'
<1> SUFFICES ASSUME InfoTypeOK, InfoStanding, [InfoNext]_infoVars PROVE PartsMade'
    OBVIOUS
<1> USE DEF InfoStanding, Goes, Answers, Building, heap
<1>1. CASE ResolveBegins
  <2>1. whole \subseteq whole' /\ inside' = inside
        BY <1>1 DEF ResolveBegins
  <2>2. Kept
        BY <2>1, PartsKept DEF Kept
  <2> QED BY <1>1, <2>2 DEF ResolveBegins, Kept, PartsMade, Routed, DisplaySteps, AreaSteps, InfoSteps
<1>2. CASE ResolveGoesOn
  <2>1. whole \subseteq whole' /\ inside' = inside
        BY <1>2 DEF ResolveGoesOn
  <2>2. Kept
        BY <2>1, PartsKept DEF Kept
  <2> QED BY <1>2, <2>2 DEF ResolveGoesOn, Kept, PartsMade, Routed, DisplaySteps, AreaSteps, InfoSteps
<1>3. CASE ElsewhereBegins
  <2>1. whole \subseteq whole' /\ inside' = inside
        BY <1>3 DEF ElsewhereBegins
  <2>2. Kept
        BY <2>1, PartsKept DEF Kept
  <2> QED BY <1>3, <2>2 DEF ElsewhereBegins, Owns, ViewCount, Kept, PartsMade, Routed, DisplaySteps, AreaSteps, InfoSteps
<1>4. CASE ElsewhereGoesOn
  <2>1. whole \subseteq whole' /\ inside' = inside
        BY <1>4 DEF ElsewhereGoesOn
  <2>2. Kept
        BY <2>1, PartsKept DEF Kept
  <2> QED BY <1>4, <2>2 DEF ElsewhereGoesOn, Owns, ViewCount, Kept, PartsMade, Routed, DisplaySteps, AreaSteps, InfoSteps
<1>5. CASE NoStock
  <2>1. whole \subseteq whole' /\ inside' = inside
        BY <1>5 DEF NoStock
  <2>2. Kept
        BY <2>1, PartsKept DEF Kept
  <2> QED BY <1>5, <2>2 DEF NoStock, Kept, PartsMade, Routed, DisplaySteps, AreaSteps, InfoSteps
<1>6. CASE InfoDone
  <2>1. whole \subseteq whole' /\ inside' = inside
        BY <1>6 DEF InfoDone
  <2>2. Kept
        BY <2>1, PartsKept DEF Kept
  <2> QED BY <1>6, <2>2 DEF InfoDone, Kept, PartsMade, Routed, DisplaySteps, AreaSteps, InfoSteps
<1>7. CASE Check
  <2>1. whole \subseteq whole' /\ inside' = inside
        BY <1>7 DEF Check
  <2>2. Kept
        BY <2>1, PartsKept DEF Kept
  <2> QED BY <1>7, <2>2 DEF Check, AfterDisplays, Kept, PartsMade, Routed, DisplaySteps, AreaSteps, InfoSteps
<1>8. CASE AppendAlt
  <2>1. CASE Owns("patched") /\ Owns("alt")
    <3>1. /\ inside' = inside \cup {<<"patched", "alt">>} /\ whole' = whole
          /\ step = "append" /\ step' \in {"set_displays", "hand_over"} /\ UNCHANGED request
          /\ request.op = "info" => step' = "set_displays"
          BY <1>8, <2>1 DEF AppendAlt
    <3>2. AltMade' /\ "alt" \notin Range(request.shows)
          BY <2>1, <3>1 DEF PartsMade, AltMade, ViewsMade, ViewMade, Routed, DisplaySteps, AreaSteps
    <3> QED BY <3>1, <3>2 DEF PartsMade, DisplaySteps, AreaSteps
  <2>2. CASE ~(Owns("patched") /\ Owns("alt"))
    <3>1. /\ inside' = inside /\ whole' = whole /\ UNCHANGED request
          /\ step = "append" /\ step' = AfterDisplays
          BY <1>8, <2>2 DEF AppendAlt
    <3>2. Kept
          BY <3>1, PartsKept DEF Kept
    <3> QED BY <3>1, <3>2 DEF Kept, PartsMade, DisplaySteps, AreaSteps, AfterDisplays
  <2> QED BY <2>1, <2>2
<1>9. CASE HandOver
  <2>1. whole \subseteq whole' /\ inside' = inside
        BY <1>9 DEF HandOver
  <2>2. Kept
        BY <2>1, PartsKept DEF Kept
  <2> QED BY <1>9, <2>2 DEF HandOver, Kept, PartsMade, Routed, DisplaySteps, AreaSteps, InfoSteps
<1>10. CASE StockStays
  <2>1. whole \subseteq whole' /\ inside' = inside
        BY <1>10 DEF StockStays
  <2>2. Kept
        BY <2>1, PartsKept DEF Kept
  <2> QED BY <1>10, <2>2 DEF StockStays, Kept, PartsMade, Routed, DisplaySteps, AreaSteps, InfoSteps
<1>11. ASSUME NEW b \in BOOLEAN, MayFail(b) PROVE PartsMade'
  <2>1. CASE StockAnswers(b)
    <3>1. inside = {} /\ whole = {} /\ inside' = StockInside /\ whole' = whole
          BY <2>1 DEF StockAnswers, StockAsCame, EarlySteps
    <3>2. Kept
          BY <3>1, PartsKept DEF Kept, StockInside
    <3> QED BY <2>1, <3>2 DEF StockAnswers, Branch, Kept, PartsMade, Routed, DisplaySteps, AreaSteps, InfoSteps
  <2>2. CASE Urls(b)
    <3>1. whole \subseteq whole' /\ inside' = inside
          BY <2>2 DEF Urls
    <3>2. Kept
          BY <3>1, PartsKept DEF Kept
    <3> QED BY <2>2, <3>2 DEF Urls, Kept, PartsMade, Routed, DisplaySteps, AreaSteps, InfoSteps
  <2>3. CASE Clone(b)
    <3>1. whole' = whole /\ inside \subseteq inside'
          BY <2>3 DEF Clone
    <3>2. ASSUME NEW x \in Objects, <<x, "alt">> \in inside' PROVE <<x, "alt">> \in inside
      <4>1. ASSUME NEW p \in inside, p[1] = "stock" PROVE p[2] # "alt"
        <5>1. p = <<p[1], p[2]>> /\ p[1] \in Objects
              BY DEF InfoTypeOK
        <5> QED BY <4>1, <5>1 DEF PartsMade
      <4> QED BY <2>3, <3>2, <4>1 DEF Clone
    <3>3. Kept
          BY <3>1, <3>2, PartsKept DEF Kept
    <3> QED BY <2>3, <3>3 DEF Clone, Kept, PartsMade, Routed, DisplaySteps, AreaSteps, InfoSteps
  <2>4. CASE Features(b)
    <3>1. whole \subseteq whole' /\ inside' = inside
          BY <2>4 DEF Features
    <3>2. Kept
          BY <3>1, PartsKept DEF Kept
    <3> QED BY <2>4, <3>2 DEF Features, Kept, PartsMade, Routed, DisplaySteps, AreaSteps, InfoSteps
  <2>5. CASE SetFeatures(b)
    <3>1. whole' = whole /\ inside \subseteq inside' /\ inside' \subseteq inside \cup {<<"out", "features">>}
          BY <2>5 DEF SetFeatures
    <3>2. Kept
          BY <3>1, PartsKept DEF Kept
    <3> QED BY <2>5, <3>2 DEF SetFeatures, Kept, PartsMade, DisplaySteps, AreaSteps
  <2>6. CASE Look(b)
    <3>1. whole \subseteq whole' /\ inside' = inside
          BY <2>6 DEF Look
    <3>2. Kept
          BY <3>1, PartsKept DEF Kept
    <3> QED BY <2>6, <3>2 DEF Look, Kept, PartsMade, Routed, DisplaySteps, AreaSteps, InfoSteps
  <2>7. CASE SetDisplays(b)
    <3>1. /\ whole' = whole
          /\ \A p \in inside : p \in inside' \/ p = <<"out", "stock_displays">>
          /\ inside' \subseteq inside \cup {<<"out", "patched">>}
          BY <2>7 DEF SetDisplays
    <3>2. Kept
          BY <3>1, PartsKept DEF Kept
    <3> QED BY <2>7, <3>2 DEF SetDisplays, Kept, PartsMade, Routed, DisplaySteps, AreaSteps, InfoSteps
  <2>8. CASE Copy(b)
    <3>1. whole' = whole /\ inside \subseteq inside'
          BY <2>8 DEF Copy
    <3>2. ASSUME NEW x \in Objects, <<x, "alt">> \in inside' PROVE <<x, "alt">> \in inside
      <4>1. ASSUME NEW p \in inside, p[1] = Source PROVE p[2] # "alt"
        <5>1. p = <<p[1], p[2]>> /\ p[1] \in Objects
              BY DEF InfoTypeOK
        <5> QED BY <4>1, <5>1 DEF PartsMade, Source
      <4> QED BY <2>8, <3>2, <4>1 DEF Copy
    <3>3. Kept
          BY <3>1, <3>2, PartsKept DEF Kept
    <3> QED BY <2>8, <3>3 DEF Copy, Kept, PartsMade, Routed, DisplaySteps, AreaSteps, InfoSteps
  <2>9. CASE AreaArray(b)
    <3>1. whole \subseteq whole' /\ inside' = inside
          BY <2>9 DEF AreaArray
    <3>2. Kept
          BY <3>1, PartsKept DEF Kept
    <3> QED BY <2>9, <3>2, Progress, HeldIs, Named DEF AreaArray, Owns, ViewCount, Kept, PartsMade, Routed, DisplaySteps, AreaSteps, InfoSteps
  <2>10. CASE FillArea(b)
    <3>0. slot \in 0 .. ViewCount - 1 /\ held["areas"] = 1 /\ "areas" \in Objects /\ step = "fill_area"
          BY <2>10, Progress, Named DEF FillArea, Routed, AreaSteps
    <3>1. /\ whole \subseteq whole' /\ inside \subseteq inside'
          /\ inside' \subseteq inside \cup {<<AreaOf(slot), SafeOf(slot)>>, <<"areas", AreaOf(slot)>>}
          BY <2>10 DEF FillArea
    <3>2. Kept
      <4>1. AreaOf(slot) # "alt" /\ SafeOf(slot) # "alt"
            BY <3>0, SlotObjects
      <4> QED BY <3>1, <4>1, PartsKept DEF Kept
    <3>3. CASE b
      <4>1. \A k \in 0 .. slot : ViewMade(k)'
        <5>1. ASSUME NEW k \in 0 .. slot PROVE ViewMade(k)'
          <6>1. CASE k = slot
                BY <2>10, <3>3, <6>1 DEF FillArea, ViewMade
          <6>2. CASE k # slot
                BY <3>0, <3>2, <5>1, <6>2 DEF Kept, PartsMade, AreaSteps, ViewCount
          <6> QED BY <6>1, <6>2
        <5> QED BY <5>1
      <4>2. slot' = slot + 1 /\ step' = (IF slot + 1 = ViewCount THEN "suggest" ELSE "area")
            /\ UNCHANGED request
            BY <2>10, <3>3 DEF FillArea
      <4>3. step' = "suggest" => ViewsMade'
            BY <3>0, <4>1, <4>2 DEF ViewsMade, ViewCount
      <4>4. step' = "area" => \A k \in 0 .. slot' - 1 : ViewMade(k)'
            BY <3>0, <4>1, <4>2
      <4> QED BY <3>0, <3>2, <4>2, <4>3, <4>4 DEF Kept, PartsMade, DisplaySteps, AreaSteps
    <3>4. CASE ~b
      <4>1. step' = "suggest" /\ ~Owns("areas")' /\ UNCHANGED request
            BY <2>10, <3>0, <3>4, HeldIs DEF FillArea, Owns
      <4> QED BY <3>0, <3>2, <4>1 DEF Kept, PartsMade, DisplaySteps, AreaSteps
    <3> QED BY <3>3, <3>4
  <2>11. CASE Suggest(b)
    <3>1. whole \subseteq whole' /\ inside' = inside
          BY <2>11 DEF Suggest
    <3>2. Kept
          BY <3>1, PartsKept DEF Kept
    <3> QED BY <2>11, <3>2, Progress, HeldIs, Named DEF Suggest, Owns, Kept, PartsMade, Routed, DisplaySteps, AreaSteps, InfoSteps
  <2>12. CASE Fields(b)
    <3>1. CASE Owned(Parts) = Parts /\ b
      <4>1. /\ inside' = inside \cup {<<"alt", "areas">>, <<"alt", "suggest">>}
            /\ whole' = whole \cup {"alt"}
            /\ step = "fields" /\ step' = "append" /\ UNCHANGED request
            BY <2>12, <3>1 DEF Fields
      <4>2. Kept
            BY <4>1, PartsKept DEF Kept
      <4>3. ViewsMade' /\ "suggest" \in whole'
            BY <3>1, <4>1, <4>2 DEF Kept, PartsMade, Owned, Parts
      <4>4. AltMade'
            BY <4>1, <4>3 DEF AltMade
      <4> QED BY <4>1, <4>2, <4>4 DEF Kept, PartsMade, DisplaySteps, AreaSteps
    <3>2. CASE ~(Owned(Parts) = Parts /\ b)
      <4>1. inside' = inside /\ whole' = whole /\ step = "fields" /\ step' = "append" /\ UNCHANGED request
            BY <2>12, <3>2 DEF Fields
      <4>2. Kept
            BY <4>1, PartsKept DEF Kept
      <4>3. ~Owns("alt")'
        <5>1. held'["alt"] = IF "alt" \in Owned(Parts) THEN held["alt"] - 1 ELSE held["alt"]
              BY <2>12, <3>2, HeldIs, Named DEF Fields
        <5> QED BY <5>1, Named DEF Owns, Owned, Parts, Counted
      <4> QED BY <4>1, <4>2, <4>3 DEF Kept, PartsMade, DisplaySteps, AreaSteps
    <3> QED BY <3>1, <3>2
  <2>13. CASE MakeArea(b)
    <3>1. whole \subseteq whole' /\ inside' = inside
          BY <2>13 DEF MakeArea
    <3>2. Kept
          BY <3>1, PartsKept DEF Kept
    <3> QED BY <2>13, <3>2 DEF MakeArea, ViewCount, Kept, PartsMade, Routed, DisplaySteps, AreaSteps
  <2>14. CASE MakeSafe(b)
    <3>1. whole \subseteq whole' /\ inside' = inside
          BY <2>14 DEF MakeSafe
    <3>2. Kept
          BY <3>1, PartsKept DEF Kept
    <3> QED BY <2>14, <3>2 DEF MakeSafe, ViewCount, Kept, PartsMade, Routed, DisplaySteps, AreaSteps
  <2> QED BY <1>11, <2>1, <2>2, <2>3, <2>4, <2>5, <2>6, <2>7, <2>8,
             <2>9, <2>10, <2>11, <2>12, <2>13, <2>14 DEF MayFail
<1>12. ASSUME NEW file \in ProfileFiles, NEW views \in ViewFiles, NEW made \in BOOLEAN,
            Alt(file, views, made)
      PROVE  PartsMade'
  <2>1. whole \subseteq whole' /\ inside' = inside
        BY <1>12 DEF Alt
  <2>2. Kept
        BY <2>1, PartsKept DEF Kept
  <2> QED BY <1>12, <2>2, Progress, HeldIs, Named DEF Alt, Owns, ViewCount, Kept, PartsMade, Routed, DisplaySteps, AreaSteps, InfoSteps
<1>13. CASE PairMade
  <2>1. whole \subseteq whole' /\ inside' = inside /\ step = "pair"
        BY <1>13 DEF PairMade
  <2>2. Kept
        BY <2>1, PartsKept DEF Kept
  <2>3. step' = "suggest" => ~Owns("areas")'
        BY <1>13, <2>1, Progress, HeldIs, Named DEF PairMade, Owns, AreaSteps
  <2> QED BY <1>13, <2>1, <2>2, <2>3
             DEF PairMade, ViewCount, Kept, PartsMade, Routed, DisplaySteps, AreaSteps
<1>14. CASE AsksAgain
      BY <1>14 DEF AsksAgain, PartsMade, AltInside, DisplaySteps, AreaSteps
<1>15. CASE UNCHANGED infoVars
  <2>1. whole \subseteq whole' /\ inside' = inside
        BY <1>15 DEF infoVars
  <2>2. Kept
        BY <2>1, PartsKept DEF Kept
  <2> QED BY <1>15, <2>2 DEF infoVars, Owns, ViewCount, Kept, PartsMade, Routed, DisplaySteps, AreaSteps, InfoSteps
<1> QED BY <1>1, <1>2, <1>3, <1>4, <1>5, <1>6, <1>7, <1>8,
           <1>9, <1>10, <1>11, <1>12, <1>13, <1>14, <1>15 DEF InfoNext


LEMMA InfoBegins == InfoInit => InfoTypeOK /\ InfoStanding /\ ProfileSound(profile)
<1> SUFFICES ASSUME InfoInit PROVE InfoTypeOK /\ InfoStanding /\ ProfileSound(profile)
    OBVIOUS
<1>1. ProfileSound(profile)
      BY NoProfileLoads DEF InfoInit
<1>2. InfoTypeOK
      BY <1>1 DEF InfoInit, InfoTypeOK, Steps, Heldings, ProfileSound, ViewCount
<1>3. Counted
      BY DEF InfoInit, Counted, Firm, EarlySteps
<1>4. Routed /\ StockAsCame /\ PartsMade
      BY DEF InfoInit, Routed, StockAsCame, PartsMade, AltInside, EarlySteps, DisplaySteps, AreaSteps, InfoSteps
<1> QED BY <1>1, <1>2, <1>3, <1>4 DEF InfoStanding

LEMMA ProfileStaysSound ==
    ProfileSound(profile) /\ [InfoNext]_infoVars => ProfileSound(profile)'
<1> SUFFICES ASSUME ProfileSound(profile), [InfoNext]_infoVars PROVE ProfileSound(profile)'
    OBVIOUS
<1>1. CASE UNCHANGED profile
      BY <1>1 DEF ProfileSound
<1>2. CASE \E file \in ProfileFiles, views \in ViewFiles, made \in BOOLEAN : Alt(file, views, made)
      BY <1>2, ProfileLoads DEF Alt, ProfileSound
<1>3. CASE AsksAgain
      BY <1>3, NoProfileLoads DEF AsksAgain, ProfileSound
<1> QED BY <1>1, <1>2, <1>3 DEF InfoNext, infoVars, heap, ResolveBegins, ResolveGoesOn, ElsewhereBegins,
           ElsewhereGoesOn, NoStock, InfoDone, Check, AppendAlt, HandOver, StockStays, MayFail,
           StockAnswers, Urls, Clone, Features, SetFeatures, Look, SetDisplays, Copy, AreaArray,
           FillArea, Suggest, Fields, MakeArea, MakeSafe, PairMade

(* The call's references, the stock answer and the profile keep their      *)
(* shape.                                                                  *)
THEOREM InfoTypeCorrect == InfoSpec => []InfoTypeOK
<1>1. InfoTypeOK /\ InfoStanding /\ [InfoNext]_infoVars => InfoTypeOK' /\ InfoStanding'
      BY InfoTyped, RoutedStays, CountedStays, StockStaysAsCame, PartsStayMade DEF InfoStanding
<1> QED BY <1>1, InfoBegins, PTL DEF InfoSpec

LEMMA InfoStands == InfoSpec => [](InfoTypeOK /\ InfoStanding /\ ProfileSound(profile))
<1>1. InfoTypeOK /\ InfoStanding /\ [InfoNext]_infoVars => InfoTypeOK' /\ InfoStanding'
      BY InfoTyped, RoutedStays, CountedStays, StockStaysAsCame, PartsStayMade DEF InfoStanding
<1> QED BY <1>1, InfoBegins, ProfileStaysSound, PTL DEF InfoSpec

LEMMA Contained ==
    ASSUME NEW S PROVE S \subseteq WithContents(S)
                       /\ \A x, y : x \in S /\ <<x, y>> \in inside => y \in WithContents(S)
BY DEF WithContents

(* ReferencesKept, for any answer of the stock functions and any failed    *)
(* allocations: the call gives away the one reference it answers with, uses*)
(* nothing that is gone, and does not write to the stock answer.           *)
THEOREM ReferencesStayKept == InfoSpec => []ReferencesKept
<1>1. InfoTypeOK /\ InfoStanding => ReferencesKept
  <2> SUFFICES ASSUME InfoTypeOK, InfoStanding PROVE ReferencesKept
      OBVIOUS
  <2> USE DEF InfoStanding
  <2>1. Balanced
    <3>1. \A o \in Objects : held[o] >= 0
          BY DEF Counted
    <3>2. ASSUME step = "answered", NEW o \in Objects
          PROVE  held[o] = IF o = answer THEN 1 ELSE 0
          BY <3>2 DEF Counted, Firm, Perhaps, EarlySteps
    <3> QED BY <3>1, <3>2 DEF Balanced
  <2>2. BorrowsTheLiving
    <3>1. Owned(Objects) \subseteq Alive
          BY Contained DEF Alive
    <3>2. ASSUME NEW x \in Owned(Objects), NEW y, <<x, y>> \in inside
          PROVE  y \in Alive /\ \A z : <<y, z>> \in inside => z \in Alive
          BY <3>2, Contained DEF Alive
    <3>3. CASE step \in InfoSteps
      <4>1. step \in {"clone", "features", "set_features"} => "stock" \in Owned(Objects)
            BY Named DEF Counted, Firm, EarlySteps, Carried, Owned, Owns
      <4>2. step = "set_displays" => {"out", "patched", "stock"} \subseteq Owned(Objects)
            BY Named DEF Counted, Firm, EarlySteps, Carried, Owned, Owns, Routed, InfoSteps
      <4> QED BY <3>1, <3>3, <4>1, <4>2 DEF Borrows, InfoSteps, BorrowsTheLiving
    <3>4. CASE step \in {"check"} \cup DisplaySteps
      <4>1. "stock" \in Owned(Objects)
            BY <3>4, Named DEF Counted, Firm, EarlySteps, Carried, Owned, Owns, DisplaySteps, AreaSteps
      <4>2. StockInside \subseteq inside
            BY <3>4 DEF StockAsCame, StockPairs, EarlySteps, DisplaySteps, AreaSteps
      <4>3. request.listed => Source \in Alive
            BY <3>1, <3>2, <3>4, <4>1, <4>2 DEF Source, StockInside, Routed
      <4>4. request.listed /\ request.shows # <<>> => "main" \in Alive
            BY <3>1, <3>2, <3>4, <4>1, <4>2 DEF StockInside, Routed
      <4> QED BY <3>4, <4>3, <4>4 DEF Borrows, Routed, DisplaySteps, AreaSteps, BorrowsTheLiving
    <3> QED BY <3>3, <3>4 DEF Borrows, BorrowsTheLiving, InfoSteps, DisplaySteps, AreaSteps
  <2>3. StockUntouched
    <3>1. ASSUME Owns("stock")
          PROVE  step \notin EarlySteps /\ (step = "answered" => answer # "none")
          BY <3>1, Named DEF Counted, Firm, Perhaps, EarlySteps, Owns
    <3> QED BY <3>1 DEF StockUntouched, StockAsCame, StockPairs, StockParts
  <2> QED BY <2>1, <2>2, <2>3 DEF ReferencesKept
<1> QED BY <1>1, InfoStands, PTL

LEMMA OutOfContents ==
    ASSUME NEW S, NEW y, y \in WithContents(S), inside \subseteq Objects \X Objects
    PROVE  y \in S \/ \E x \in Objects : <<x, y>> \in inside
<1>1. CASE y \in S BY <1>1
<1>2. CASE y \notin S
  <2>1. PICK p \in inside : y = p[2]
        BY <1>2 DEF WithContents
  <2>2. p = <<p[1], p[2]>> /\ p[1] \in Objects
        BY <2>1
  <2> QED BY <2>1, <2>2
<1> QED BY <1>1, <1>2

(* DisplayIsWhole: whatever could not be made, the second display the      *)
(* phone is told of has all its parts and is the only one; and whatever    *)
(* stands in the files, each view's safe area is on the canvas.            *)
THEOREM DisplayStaysWhole == InfoSpec => []DisplayIsWhole
<1>1. InfoTypeOK /\ InfoStanding /\ ProfileSound(profile) => DisplayIsWhole
  <2> SUFFICES ASSUME InfoTypeOK, InfoStanding, ProfileSound(profile) PROVE DisplayIsWhole
      OBVIOUS
  <2> USE DEF InfoStanding
  <2>1. SafeAreasOnCanvas
        BY DEF SafeAreasOnCanvas, ProfileSound
  <2>2. ASSUME step = "answered", Shown # {} PROVE AltInside
    <3>1. "alt" \in Alive
          BY <2>2 DEF Shown
    <3>2. "alt" \in Owned(Objects) \/ \E x \in Objects : <<x, "alt">> \in inside
          BY <3>1, OutOfContents DEF Alive, InfoTypeOK
    <3>3. "alt" \notin Owned(Objects)
          BY <2>2, Named DEF Counted, Firm, Perhaps, EarlySteps, Owned, Owns, Routed
    <3> QED BY <3>2, <3>3 DEF AltInside
  <2>3. ASSUME step = "answered", Shown # {}
        PROVE  /\ {"alt", "suggest"} \cup Areas \cup Safes \subseteq whole
               /\ {<<"alt", "areas">>, <<"alt", "suggest">>} \subseteq inside
               /\ \A i \in 0 .. ViewCount - 1 :
                    {<<"areas", AreaOf(i)>>, <<AreaOf(i), SafeOf(i)>>} \subseteq inside
    <3>1. AltMade
          BY <2>2, <2>3 DEF PartsMade
    <3>2. Areas \cup Safes \subseteq whole
          BY <3>1, AllSlots DEF AltMade, ViewsMade, ViewMade
    <3> QED BY <3>1, <3>2 DEF AltMade, ViewsMade, ViewMade
  <2>4. AllOrNothing
        BY <2>2, <2>3 DEF AllOrNothing, PartsMade
  <2> QED BY <2>1, <2>4 DEF DisplayIsWhole
<1> QED BY <1>1, InfoStands, PTL

(* Who finds the flag set and the functions missing finds them missing for *)
(* good, or comes while another thread is looking for them.                *)
Resolved ==
    /\ step \in {"copies", "ready", "stock"} => cf.resolved
    /\ cf.resolved /\ ~cf.copies =>
         ~platform.copies \/ elsewhere = "resolving_copies" \/ step = "copies"

LEMMA ResolvedStays == InfoTypeOK /\ Resolved /\ [InfoNext]_infoVars => Resolved'
<1> SUFFICES ASSUME InfoTypeOK, Resolved, [InfoNext]_infoVars PROVE Resolved'
    OBVIOUS
<1>0. cf \in [resolved : BOOLEAN, copies : BOOLEAN, ready : BOOLEAN]
      BY DEF InfoTypeOK
<1> USE <1>0 DEF Resolved
<1>1. CASE ResolveBegins BY <1>1 DEF ResolveBegins, Goes
<1>2. CASE ResolveGoesOn
  <2>1. CASE step = "copies"
    <3>1. cf'.copies = platform.copies /\ cf'.resolved /\ step' = "ready" /\ platform' = platform
          BY <1>2, <2>1 DEF ResolveGoesOn, Goes
    <3> QED BY <3>1
  <2>2. CASE step = "ready"
    <3>1. cf'.copies = cf.copies /\ cf'.resolved /\ step' = "stock"
          /\ UNCHANGED <<platform, elsewhere>>
          BY <1>2, <2>2 DEF ResolveGoesOn, Goes
    <3> QED BY <2>2, <3>1
  <2> QED BY <1>2, <2>1, <2>2 DEF ResolveGoesOn
<1>3. CASE ElsewhereBegins BY <1>3 DEF ElsewhereBegins
<1>4. CASE ElsewhereGoesOn BY <1>4 DEF ElsewhereGoesOn
<1>5. CASE AsksAgain BY <1>5 DEF AsksAgain
<1>6. CASE UNCHANGED infoVars BY <1>6 DEF infoVars
<1>7. CASE UNCHANGED <<platform, cf, elsewhere>> /\ step # "copies" /\ step' \notin {"copies", "ready", "stock"}
      BY <1>7
<1> QED BY <1>1, <1>2, <1>3, <1>4, <1>5, <1>6, <1>7 DEF InfoNext, Building, Goes, Answers, Branch,
           AfterDisplays, NoStock, InfoDone, Check, AppendAlt, HandOver, StockStays, MayFail,
           StockAnswers, Urls, Clone, Features, SetFeatures, Look, SetDisplays, Copy, AreaArray,
           FillArea, Suggest, Fields, MakeArea, MakeSafe, PairMade, Alt

(* AnswersAsStock: a call is left without an answer only where the stock   *)
(* function gave none or is not there, or while the first call of another  *)
(* thread looks for it.                                                    *)
THEOREM AnsweredAsStock == InfoSpec => AnswersAsStock
<1> DEFINE Answered == step = "stock" /\ answer' = "none" /\ step' = "answered" =>
                         request.kind = "none" \/ ~platform.copies
                           \/ elsewhere = "resolving_copies"
<1>1. InfoInit => Resolved
      BY DEF InfoInit, Resolved
<1>2. ASSUME InfoTypeOK, Resolved, [InfoNext]_infoVars PROVE [Answered]_infoVars
  <2> SUFFICES ASSUME step = "stock", answer' = "none", step' = "answered", request.kind # "none"
               PROVE  ~platform.copies \/ elsewhere = "resolving_copies"
      OBVIOUS
  <2>1. CASE NoStock BY <1>2, <2>1 DEF NoStock, Resolved
  <2>2. ASSUME NEW b \in BOOLEAN, StockAnswers(b) PROVE FALSE
        BY <2>2 DEF StockAnswers, Goes, Answers, Branch
  <2> QED BY <1>2, <2>1, <2>2 DEF InfoNext, infoVars, Goes, Answers, ResolveBegins, ResolveGoesOn,
             ElsewhereBegins, ElsewhereGoesOn, InfoDone, Check, AppendAlt, HandOver, StockStays,
             MayFail, Urls, Clone, Features, SetFeatures, Look, SetDisplays, Copy, AreaArray,
             FillArea, Suggest, Fields, MakeArea, MakeSafe, PairMade, Alt, AsksAgain
<1> QED BY <1>1, <1>2, ResolvedStays, InfoTypeCorrect, PTL DEF InfoSpec, AnswersAsStock

-----------------------------------------------------------------------------
(* The parsers.  What is taken from a message is made of its bytes, the    *)
(* arrays hold what fits, and the walk through a lane information is inside*)
(* it; a lane that has begun is there.                                     *)
LaneWithin == {l \in [position : Word, direction : Word, status : Byte, angles : Seq(Word)] :
                  Len(l.angles) <= MaxAngles}

WalkInv ==
    /\ IsMessage(msg)
    /\ phase \in {"tlv", "lane", "done"}
    /\ off \in Nat
    /\ group \in [at : Nat, end : Nat, base : Nat, open : BOOLEAN, lit : BOOLEAN]
    /\ phase # "done" => Size >= 6
    /\ Size >= 6 => off <= Size
    /\ phase = "lane" => group.at <= group.end /\ group.end = off

TakenInv ==
    /\ present \subseteq Ids \cup {LinkedBit}
    /\ number \in [Ids -> Seq(Byte)]
    /\ list \in [Ids -> Seq(Word)]
    /\ \A id \in Ids : Len(list[id]) <= ListCap(msg.form, id)
    /\ DOMAIN text = Ids

LanesInv ==
    /\ lanes \in Seq(LaneWithin)
    /\ Len(lanes) <= MaxLanes
    /\ phase = "lane" => group.base <= Len(lanes) /\ (group.open => Len(lanes) >= 1)

ParseInv == WalkInv /\ TakenInv /\ LanesInv

(* The bounds of a 16 bit value, where no prover has to count to them.     *)
LEMMA WordHas ==
    ASSUME NEW x \in Int, -32768 <= x, x <= 65535
    PROVE  x \in Word
<1>1. PICK low \in Int : low = -32768
      OBVIOUS
<1>2. PICK high \in Int : high = 65535
      OBVIOUS
<1>3. low <= x /\ x <= high
      BY <1>1, <1>2, SMT
<1>4. x \in low .. high
      BY <1>3
<1>5. low .. high = Word
      BY <1>1, <1>2, SMT DEF Word
<1> QED BY <1>4, <1>5

LEMMA ByteIsWord == ASSUME NEW x \in Byte PROVE x \in Word /\ x \in Nat /\ x <= 255
<1>1. x \in Nat /\ x <= 255
      BY DEF Byte
<1>2. x \in Int /\ -32768 <= x /\ x <= 65535
      BY <1>1
<1> QED BY <1>1, <1>2, WordHas

LEMMA SizeIsNat == ParseInv => Size \in Nat /\ msg.bytes \in [1 .. Size -> Byte]
BY LenProperties DEF ParseInv, WalkInv, IsMessage, Size

LEMMA ByteIs ==
    ASSUME ParseInv, NEW i \in Nat
    PROVE  /\ ByteAt(i) \in Nat
           /\ i < Size => ByteAt(i) \in Byte
<1>1. Garbage \in Nat
      BY SMT DEF Garbage
<1>2. Size \in Nat /\ msg.bytes \in [1 .. Size -> Byte]
      BY SizeIsNat
<1>3. CASE i < Size
  <2>1. i + 1 \in 1 .. Size
        BY <1>2, <1>3
  <2>2. msg.bytes[i + 1] \in Byte
        BY <1>2, <2>1
  <2>3. ByteAt(i) = msg.bytes[i + 1]
        BY <1>3 DEF ByteAt
  <2> QED BY <2>2, <2>3, ByteIsWord
<1>4. CASE ~(i < Size)
  <2>1. ByteAt(i) = Garbage
        BY <1>4 DEF ByteAt
  <2> QED BY <1>1, <1>4, <2>1
<1> QED BY <1>3, <1>4

LEMMA Be16Is ==
    ASSUME ParseInv, NEW i \in Nat
    PROVE  /\ Be16(i) \in Nat
           /\ i + 1 < Size => Be16(i) <= 65535 /\ Be16(i) \in Word
<1>1. ByteAt(i) \in Nat /\ ByteAt(i + 1) \in Nat
      BY ByteIs
<1>2. Be16(i) \in Nat
      BY <1>1 DEF Be16
<1>3. ASSUME i + 1 < Size PROVE Be16(i) <= 65535 /\ Be16(i) \in Word
  <2>1. Size \in Nat /\ i < Size
        BY <1>3, SizeIsNat
  <2>2. ByteAt(i) \in Byte /\ ByteAt(i + 1) \in Byte
        BY <1>3, <2>1, ByteIs
  <2>3. ByteAt(i) <= 255 /\ ByteAt(i + 1) <= 255
        BY <2>2, ByteIsWord
  <2>4. 256 * ByteAt(i) + ByteAt(i + 1) <= 65535
        BY <1>1, <2>3
  <2>5. Be16(i) <= 65535
        BY <2>4 DEF Be16
  <2>6. Be16(i) \in Int /\ -32768 <= Be16(i)
        BY <1>2
  <2> QED BY <2>5, <2>6, WordHas
<1> QED BY <1>2, <1>3

LEMMA BytesAre ==
    ASSUME ParseInv, NEW i \in Nat, NEW n \in Nat, i + n <= Size
    PROVE  Bytes(i, n) \in Seq(Byte)
<1>1. ASSUME NEW k \in 1 .. n PROVE ByteAt(i + k - 1) \in Byte
  <2>1. i + k - 1 \in Nat /\ i + k - 1 < Size
        BY SizeIsNat
  <2> QED BY <2>1, ByteIs
<1>2. Bytes(i, n) \in [1 .. n -> Byte]
      BY <1>1 DEF Bytes
<1> QED BY <1>2

LEMMA SignedIs == ASSUME NEW w \in Nat, w <= 65535 PROVE Signed(w) \in Word
<1>1. Signed(w) \in Int /\ -32768 <= Signed(w) /\ Signed(w) <= 65535
      BY DEF Signed
<1> QED BY <1>1, WordHas

LEMMA WordsAre ==
    ASSUME ParseInv, NEW i \in Nat, NEW n \in Nat, i + n <= Size
    PROVE  /\ Words(i, n) \in [1 .. (n \div 2) -> Word]
           /\ \A k \in 1 .. (n \div 2) : Signed(Words(i, n)[k]) \in Word
           /\ n \div 2 \in Nat
<1>1. n \div 2 \in Nat /\ 2 * (n \div 2) <= n
      OBVIOUS
<1>2. ASSUME NEW k \in 1 .. (n \div 2)
      PROVE  /\ Be16(i + 2 * (k - 1)) \in Word
             /\ Signed(Be16(i + 2 * (k - 1))) \in Word
  <2>1. i + 2 * (k - 1) \in Nat /\ i + 2 * (k - 1) + 1 < Size
        BY <1>1, SizeIsNat
  <2> QED BY <2>1, Be16Is, SignedIs
<1>3. Words(i, n) = [k \in 1 .. (n \div 2) |-> Be16(i + 2 * (k - 1))]
      BY DEF Words
<1> HIDE DEF Words
<1> QED BY <1>1, <1>2, <1>3

LEMMA OddByteIs ==
    ASSUME ParseInv, NEW i \in Nat, NEW n \in Nat, i + n <= Size
    PROVE  OddByte(i, n) \in Seq(Word)
<1>1. CASE n % 2 = 1
  <2>1. i + n - 1 \in Nat /\ i + n - 1 < Size
        BY <1>1, SizeIsNat
  <2>2. ByteAt(i + n - 1) \in Word
        BY <2>1, ByteIs, ByteIsWord
  <2> QED BY <1>1, <2>2 DEF OddByte
<1>2. CASE n % 2 # 1
      BY <1>2 DEF OddByte
<1> QED BY <1>1, <1>2

LEMMA CutIs ==
    ASSUME NEW S, NEW s \in Seq(S), NEW n \in Int
    PROVE  Cut(s, n) \in Seq(S) /\ Len(Cut(s, n)) <= Len(s)
             /\ (n >= 0 => Len(Cut(s, n)) <= n)
<1> DEFINE top == IF Len(s) < n THEN Len(s) ELSE n
<1>1. Len(s) \in Nat /\ top \in Int /\ top <= Len(s)
      OBVIOUS
<1>2. \A i \in 1 .. top : s[i] \in S
      BY <1>1, ElementOfSeq
<1>3. SubSeq(s, 1, top) \in Seq(S) /\ Len(SubSeq(s, 1, top)) = IF 1 <= top THEN top ELSE 0
  <2> HIDE DEF top
  <2>1. Len(SubSeq(s, 1, top)) = IF 1 <= top THEN top - 1 + 1 ELSE 0
        BY <1>1, <1>2, SubSeqProperties
  <2>2. SubSeq(s, 1, top) \in Seq(S)
        BY <1>1, <1>2, SubSeqProperties
  <2> QED BY <1>1, <2>1, <2>2
<1> QED BY <1>1, <1>3 DEF Cut

LEMMA CapsAre ==
    ASSUME NEW form, NEW id
    PROVE  ListCap(form, id) \in Nat /\ ScalarSize(form, id) \in 0 .. 8
BY CapacityAssumption DEF ListCap, ScalarSize

(* The next TLV, where it is sound, ends inside the message.               *)
LEMMA TlvIs ==
    ASSUME ParseInv
    PROVE  /\ TlvLen \in Nat /\ TlvId \in Nat /\ Val \in Nat
           /\ Sound => /\ ValLen \in Nat /\ TlvLen >= 4
                       /\ Val + ValLen = off + TlvLen /\ off + TlvLen <= Size
<1>1. off \in Nat /\ off + 2 \in Nat
      BY DEF ParseInv, WalkInv
<1>2. TlvLen \in Nat /\ TlvId \in Nat
      BY <1>1, Be16Is DEF TlvLen, TlvId
<1> QED BY <1>1, <1>2 DEF Val, ValLen, Sound

LEMMA SubIs ==
    ASSUME ParseInv, phase = "lane"
    PROVE  /\ SubLen \in Nat /\ SubId \in Nat /\ SubVal \in Nat
           /\ SubSound => /\ SubValLen \in Nat /\ SubLen >= 4
                          /\ SubVal + SubValLen = group.at + SubLen
                          /\ group.at + SubLen <= group.end
                          /\ SubVal + SubValLen <= Size
<1>1. /\ group.at \in Nat /\ group.end \in Nat /\ Size \in Nat /\ off = group.end
      /\ Size >= 6 /\ off <= Size
      BY SizeIsNat DEF ParseInv, WalkInv
<1>2. SubLen \in Nat /\ SubId \in Nat
  <2>1. group.at + 2 \in Nat
        BY <1>1
  <2> QED BY <1>1, <2>1, Be16Is DEF SubLen, SubId
<1> QED BY <1>1, <1>2 DEF SubVal, SubValLen, SubSound

LEMMA ParseStarts == ParseInit => ParseInv
<1> SUFFICES ASSUME ParseInit PROVE ParseInv
    OBVIOUS
<1>1. IsMessage(msg)
      BY MessageAssumption DEF ParseInit
<1>2. WalkInv
  <2>1. Size \in Nat
        BY <1>1, LenProperties DEF IsMessage, Size
  <2>2. phase = IF Size < 6 THEN "done" ELSE "tlv"
        BY DEF ParseInit
  <2> QED BY <1>1, <2>1, <2>2 DEF ParseInit, WalkInv, NoGroup
<1>3. TakenInv
  <2>1. Cleared(msg.form)
        BY DEF ParseInit
  <2>2. number \in [Ids -> Seq(Byte)]
    <3>1. <<255, 255>> \in Seq(Byte) /\ <<>> \in Seq(Byte)
          BY DEF Byte
    <3> QED BY <2>1, <3>1 DEF Cleared
  <2>3. list \in [Ids -> Seq(Word)] /\ \A id \in Ids : list[id] = <<>>
        BY <2>1 DEF Cleared
  <2> QED BY <2>1, <2>2, <2>3, CapsAre DEF Cleared, TakenInv
<1>4. LanesInv
      BY CapacityAssumption DEF ParseInit, Cleared, LanesInv
<1> QED BY <1>2, <1>3, <1>4 DEF ParseInv

(* A TLV that is sound is left behind inside the message.                  *)
LEMMA Walked ==
    ASSUME ParseInv, phase = "tlv", Sound, GoOn
    PROVE  WalkInv' /\ phase' = "tlv" /\ msg' = msg
<1>1. off + TlvLen \in Nat /\ off + TlvLen <= Size
      BY TlvIs DEF ParseInv, WalkInv
<1>2. Size' = Size
      BY DEF GoOn, Size
<1> QED BY <1>1, <1>2 DEF GoOn, ParseInv, WalkInv

LEMMA LanesAsTheyWere ==
    ASSUME LanesInv, phase' = "tlv", UNCHANGED lanes
    PROVE  LanesInv'
BY DEF LanesInv

LEMMA IdsAre == /\ \A id \in Ids : id \in Ids \cup {LinkedBit}
                /\ {0, 1, 2, 11, 12} \subseteq Ids
BY DEF Ids

LEMMA ScalarTaken ==
    ASSUME ParseInv, NEW form, NEW id \in Ids, TakeScalar(form, id)
    PROVE  ParseInv'
<1>1. phase = "tlv" /\ Sound /\ GoOn
      BY DEF TakeScalar, At
<1>2. WalkInv' /\ phase' = "tlv" /\ msg' = msg
      BY <1>1, Walked
<1>3. TakenInv'
  <2>1. ASSUME ValLen >= ScalarSize(form, id)
        PROVE  Bytes(Val, ScalarSize(form, id)) \in Seq(Byte)
    <3>1. /\ Val \in Nat /\ ValLen \in Nat /\ Val + ValLen <= Size
          /\ ScalarSize(form, id) \in Nat /\ Size \in Nat
          BY <1>1, TlvIs, CapsAre, SizeIsNat
    <3>2. Val + ScalarSize(form, id) <= Size
          BY <2>1, <3>1
    <3> QED BY <3>1, <3>2, BytesAre
  <2>2. number' \in [Ids -> Seq(Byte)]
        BY <2>1 DEF TakeScalar, ParseInv, TakenInv
  <2>3. present' \subseteq Ids \cup {LinkedBit}
        BY IdsAre DEF TakeScalar, ParseInv, TakenInv
  <2> QED BY <1>2, <2>2, <2>3 DEF TakeScalar, ParseInv, TakenInv
<1>4. LanesInv'
      BY <1>2, LanesAsTheyWere DEF TakeScalar, ParseInv
<1> QED BY <1>2, <1>3, <1>4 DEF ParseInv

LEMMA LaneIndexTaken == ASSUME ParseInv, TakeLaneIndex PROVE ParseInv'
<1>1. phase = "tlv" /\ Sound /\ GoOn
      BY DEF TakeLaneIndex, At
<1>2. WalkInv' /\ phase' = "tlv" /\ msg' = msg
      BY <1>1, Walked
<1>3. Val \in Nat /\ ValLen \in Nat /\ Val + ValLen <= Size /\ Size \in Nat
      BY <1>1, TlvIs, SizeIsNat
<1>4. TakenInv'
  <2>1. ValLen >= 2 => Bytes(Val, 2) \in Seq(Byte)
        BY <1>3, BytesAre
  <2>2. ValLen >= 1 => <<0>> \o Bytes(Val, 1) \in Seq(Byte)
    <3>1. ValLen >= 1 => Bytes(Val, 1) \in Seq(Byte)
          BY <1>3, BytesAre
    <3>2. <<0>> \in Seq(Byte)
          BY DEF Byte
    <3> QED BY <3>1, <3>2, ConcatProperties
  <2>3. number' \in [Ids -> Seq(Byte)]
        BY <2>1, <2>2 DEF TakeLaneIndex, ParseInv, TakenInv
  <2>4. present' \subseteq Ids \cup {LinkedBit}
        BY IdsAre DEF TakeLaneIndex, ParseInv, TakenInv
  <2> QED BY <1>2, <2>3, <2>4 DEF TakeLaneIndex, ParseInv, TakenInv
<1>5. LanesInv'
      BY <1>2, LanesAsTheyWere DEF TakeLaneIndex, ParseInv
<1> QED BY <1>2, <1>4, <1>5 DEF ParseInv

(* What a list of the message becomes, for each message that has one.      *)
LEMMA ListOfIs ==
    ASSUME ParseInv, NEW form, NEW id, NEW i \in Nat, NEW n \in Nat, i + n <= Size
    PROVE  ListOf(form, id, i, n) \in Seq(Word)
<1>1. /\ Words(i, n) \in [1 .. (n \div 2) -> Word]
      /\ \A k \in 1 .. (n \div 2) : Signed(Words(i, n)[k]) \in Word
      /\ n \div 2 \in Nat
      BY WordsAre
<1>2. Words(i, n) \in Seq(Word)
      BY <1>1
<1>3. [k \in 1 .. (n \div 2) |-> Signed(Words(i, n)[k])] \in Seq(Word)
      BY <1>1
<1>4. Words(i, n) \o OddByte(i, n) \in Seq(Word)
      BY <1>2, OddByteIs, ConcatProperties
<1> QED BY <1>2, <1>3, <1>4 DEF ListOf

LEMMA ListTaken ==
    ASSUME ParseInv, NEW form, NEW id \in Ids, TakeList(form, id)
    PROVE  ParseInv'
<1>1. phase = "tlv" /\ Sound /\ GoOn /\ msg.form = form
      BY DEF TakeList, At
<1>2. WalkInv' /\ phase' = "tlv" /\ msg' = msg
      BY <1>1, Walked
<1>3. Val \in Nat /\ ValLen \in Nat /\ Val + ValLen <= Size
      BY <1>1, TlvIs
<1> DEFINE there == IF GoesOn(form, id) THEN list[id] ELSE <<>>
           all   == there \o ListOf(form, id, Val, ValLen)
           cap   == ListCap(form, id)
<1>4. all \in Seq(Word) /\ cap \in Nat
  <2>1. there \in Seq(Word)
        BY DEF ParseInv, TakenInv
  <2>2. ListOf(form, id, Val, ValLen) \in Seq(Word)
        BY <1>3, ListOfIs
  <2> HIDE DEF there
  <2> QED BY <2>1, <2>2, ConcatProperties, CapsAre
<1>5. list' = [list EXCEPT ![id] = Cut(all, cap)]
      BY DEF TakeList
<1> HIDE DEF all, there, cap
<1>6. Cut(all, cap) \in Seq(Word) /\ Len(Cut(all, cap)) <= cap
      BY <1>4, CutIs
<1>7. TakenInv'
  <2>1. list' \in [Ids -> Seq(Word)]
        BY <1>5, <1>6 DEF ParseInv, TakenInv
  <2>2. ASSUME NEW j \in Ids PROVE Len(list'[j]) <= ListCap(msg'.form, j)
    <3>1. CASE j = id
          BY <1>1, <1>2, <1>5, <1>6, <3>1 DEF ParseInv, TakenInv, cap
    <3>2. CASE j # id
          BY <1>2, <1>5, <3>2 DEF ParseInv, TakenInv
    <3> QED BY <3>1, <3>2
  <2>3. present' \subseteq Ids \cup {LinkedBit}
        BY IdsAre DEF TakeList, ParseInv, TakenInv
  <2> QED BY <1>2, <2>1, <2>2, <2>3 DEF TakeList, ParseInv, TakenInv
<1>8. LanesInv'
      BY <1>2, LanesAsTheyWere DEF TakeList, ParseInv
<1> QED BY <1>2, <1>7, <1>8 DEF ParseInv

LEMMA TextTaken ==
    ASSUME ParseInv, NEW form, NEW id \in Ids, TakeText(form, id)
    PROVE  ParseInv'
<1>1. phase = "tlv" /\ Sound /\ GoOn
      BY DEF TakeText, At
<1>2. WalkInv' /\ phase' = "tlv" /\ msg' = msg
      BY <1>1, Walked
<1>3. TakenInv'
  <2>1. DOMAIN text' = Ids
        BY DEF TakeText, ParseInv, TakenInv
  <2>2. present' \subseteq Ids \cup {LinkedBit}
        BY IdsAre DEF TakeText, ParseInv, TakenInv
  <2> QED BY <1>2, <2>1, <2>2 DEF TakeText, ParseInv, TakenInv
<1>4. LanesInv'
      BY <1>2, LanesAsTheyWere DEF TakeText, ParseInv
<1> QED BY <1>2, <1>3, <1>4 DEF ParseInv

LEMMA LinkedTaken == ASSUME ParseInv, TakeLinked PROVE ParseInv'
<1>1. phase = "tlv" /\ Sound /\ GoOn
      BY DEF TakeLinked, At
<1>2. WalkInv' /\ phase' = "tlv" /\ msg' = msg
      BY <1>1, Walked
<1>3. TakenInv'
  <2>1. ValLen >= 2 => Bytes(Val, 2) \in Seq(Byte)
    <3>1. Val \in Nat /\ ValLen \in Nat /\ Val + ValLen <= Size /\ Size \in Nat
          BY <1>1, TlvIs, SizeIsNat
    <3> QED BY <3>1, BytesAre
  <2>2. number' \in [Ids -> Seq(Byte)]
        BY <2>1 DEF TakeLinked, ParseInv, TakenInv
  <2>3. present' \subseteq Ids \cup {LinkedBit}
        BY IdsAre DEF TakeLinked, ParseInv, TakenInv
  <2> QED BY <1>2, <2>2, <2>3 DEF TakeLinked, ParseInv, TakenInv
<1>4. LanesInv'
      BY <1>2, LanesAsTheyWere DEF TakeLinked, ParseInv
<1> QED BY <1>2, <1>3, <1>4 DEF ParseInv

LEMMA PassedOver == ASSUME ParseInv, PassOver PROVE ParseInv'
<1>1. WalkInv' /\ phase' = "tlv" /\ msg' = msg
      BY Walked DEF PassOver
<1>2. TakenInv'
      BY <1>1 DEF PassOver, out, ParseInv, TakenInv
<1>3. LanesInv'
      BY <1>1, LanesAsTheyWere DEF PassOver, out, ParseInv
<1> QED BY <1>1, <1>2, <1>3 DEF ParseInv

LEMMA Finished == ASSUME ParseInv, Finish PROVE ParseInv'
<1>1. Size' = Size
      BY DEF Finish, Size
<1>2. WalkInv'
      BY <1>1 DEF Finish, ParseInv, WalkInv
<1>3. <<3, 232>> \in Seq(Byte)
      BY DEF Byte
<1>4. TakenInv'
  <2>1. number' \in [Ids -> Seq(Byte)]
        BY <1>3, ZenonT(40) DEF Finish, ParseInv, TakenInv
  <2>2. present' \subseteq Ids \cup {LinkedBit}
        BY IdsAre DEF Finish, ParseInv, TakenInv
  <2>3. UNCHANGED <<msg, list, text>>
        BY DEF Finish
  <2> QED BY <2>1, <2>2, <2>3 DEF ParseInv, TakenInv
<1>5. LanesInv'
      BY DEF Finish, ParseInv, LanesInv
<1> QED BY <1>2, <1>4, <1>5 DEF ParseInv
LEMMA LanesEntered == ASSUME ParseInv, EnterLanes PROVE ParseInv'
<1>1. phase = "tlv" /\ Sound
      BY DEF EnterLanes, At
<1>2. /\ Val \in Nat /\ ValLen \in Nat /\ TlvLen \in Nat /\ off \in Nat
      /\ Val + ValLen = off + TlvLen /\ off + TlvLen <= Size
      BY <1>1, TlvIs DEF ParseInv, WalkInv
<1>3. msg' = msg /\ Size' = Size /\ off' = off + TlvLen /\ UNCHANGED lanes
      BY DEF EnterLanes, Size
<1>4. Len(lanes) \in Nat
      BY LenProperties DEF ParseInv, LanesInv
<1>5. TakenInv'
      BY <1>3, IdsAre DEF EnterLanes, ParseInv, TakenInv
<1>6. CASE ValLen >= 4 /\ Len(lanes) < MaxLanes
  <2>1. /\ phase' = "lane"
        /\ group' = [at |-> Val, end |-> off + TlvLen, base |-> Len(lanes),
                     open |-> FALSE, lit |-> FALSE]
        BY <1>6 DEF EnterLanes, NoGroup
  <2>2. WalkInv'
        BY <1>1, <1>2, <1>3, <1>4, <2>1 DEF ParseInv, WalkInv
  <2>3. LanesInv'
        BY <1>3, <1>4, <2>1 DEF ParseInv, LanesInv
  <2> QED BY <1>5, <2>2, <2>3 DEF ParseInv
<1>7. CASE ~(ValLen >= 4 /\ Len(lanes) < MaxLanes)
  <2>1. phase' = "tlv" /\ UNCHANGED group
        BY <1>1, <1>7 DEF EnterLanes
  <2>2. WalkInv'
        BY <1>1, <1>2, <1>3, <2>1 DEF ParseInv, WalkInv
  <2>3. LanesInv'
        BY <1>3, <2>1, LanesAsTheyWere DEF ParseInv
  <2> QED BY <1>5, <2>2, <2>3 DEF ParseInv
<1> QED BY <1>6, <1>7

(* What belongs to a lane is at hand, and there is room for the lane if it *)
(* begins one.                                                             *)
OfALane == /\ phase = "lane" /\ SubSound /\ SubId \in 0 .. 3
           /\ Begins => Len(lanes) < MaxLanes

LEMMA AtALane == SubAt(0) \/ SubAt(1) \/ SubAt(2) \/ SubAt(3) => OfALane
BY DEF SubAt, OfALane

(* A lane that is begun is where it stands in its lane information, which  *)
(* 16 bits hold; one that is gone on with is the last.                     *)
LEMMA LaneIs ==
    ASSUME ParseInv, OfALane
    PROVE  Lane \in LaneWithin /\ (Begins => NewLane \in LaneWithin)
<1>1. phase = "lane" /\ SubId \in 0 .. 3
      BY DEF OfALane
<1>2. /\ Len(lanes) \in Nat /\ group.base \in Nat /\ group.base <= Len(lanes)
      /\ lanes \in Seq(LaneWithin) /\ group.open \in BOOLEAN
      /\ group.open => Len(lanes) >= 1
      BY <1>1, LenProperties DEF ParseInv, WalkInv, LanesInv
<1>3. ASSUME Begins PROVE NewLane \in LaneWithin
  <2>1. Len(lanes) < MaxLanes /\ MaxLanes \in Nat /\ MaxLanes <= 65536
        BY <1>3, CapacityAssumption DEF OfALane, PlacesFit
  <2>2. /\ Len(lanes) - group.base \in Int
        /\ -32768 <= Len(lanes) - group.base
        /\ Len(lanes) - group.base <= 65535
        BY <1>2, <2>1
  <2>3. Len(lanes) - group.base \in Word
        BY <2>2, WordHas
  <2>4. Default \in Word
    <3>1. Default \in Int /\ -32768 <= Default /\ Default <= 65535
          BY DEF Default
    <3> QED BY <3>1, WordHas
  <2>5. 0 \in Byte /\ <<>> \in Seq(Word) /\ Len(<<>>) = 0 /\ MaxAngles \in Nat
        BY CapacityAssumption DEF Byte
  <2> QED BY <2>3, <2>4, <2>5 DEF NewLane, LaneWithin
<1>4. ASSUME ~Begins PROVE lanes[Len(lanes)] \in LaneWithin
  <2>1. group.open
        BY <1>1, <1>4 DEF Begins
  <2>2. Len(lanes) \in 1 .. Len(lanes)
        BY <1>2, <2>1
  <2> QED BY <1>2, <2>2, ElementOfSeq
<1> QED BY <1>3, <1>4 DEF Lane

LEMMA LanePut ==
    ASSUME ParseInv, OfALane,
           NEW lane \in LaneWithin, NEW lit \in BOOLEAN, Keep(lane, lit)
    PROVE  ParseInv'
<1>1. phase = "lane" /\ SubSound /\ SubId \in 0 .. 3
      BY DEF OfALane
<1>2. /\ Len(lanes) \in Nat /\ lanes \in Seq(LaneWithin) /\ Len(lanes) <= MaxLanes
      /\ group.base <= Len(lanes) /\ group.base \in Nat
      /\ group.open => Len(lanes) >= 1
      /\ MaxLanes \in Nat
      BY <1>1, LenProperties, CapacityAssumption DEF ParseInv, WalkInv, LanesInv
<1>3. /\ group \in [at : Nat, end : Nat, base : Nat, open : BOOLEAN, lit : BOOLEAN]
      /\ SubLen \in Nat /\ group.at + SubLen <= group.end
      BY <1>1, SubIs DEF ParseInv, WalkInv
<1>4. /\ group' = [group EXCEPT !.at = group.at + SubLen, !.open = TRUE, !.lit = lit]
      /\ UNCHANGED <<msg, phase, off, present, number, list, text>>
      BY DEF Keep
<1>5. /\ group' \in [at : Nat, end : Nat, base : Nat, open : BOOLEAN, lit : BOOLEAN]
      /\ group'.at = group.at + SubLen /\ group'.end = group.end
      /\ group'.base = group.base
  <2>1. group.at + SubLen \in Nat
        BY <1>3
  <2> HIDE DEF SubLen
  <2> QED BY <1>3, <1>4, <2>1
<1>6. WalkInv'
  <2>1. Size' = Size
        BY <1>4 DEF Size
  <2> QED BY <1>1, <1>3, <1>4, <1>5, <2>1 DEF ParseInv, WalkInv
<1>7. TakenInv'
      BY <1>4 DEF ParseInv, TakenInv
<1>8. CASE Begins
  <2>1. Len(lanes) < MaxLanes
        BY <1>8 DEF OfALane
  <2>2. lanes' = Append(lanes, lane)
        BY <1>8 DEF Keep
  <2>3. lanes' \in Seq(LaneWithin) /\ Len(lanes') = Len(lanes) + 1
        BY <1>2, <2>2, AppendProperties
  <2>4. LanesInv'
        BY <1>2, <1>5, <2>1, <2>3 DEF LanesInv
  <2> QED BY <1>6, <1>7, <2>4 DEF ParseInv
<1>9. CASE ~Begins
  <2>1. group.open
        BY <1>1, <1>9 DEF Begins
  <2>2. Len(lanes) >= 1 /\ Len(lanes) \in 1 .. Len(lanes)
        BY <1>2, <2>1
  <2>3. lanes' = [lanes EXCEPT ![Len(lanes)] = lane]
        BY <1>9 DEF Keep
  <2>4. lanes' \in Seq(LaneWithin) /\ Len(lanes') = Len(lanes)
        BY <1>2, <2>2, <2>3, ExceptSeq
  <2>5. LanesInv'
        BY <1>2, <1>5, <2>2, <2>4 DEF LanesInv
  <2> QED BY <1>6, <1>7, <2>5 DEF ParseInv
<1> QED BY <1>8, <1>9

(* The value of a TLV in a lane information.                               *)
LEMMA SubValue ==
    ASSUME ParseInv, OfALane
    PROVE  /\ SubVal \in Nat /\ SubValLen \in Nat /\ Size \in Nat
           /\ SubVal + SubValLen <= Size
           /\ group.lit \in BOOLEAN
           /\ SubValLen >= 1 => ByteAt(SubVal) \in Byte /\ ByteAt(SubVal) \in Word
           /\ SubValLen >= 2 => Be16(SubVal) \in Word /\ Signed(Be16(SubVal)) \in Word
<1>1. phase = "lane" /\ SubSound
      BY DEF OfALane
<1>2. /\ SubVal \in Nat /\ SubValLen \in Nat /\ Size \in Nat
      /\ SubVal + SubValLen <= Size
      BY <1>1, SubIs, SizeIsNat
<1>3. group.lit \in BOOLEAN
      BY DEF ParseInv, WalkInv
<1>4. ASSUME SubValLen >= 1 PROVE ByteAt(SubVal) \in Byte /\ ByteAt(SubVal) \in Word
  <2>1. SubVal < Size
        BY <1>2, <1>4
  <2> QED BY <1>2, <2>1, ByteIs, ByteIsWord
<1>5. ASSUME SubValLen >= 2
      PROVE  Be16(SubVal) \in Word /\ Signed(Be16(SubVal)) \in Word
  <2>1. SubVal + 1 < Size
        BY <1>2, <1>5
  <2> QED BY <1>2, <2>1, Be16Is, SignedIs
<1> QED BY <1>2, <1>3, <1>4, <1>5

LEMMA IndexKept == ASSUME ParseInv, LaneIndex PROVE ParseInv'
<1>1. OfALane
      BY AtALane DEF LaneIndex
<1>2. Begins
      BY DEF LaneIndex, SubAt, Begins
<1>3. NewLane \in LaneWithin
      BY <1>1, <1>2, LaneIs
<1> DEFINE lane == [NewLane EXCEPT !.position =
                        IF SubValLen >= 2 THEN Be16(SubVal)
                        ELSE IF SubValLen = 1 THEN ByteAt(SubVal) ELSE @]
<1>4. lane \in LaneWithin
      BY <1>1, <1>3, SubValue DEF LaneWithin
<1>5. Keep(lane, FALSE)
      BY DEF LaneIndex
<1> HIDE DEF lane
<1> QED BY <1>1, <1>4, <1>5, LanePut

LEMMA StatusKept == ASSUME ParseInv, LaneStatus PROVE ParseInv'
<1>1. OfALane
      BY AtALane DEF LaneStatus
<1>2. Lane \in LaneWithin
      BY <1>1, LaneIs
<1> DEFINE lane == [Lane EXCEPT !.status = IF SubValLen >= 1 THEN ByteAt(SubVal) ELSE @]
<1>3. lane \in LaneWithin
      BY <1>1, <1>2, SubValue DEF LaneWithin
<1>4. Keep(lane, group.lit) /\ group.lit \in BOOLEAN
      BY <1>1, SubValue DEF LaneStatus
<1> HIDE DEF lane
<1> QED BY <1>1, <1>3, <1>4, LanePut

LEMMA HighlightKept == ASSUME ParseInv, LaneHighlight PROVE ParseInv'
<1>1. OfALane
      BY AtALane DEF LaneHighlight
<1>2. Lane \in LaneWithin
      BY <1>1, LaneIs
<1> DEFINE lane == [Lane EXCEPT !.direction = IF SubValLen >= 2 THEN Signed(Be16(SubVal))
                                              ELSE ByteAt(SubVal)]
<1>3. CASE SubValLen >= 1
  <2>1. lane \in LaneWithin
        BY <1>1, <1>2, <1>3, SubValue DEF LaneWithin
  <2>2. Keep(lane, TRUE)
        BY <1>3 DEF LaneHighlight
  <2> HIDE DEF lane
  <2> QED BY <1>1, <2>1, <2>2, LanePut
<1>4. CASE ~(SubValLen >= 1)
  <2>1. Keep(Lane, group.lit) /\ group.lit \in BOOLEAN
        BY <1>1, <1>4, SubValue DEF LaneHighlight
  <2> QED BY <1>1, <1>2, <2>1, LanePut
<1> QED BY <1>3, <1>4

(* The first of the angles that is one is one of them.                     *)
LEMMA TurnedIs ==
    ASSUME NEW taken \in Seq(Word), NEW lane, lane.direction \in Word
    PROVE  Turned(lane, taken) \in Word
<1> DEFINE I     == {i \in 1 .. Len(taken) : taken[i] # Default}
           given == IF I # {} THEN Min(I) ELSE 0
<1>1. SelectInSeq(taken, LAMBDA a : a # Default) = given
      BY DEF SelectInSeq
<1>2. ASSUME I # {} PROVE Min(I) \in I
  <2>1. I \in SUBSET Nat
        BY LenProperties
  <2>2. \E r \in I : \A j \in I : r <= j
        BY <1>2, <2>1, LeastOfNat
  <2> HIDE DEF I
  <2> QED BY <2>2 DEF Min
<1>3. given # 0 => taken[given] \in Word
      BY <1>2, ElementOfSeq
<1> QED BY <1>1, <1>3 DEF Turned

LEMMA AnglesKept == ASSUME ParseInv, LaneAngles PROVE ParseInv'
<1>1. OfALane
      BY AtALane DEF LaneAngles
<1>2. Lane \in LaneWithin
      BY <1>1, LaneIs
<1>3. SubVal \in Nat /\ SubValLen \in Nat /\ SubVal + SubValLen <= Size
      BY <1>1, SubValue
<1> DEFINE half  == SubValLen \div 2
           pairs == [k \in 1 .. half |-> Signed(Words(SubVal, SubValLen)[k])]
           all   == pairs \o OddByte(SubVal, SubValLen)
           room  == MaxAngles - Len(Lane.angles)
           taken == Cut(all, room)
           lane  == [Lane EXCEPT !.angles = @ \o taken, !.direction = Turned(Lane, taken)]
<1>4. all \in Seq(Word)
  <2>1. half \in Nat /\ \A k \in 1 .. half : Signed(Words(SubVal, SubValLen)[k]) \in Word
        BY <1>3, WordsAre
  <2>2. pairs \in Seq(Word)
        BY <2>1
  <2> HIDE DEF pairs
  <2> QED BY <1>3, <2>2, OddByteIs, ConcatProperties
<1>5. /\ Lane.angles \in Seq(Word) /\ Len(Lane.angles) \in Nat
      /\ Len(Lane.angles) <= MaxAngles /\ MaxAngles \in Nat
      /\ Lane.direction \in Word
      BY <1>2, LenProperties, CapacityAssumption DEF LaneWithin
<1>6. room \in Nat
      BY <1>5
<1> HIDE DEF all
<1>7. taken \in Seq(Word) /\ Len(taken) \in Nat /\ Len(taken) <= room
  <2> HIDE DEF room
  <2> QED BY <1>4, <1>6, CutIs, LenProperties
<1> HIDE DEF taken
<1>8. /\ Lane.angles \o taken \in Seq(Word)
      /\ Len(Lane.angles \o taken) <= MaxAngles
      BY <1>5, <1>7, ConcatProperties
<1>9. Turned(Lane, taken) \in Word
      BY <1>5, <1>7, TurnedIs
<1>10. lane \in LaneWithin
       BY <1>2, <1>8, <1>9 DEF LaneWithin
<1>11. Keep(lane, group.lit) /\ group.lit \in BOOLEAN
       BY <1>1, SubValue DEF LaneAngles, taken, all
<1> HIDE DEF lane
<1> QED BY <1>1, <1>10, <1>11, LanePut

LEMMA LanePassedOver == ASSUME ParseInv, LanePassOver PROVE ParseInv'
<1>1. phase = "lane" /\ SubSound
      BY DEF LanePassOver
<1>2. SubLen \in Nat /\ group.at + SubLen <= group.end
      BY <1>1, SubIs
<1>3. group' = [group EXCEPT !.at = group.at + SubLen] /\ UNCHANGED <<msg, phase, off, out>>
      BY DEF LanePassOver
<1>4. Size' = Size
      BY <1>3 DEF Size
<1>5. WalkInv'
      BY <1>1, <1>2, <1>3, <1>4 DEF ParseInv, WalkInv
<1>6. TakenInv' /\ LanesInv'
      BY <1>3 DEF ParseInv, WalkInv, TakenInv, LanesInv, out
<1> QED BY <1>5, <1>6 DEF ParseInv

LEMMA LanesEnded == ASSUME ParseInv, LanesEnd PROVE ParseInv'
<1>1. /\ phase = "lane" /\ phase' = "tlv" /\ group' = NoGroup
      /\ UNCHANGED <<msg, off, out>>
      BY DEF LanesEnd
<1>2. Size' = Size
      BY <1>1 DEF Size
<1>3. WalkInv'
      BY <1>1, <1>2 DEF ParseInv, WalkInv, NoGroup
<1>4. TakenInv' /\ LanesInv'
      BY <1>1 DEF ParseInv, TakenInv, LanesInv, out
<1> QED BY <1>3, <1>4 DEF ParseInv

LEMMA ParseStays == ParseInv /\ [ParseNext]_parseVars => ParseInv'
<1> SUFFICES ASSUME ParseInv, [ParseNext]_parseVars PROVE ParseInv'
    OBVIOUS
<1>1. ASSUME NEW form \in Form, NEW id \in Ids,
             TakeScalar(form, id) \/ TakeList(form, id) \/ TakeText(form, id)
      PROVE  ParseInv'
      BY <1>1, ScalarTaken, ListTaken, TextTaken
<1>2. CASE UNCHANGED parseVars
  <2>1. Size' = Size
        BY <1>2 DEF parseVars, Size
  <2>2. WalkInv'
        BY <1>2, <2>1 DEF parseVars, ParseInv, WalkInv
  <2>3. TakenInv' /\ LanesInv'
        BY <1>2 DEF parseVars, out, ParseInv, TakenInv, LanesInv
  <2> QED BY <2>2, <2>3 DEF ParseInv
<1> QED
  BY <1>1, <1>2, LaneIndexTaken, LinkedTaken, PassedOver, Finished, LanesEntered,
     IndexKept, StatusKept, AnglesKept, HighlightKept, LanePassedOver, LanesEnded
     DEF ParseNext, ParseStep, Returned

LEMMA SeqOfMore ==
    ASSUME NEW S, NEW T, S \subseteq T, NEW s \in Seq(S)
    PROVE  s \in Seq(T)
<1>1. Len(s) \in Nat /\ s \in [1 .. Len(s) -> S]
      BY LenProperties
<1>2. s \in [1 .. Len(s) -> T]
      BY <1>1
<1> QED BY <1>1, <1>2

(* The structure a message is taken into keeps its shape, whatever the     *)
(* message holds.                                                          *)
THEOREM ParseTypeCorrect == ParseSpec => []ParseTypeOK
<1>1. ParseInv => ParseTypeOK
  <2> SUFFICES ASSUME ParseInv PROVE ParseTypeOK
      OBVIOUS
  <2>1. Byte \subseteq Int /\ Word \subseteq Int
        BY DEF Byte, Word
  <2>2. number \in [Ids -> Seq(Int)] /\ list \in [Ids -> Seq(Int)]
    <3>1. \A id \in Ids : number[id] \in Seq(Byte) /\ list[id] \in Seq(Word)
          BY DEF ParseInv, TakenInv
    <3>2. \A id \in Ids : number[id] \in Seq(Int) /\ list[id] \in Seq(Int)
          BY <2>1, <3>1, SeqOfMore
    <3> QED BY <3>2 DEF ParseInv, TakenInv
  <2>3. lanes \in Seq(LaneType)
    <3>1. LaneWithin \subseteq LaneType
      <4>1. ASSUME NEW l \in LaneWithin PROVE l \in LaneType
        <5>1. l.angles \in Seq(Int)
              BY <2>1, SeqOfMore DEF LaneWithin
        <5> QED BY <2>1, <5>1 DEF LaneWithin, LaneType
      <4> QED BY <4>1
    <3> QED BY <3>1 DEF ParseInv, LanesInv
  <2> QED BY <2>2, <2>3 DEF ParseInv, WalkInv, TakenInv, IsMessage, ParseTypeOK
<1> QED BY <1>1, ParseStarts, ParseStays, PTL DEF ParseSpec

(* No byte is read from beyond a message and none is written beyond an     *)
(* array, for every message: any lengths, any identifiers, any repetition. *)
THEOREM ParseStaysWithin == ParseSpec => []StaysWithin
<1>1. ParseInv => StaysWithin
  <2> SUFFICES ASSUME ParseInv PROVE FromTheMessage /\ WithinCapacity
      BY DEF StaysWithin
  <2>1. \A k \in DOMAIN lanes : lanes[k] \in LaneWithin
        BY LenProperties, ElementOfSeq DEF ParseInv, LanesInv
  <2>2. FromTheMessage
        BY <2>1 DEF ParseInv, WalkInv, TakenInv, LaneWithin, FromTheMessage
  <2>3. WithinCapacity
        BY <2>1 DEF ParseInv, TakenInv, LanesInv, LaneWithin, WithinCapacity
  <2> QED BY <2>2, <2>3
<1> QED BY <1>1, ParseStarts, ParseStays, PTL DEF ParseSpec

(* Every step of a walk comes nearer to its end, for every message: no     *)
(* length, a zero among them, keeps the thread of the driver in the loop.  *)
THEOREM ParseAdvances == ParseSpec => Advances
<1> DEFINE Nearer ==
        \/ off' > off /\ phase = "tlv"
        \/ off' = off /\ phase = "lane" /\ phase' = "lane" /\ group'.at > group.at
        \/ off' = off /\ phase = "lane" /\ phase' = "tlv"
        \/ off' = off /\ phase = "tlv" /\ phase' = "done"
<1>1. ASSUME ParseInv, ParseNext PROVE Nearer \/ UNCHANGED parseVars
  <2>1. off \in Nat /\ TlvLen \in Nat /\ (Sound => TlvLen >= 4)
        BY <1>1, TlvIs DEF ParseInv, WalkInv
  <2>2. phase = "lane" => group.at \in Nat /\ SubLen \in Nat /\ (SubSound => SubLen >= 4)
        BY <1>1, SubIs DEF ParseInv, WalkInv
  <2>3. Sound => off + TlvLen > off
        BY <2>1
  <2>4. phase = "lane" /\ SubSound => group.at + SubLen > group.at
        BY <2>2
  <2>5. ASSUME NEW form \in Form, NEW id \in Ids,
               TakeScalar(form, id) \/ TakeList(form, id) \/ TakeText(form, id)
        PROVE  Nearer
        BY <2>3, <2>5 DEF TakeScalar, TakeList, TakeText, At, GoOn
  <2>6. ASSUME TakeLaneIndex \/ TakeLinked \/ PassOver PROVE Nearer
        BY <2>3, <2>6 DEF TakeLaneIndex, TakeLinked, PassOver, At, GoOn
  <2>7. ASSUME EnterLanes PROVE Nearer
        BY <2>3, <2>7 DEF EnterLanes, At
  <2>8. ASSUME NEW lane, NEW lit, NEW id, SubAt(id), Keep(lane, lit) PROVE Nearer
    <3>1. phase = "lane" /\ SubSound /\ off' = off /\ phase' = "lane"
          BY <2>8 DEF SubAt, Keep
    <3>2. group \in [at : Nat, end : Nat, base : Nat, open : BOOLEAN, lit : BOOLEAN]
          BY <1>1 DEF ParseInv, WalkInv
    <3>3. group'.at = group.at + SubLen
          BY <2>8, <3>2 DEF Keep
    <3> QED BY <2>4, <3>1, <3>3
  <2>9. ASSUME LaneIndex \/ LaneStatus \/ LaneAngles \/ LaneHighlight PROVE Nearer
    <3>1. \E lane, lit, id : SubAt(id) /\ Keep(lane, lit)
          BY <2>9, Zenon DEF LaneIndex, LaneStatus, LaneAngles, LaneHighlight
    <3> QED BY <2>8, <3>1
  <2>10. ASSUME LanePassOver PROVE Nearer
         BY <1>1, <2>4, <2>10 DEF LanePassOver, ParseInv, WalkInv
  <2>11. ASSUME Finish \/ LanesEnd PROVE Nearer
         BY <2>11 DEF Finish, LanesEnd
  <2> HIDE DEF Nearer
  <2> QED BY <1>1, <2>5, <2>6, <2>7, <2>9, <2>10, <2>11 DEF ParseNext, ParseStep, Returned
<1>2. ParseInv /\ [ParseNext]_parseVars => [Nearer]_parseVars
      BY <1>1
<1> QED BY <1>2, ParseStarts, ParseStays, PTL DEF ParseSpec, Advances
=============================================================================

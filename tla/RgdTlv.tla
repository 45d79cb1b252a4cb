------------------------------- MODULE RgdTlv -------------------------------
(***************************************************************************)
(* The parsers of the three route guidance messages of the phone           *)
(* (routeguidance/rgd_tlv.c): 0x5201 the update, 0x5202 a maneuver, 0x5204 *)
(* the lanes.  A message is a six byte header and a run of TLVs, each a    *)
(* length that counts itself, an identifier and a value; a lane            *)
(* information of 0x5204 holds a second run of TLVs.  Every parser walks   *)
(* the run once, takes what it knows into a structure of fixed arrays, and *)
(* leaves at the first TLV whose length is not sound.                      *)
(*                                                                         *)
(* Offsets and bytes are those of the buffer.  A byte outside the buffer   *)
(* reads as Garbage, which is no byte.  A number is kept as its big endian *)
(* bytes, a list as its 16 bit values, a string up to its NUL.             *)
(***************************************************************************)
EXTENDS Integers, Sequences, SequencesExt

CONSTANTS
    Messages,        \* the messages parsed: form, bytes, and the TLVs the
                     \* phone packed into them (sent, for the properties)
    MaxComponents,   \* MAX_COMPONENT_LIST
    MaxManeuvers,    \* MAX_MANEUVER_LIST
    MaxLanes,        \* MAX_LANE_GUIDANCE
    MaxAngles,       \* MAX_LANE_ANGLES
    LongText,        \* what a char[256] holds
    ShortText,       \* what a char[64] holds
    ExitText         \* RGD_EXIT_INFO_MAX

Form == {"update", "maneuver", "lane"}
Byte == 0 .. 255
Word == -32768 .. 65535

(* A position is 16 bits wide.                                             *)
PlacesFit == MaxLanes <= 65536
IsMessage(m) == m.form \in Form /\ m.bytes \in Seq(Byte)

ASSUME CapacityAssumption ==
    {MaxComponents, MaxManeuvers, MaxLanes, MaxAngles} \subseteq Nat /\ PlacesFit
ASSUME MessageAssumption == \A m \in Messages : IsMessage(m)

VARIABLES
    msg,      \* the message
    phase,    \* "tlv": in the run of TLVs, "lane": in a lane information
    off,      \* offset of the next TLV
    group,    \* the walk through a lane information: see NoGroup
    present,  \* the present bits, named by identifier
    number,   \* the scalars
    list,     \* the arrays
    text,     \* the strings
    lanes     \* the lanes of 0x5204

out == <<present, number, list, text, lanes>>
parseVars == <<msg, phase, off, group, out>>

(* at: the next TLV of the group; end: of its value; base: the lanes there *)
(* were; open: it has begun a lane; lit: that lane has its highlight.      *)
NoGroup == [at |-> 0, end |-> 0, base |-> 0, open |-> FALSE, lit |-> FALSE]

-----------------------------------------------------------------------------
(* Bytes.                                                                  *)

Garbage == 1000000
Size == Len(msg.bytes)
ByteAt(i) == IF i < Size THEN msg.bytes[i + 1] ELSE Garbage
Be16(i) == 256 * ByteAt(i) + ByteAt(i + 1)
Bytes(i, n) == [k \in 1 .. n |-> ByteAt(i + k - 1)]
Words(i, n) == [k \in 1 .. (n \div 2) |-> Be16(i + 2 * (k - 1))]
OddByte(i, n) == IF n % 2 = 1 THEN <<ByteAt(i + n - 1)>> ELSE <<>>
Cut(s, n) == SubSeq(s, 1, IF Len(s) < n THEN Len(s) ELSE n)
Signed(w) == IF w < 32768 THEN w ELSE w - 65536

-----------------------------------------------------------------------------
(* What the three parsers know: the identifiers.                           *)

Ids == 0 .. 26
Default == 1000      \* no angle: the exit angle and the direction unset
LinkedBit == 112     \* RGD_MAN_LINKED_LANE_INDEX beside the raw one, 12

(* Bytes a scalar needs; a shorter one is passed over.                     *)
ScalarSize(form, id) ==
    CASE form = "update" /\ id \in {1, 2, 9, 12, 15, 18, 20} -> 1
      [] form = "update" /\ id \in {14, 16, 17}              -> 2
      [] form = "update" /\ id \in {7, 10}                   -> 4
      [] form = "update" /\ id \in {5, 6}                    -> 8
      [] form = "maneuver" /\ id \in {3, 7, 8, 9}            -> 1
      [] form = "maneuver" /\ id \in {1, 11}                 -> 2
      [] form = "maneuver" /\ id = 5                         -> 4
      [] OTHER                                               -> 0

ListCap(form, id) ==
    CASE id = 0                        -> MaxComponents
      [] form = "update" /\ id = 13    -> MaxManeuvers
      [] form = "maneuver" /\ id = 10  -> MaxManeuvers
      [] OTHER                         -> 0

IsList(form, id) == id = 0 \/ <<form, id>> \in {<<"update", 13>>, <<"maneuver", 10>>}

(* A repeated TLV goes on with the array; elsewhere it begins it again.    *)
GoesOn(form, id) == <<form, id>> \in {<<"maneuver", 10>>, <<"lane", 0>>}

TextCap(form, id) ==
    CASE form = "update" /\ id \in {3, 4}       -> LongText
      [] form = "maneuver" /\ id \in {2, 4}     -> LongText
      [] form = "maneuver" /\ id = 13           -> ExitText
      [] OTHER                                  -> ShortText

IsText(form, id) ==
    <<form, id>> \in {<<"update", 3>>, <<"update", 4>>, <<"update", 8>>,
                      <<"update", 11>>, <<"update", 19>>, <<"maneuver", 2>>,
                      <<"maneuver", 4>>, <<"maneuver", 6>>, <<"lane", 3>>}

Slashed(form, id) ==
    <<form, id>> \in {<<"update", 3>>, <<"update", 4>>, <<"update", 19>>,
                      <<"maneuver", 2>>, <<"maneuver", 4>>}

(* A C string is what stands before its NUL.                               *)
UpToNul(s) == LET nul == SelectInSeq(s, LAMBDA c : c = 0)
              IN  IF nul = 0 THEN s ELSE SubSeq(s, 1, nul - 1)

(* replace_newlines: each line break is " / ", built in a buffer that      *)
(* stops short of its end by the separator and the NUL.                    *)
Breaks == {10, 13}
WithSlashes(s) ==
    FoldLeftDomain(
        LAMBDA acc, i :
            IF \/ Len(acc) >= LongText - 3
               \/ s[i] = 10 /\ i > 1 /\ s[i - 1] = 13
            THEN acc
            ELSE acc \o IF s[i] \in Breaks THEN <<32, 47, 32>> ELSE <<s[i]>>,
        <<>>, s)

(* copy_printable_string_preview.                                          *)
Printable(s) == [k \in DOMAIN s |-> IF s[k] < 32 \/ s[k] = 127 THEN 63 ELSE s[k]]

TextOf(form, id, bytes) ==
    LET cap == TextCap(form, id)
        s   == UpToNul(Cut(bytes, cap))
    IN  CASE <<form, id>> = <<"maneuver", 13>> -> Printable(s)
          [] Slashed(form, id)                 -> Cut(WithSlashes(s), cap)
          [] OTHER                             -> s

-----------------------------------------------------------------------------
(* The run of TLVs.                                                        *)

TlvLen == Be16(off)
TlvId == Be16(off + 2)
ValLen == TlvLen - 4
Val == off + 4

(* Mutants: the length is not held against the end, or not against its     *)
(* own size.                                                               *)
SoundByHeader == off + 4 <= Size /\ TlvLen >= 4
SoundAtAnyLength == off + 4 <= Size /\ off + TlvLen <= Size

Sound == /\ off + 4 <= Size
         /\ TlvLen >= 4
         /\ off + TlvLen <= Size

(* A TLV that this message knows in this way is at hand.                   *)
At(form, id) == /\ phase = "tlv"
                /\ msg.form = form
                /\ TlvId = id
                /\ Sound

GoOn == /\ off' = off + TlvLen
        /\ UNCHANGED <<msg, phase, group>>

(* The structure is cleared; a message without a header is not walked.     *)
Cleared(form) ==
    /\ present = {}
    /\ number = [id \in Ids |-> IF form = "maneuver" /\ id = 12
                                THEN <<255, 255>> ELSE <<>>]
    /\ list = [id \in Ids |-> <<>>]
    /\ text = [id \in Ids |-> <<>>]
    /\ lanes = <<>>

ParseInit == /\ msg \in Messages
             /\ phase = IF Size < 6 THEN "done" ELSE "tlv"
             /\ off = 6
             /\ group = NoGroup
             /\ Cleared(msg.form)

TakeScalar(form, id) ==
    /\ At(form, id)
    /\ ScalarSize(form, id) > 0
    /\ IF ValLen >= ScalarSize(form, id)
       THEN /\ number' = [number EXCEPT ![id] = Bytes(Val, ScalarSize(form, id))]
            /\ present' = present \cup {id}
       ELSE UNCHANGED <<number, present>>
    /\ GoOn
    /\ UNCHANGED <<list, text, lanes>>

(* 0x5204 carries its index in two bytes or in one.                        *)
TakeLaneIndex ==
    /\ At("lane", 1)
    /\ IF ValLen >= 1
       THEN /\ number' = [number EXCEPT ![1] = IF ValLen >= 2 THEN Bytes(Val, 2)
                                               ELSE <<0>> \o Bytes(Val, 1)]
            /\ present' = present \cup {1}
       ELSE UNCHANGED <<number, present>>
    /\ GoOn
    /\ UNCHANGED <<list, text, lanes>>

(* The component list of 0x5204 takes an odd last byte for an identifier.  *)
ListOf(form, id, at, n) ==
    CASE <<form, id>> = <<"maneuver", 10>> ->
             [k \in 1 .. (n \div 2) |-> Signed(Words(at, n)[k])]
      [] <<form, id>> = <<"lane", 0>>      -> Words(at, n) \o OddByte(at, n)
      [] OTHER                             -> Words(at, n)

TakeList(form, id) ==
    /\ At(form, id)
    /\ IsList(form, id)
    /\ list' = [list EXCEPT ![id] =
                  Cut((IF GoesOn(form, id) THEN @ ELSE <<>>)
                          \o ListOf(form, id, Val, ValLen),
                      ListCap(form, id))]
    /\ present' = present \cup {id}
    /\ GoOn
    /\ UNCHANGED <<number, text, lanes>>

TakeText(form, id) ==
    /\ At(form, id)
    /\ IsText(form, id) \/ <<form, id>> = <<"maneuver", 13>>
    /\ text' = [text EXCEPT ![id] = TextOf(form, id, Bytes(Val, ValLen))]
    /\ present' = present \cup {id}
    /\ GoOn
    /\ UNCHANGED <<number, list, lanes>>

(* MAN_TLV_LINKED_LANE_GUIDANCE: the raw bit always, the index if it is    *)
(* there.                                                                  *)
TakeLinked ==
    /\ At("maneuver", 12)
    /\ IF ValLen >= 2
       THEN /\ number' = [number EXCEPT ![12] = Bytes(Val, 2)]
            /\ present' = present \cup {12, LinkedBit}
       ELSE /\ present' = present \cup {12}
            /\ UNCHANGED number
    /\ GoOn
    /\ UNCHANGED <<list, text, lanes>>

Known(form, id) == \/ ScalarSize(form, id) > 0
                   \/ IsList(form, id)
                   \/ IsText(form, id)
                   \/ <<form, id>> \in {<<"maneuver", 12>>, <<"maneuver", 13>>,
                                        <<"lane", 1>>, <<"lane", 2>>}

PassOver ==
    /\ phase = "tlv"
    /\ Sound
    /\ ~Known(msg.form, TlvId)
    /\ GoOn
    /\ UNCHANGED out

(* The end of the run, or a length that is not sound.  A maneuver with an  *)
(* index and no exit angle is given the one that says there is none.       *)
Finish ==
    /\ phase = "tlv"
    /\ ~Sound
    /\ phase' = "done"
    /\ IF msg.form = "maneuver" /\ 1 \in present /\ 11 \notin present
       THEN /\ number' = [number EXCEPT ![11] = <<3, 232>>]
            /\ present' = present \cup {11}
       ELSE UNCHANGED <<number, present>>
    /\ UNCHANGED <<msg, off, group, list, text, lanes>>

-----------------------------------------------------------------------------
(* A lane information of 0x5204.                                           *)

EnterLanes ==
    /\ At("lane", 2)
    /\ present' = present \cup {2}
    /\ off' = off + TlvLen
    /\ IF ValLen >= 4 /\ Len(lanes) < MaxLanes
       THEN /\ phase' = "lane"
            /\ group' = [NoGroup EXCEPT !.at = Val, !.end = off + TlvLen,
                                        !.base = Len(lanes)]
       ELSE UNCHANGED <<phase, group>>
    /\ UNCHANGED <<msg, number, list, text, lanes>>

SubLen == Be16(group.at)
SubId == Be16(group.at + 2)
SubValLen == SubLen - 4
SubVal == group.at + 4

SubSound == /\ group.at + 4 <= group.end
            /\ SubLen >= 4
            /\ group.at + SubLen <= group.end

(* An index begins a lane, and so does what belongs to one when none has   *)
(* begun; there may be no room for it.                                     *)
Begins == SubId = 0 \/ (SubId \in 1 .. 3 /\ ~group.open)
SubAt(id) == /\ phase = "lane"
             /\ SubSound
             /\ SubId = id
             /\ Begins => Len(lanes) < MaxLanes

NewLane == [position |-> Len(lanes) - group.base, direction |-> Default,
            status |-> 0, angles |-> <<>>]
Lane == IF Begins THEN NewLane ELSE lanes[Len(lanes)]

Keep(lane, lit) ==
    /\ lanes' = IF Begins THEN Append(lanes, lane)
                          ELSE [lanes EXCEPT ![Len(lanes)] = lane]
    /\ group' = [group EXCEPT !.at = @ + SubLen, !.open = TRUE, !.lit = lit]
    /\ UNCHANGED <<msg, phase, off, present, number, list, text>>

LaneIndex ==
    /\ SubAt(0)
    /\ Keep([NewLane EXCEPT !.position = IF SubValLen >= 2 THEN Be16(SubVal)
                                         ELSE IF SubValLen = 1 THEN ByteAt(SubVal)
                                         ELSE @],
            FALSE)

LaneStatus ==
    /\ SubAt(1)
    /\ Keep([Lane EXCEPT !.status = IF SubValLen >= 1 THEN ByteAt(SubVal) ELSE @],
            group.lit)

(* Mutant: an angle also replaces the direction of a highlight.            *)
TurnedAlways(lane, taken) ==
    LET given == SelectInSeq(taken, LAMBDA a : a # Default)
    IN  IF given = 0 THEN lane.direction ELSE taken[given]

(* The angles that fit; while the lane has no direction of its own, the    *)
(* first one that is not the default becomes it.                           *)
Turned(lane, taken) ==
    LET given == SelectInSeq(taken, LAMBDA a : a # Default)
    IN  IF group.lit \/ lane.direction # Default \/ given = 0
        THEN lane.direction
        ELSE taken[given]

LaneAngles ==
    /\ SubAt(2)
    /\ LET all   == [k \in 1 .. (SubValLen \div 2) |->
                        Signed(Words(SubVal, SubValLen)[k])]
                    \o OddByte(SubVal, SubValLen)
           taken == Cut(all, MaxAngles - Len(Lane.angles))
       IN  Keep([Lane EXCEPT !.angles = @ \o taken,
                             !.direction = Turned(Lane, taken)],
                group.lit)

LaneHighlight ==
    /\ SubAt(3)
    /\ IF SubValLen >= 1
       THEN Keep([Lane EXCEPT !.direction = IF SubValLen >= 2
                                            THEN Signed(Be16(SubVal))
                                            ELSE ByteAt(SubVal)], TRUE)
       ELSE Keep(Lane, group.lit)

LanePassOver ==
    /\ phase = "lane"
    /\ SubSound
    /\ SubId > 3
    /\ group' = [group EXCEPT !.at = @ + SubLen]
    /\ UNCHANGED <<msg, phase, off, out>>

LanesEnd ==
    /\ phase = "lane"
    /\ SubSound => Begins /\ Len(lanes) >= MaxLanes
    /\ phase' = "tlv"
    /\ group' = NoGroup
    /\ UNCHANGED <<msg, off, out>>

-----------------------------------------------------------------------------
(* The parser returns and is not called again in this behaviour.           *)
Returned == phase = "done" /\ UNCHANGED parseVars

ParseStep ==
    \/ \E form \in Form, id \in Ids : \/ TakeScalar(form, id)
                                      \/ TakeList(form, id)
                                      \/ TakeText(form, id)
    \/ TakeLaneIndex \/ TakeLinked \/ PassOver \/ Finish
    \/ EnterLanes \/ LaneIndex \/ LaneStatus \/ LaneAngles \/ LaneHighlight
    \/ LanePassOver \/ LanesEnd

ParseNext == ParseStep \/ Returned

(* The parser is a loop of the thread that called it.                      *)
ParseSpec == ParseInit /\ [][ParseNext]_parseVars /\ WF_parseVars(ParseStep)

-----------------------------------------------------------------------------
(* Properties.                                                             *)

LaneType == [position : Int, direction : Int, status : Int, angles : Seq(Int)]

(* The shape of the structure that is filled in.                           *)
ParseTypeOK ==
    /\ msg.form \in Form /\ msg.bytes \in Seq(Byte)
    /\ phase \in {"tlv", "lane", "done"}
    /\ off \in Nat
    /\ group \in [at : Nat, end : Nat, base : Nat, open : BOOLEAN, lit : BOOLEAN]
    /\ present \subseteq Ids \cup {LinkedBit}
    /\ number \in [Ids -> Seq(Int)]
    /\ list \in [Ids -> Seq(Int)]
    /\ DOMAIN text = Ids
    /\ lanes \in Seq(LaneType)

(* Nothing taken from a message is made of bytes that are not its own,     *)
(* whatever lengths it claims: no scalar, list or lane holds a byte from   *)
(* beyond its end, and the walks stay inside it.                           *)
FromTheMessage ==
    /\ Size >= 6 => off <= Size
    /\ phase = "lane" => group.at <= group.end /\ group.end = off
    /\ \A id \in Ids : /\ number[id] \in Seq(Byte)
                       /\ list[id] \in Seq(Word)
    /\ \A k \in DOMAIN lanes : /\ lanes[k].position \in Word
                               /\ lanes[k].direction \in Word
                               /\ lanes[k].status \in Byte
                               /\ lanes[k].angles \in Seq(Word)

(* No array of the structure is written past its end, however often a TLV  *)
(* or a lane information is repeated and whatever it holds.                *)
WithinCapacity ==
    /\ \A id \in Ids : Len(list[id]) <= ListCap(msg.form, id)
    /\ Len(lanes) <= MaxLanes
    /\ \A k \in DOMAIN lanes : Len(lanes[k].angles) <= MaxAngles

(* No byte is read from beyond the message and none is written beyond the  *)
(* arrays, whatever lengths and repetitions the message holds.             *)
StaysWithin == FromTheMessage /\ WithinCapacity

(* Every step of the loop comes nearer to the end of the message: it moves *)
(* on in the run or in the lane information, or leaves one of them.  A     *)
(* length of zero does not keep the parser, and the thread of the stock    *)
(* driver that called it, in its place.                                    *)
Advances ==
    [][\/ off' > off /\ phase = "tlv"
       \/ off' = off /\ phase = "lane" /\ phase' = "lane" /\ group'.at > group.at
       \/ off' = off /\ phase = "lane" /\ phase' = "tlv"
       \/ off' = off /\ phase = "tlv" /\ phase' = "done"]_parseVars
=============================================================================

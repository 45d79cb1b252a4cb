----------------------------- MODULE AirPlayInfo -----------------------------
(***************************************************************************)
(* How the second display gets into what the receiver tells the phone of   *)
(* itself (altscreen_airplay.c).  Three stock functions are called through *)
(* wrappers: the two that copy a property, for the displays and the two    *)
(* lists of URLs, and the one that copies the whole information.  Each asks*)
(* the stock function first, and answers either what that answered, or a   *)
(* copy with the second display, the URLs or the features put in.  Every   *)
(* object is counted: who makes one owns a reference, a container owns one *)
(* of each thing put into it, and whatever is made can fail to be made.    *)
(*                                                                         *)
(* A step is what lies between two such failures.  The strings that name   *)
(* keys live within a step, which fails if one is not made.  The phone's   *)
(* stack, that asks and then owns the answer, and the CoreFoundation       *)
(* functions are external.                                                 *)
(***************************************************************************)
EXTENDS Integers, Sequences, FiniteSets, Functions

CONSTANTS
    Platforms,    \* what dlsym finds: see Platform
    Requests,     \* what is asked and what the stock function answers
    ProfileFiles, \* contents of ALTSCREEN_PROFILE_PATH: see ProfileFile
    ViewFiles,    \* the view lines of ALTSCREEN_VIEWS_PATH, in their order
    Geometry      \* the default canvas and the bounds on a profile

(* copies: the three stock functions are there; ready: so is all of        *)
(* CoreFoundation that is used.                                            *)
Platform == [copies : BOOLEAN, ready : BOOLEAN]

(* op: which wrapper and property; kind: what the stock answer is; shows:  *)
(* the displays in it, if listed there is such an array: the stock "main", *)
(* an "other" one, the "alt" one that a wrapper below has put in already   *)
(* (the stock information asks for the displays, these ask nobody), or     *)
(* something that is "no_dict".  The second display is only ever put       *)
(* behind another.                                                         *)
Request == [op : {"displays", "urls", "unrelated", "info"},
            kind : {"none", "array", "dict", "other"}, listed : BOOLEAN,
            shows : Seq({"main", "other", "alt", "no_dict"})]

Rect == [x : Int, y : Int, w : Int, h : Int]

(* read: how many of the numbers were read; none: no file.                 *)
ProfileFile == [read : 0 .. 8, w : Int, h : Int, fps : Int, safe : Rect]

ViewCount == 4
ViewLine == [view : Int, safe : Rect]

ASSUME InfoAssumption ==
    /\ Platforms \subseteq Platform
    /\ Requests \subseteq Request
    /\ \A q \in Requests :
         /\ q.listed => q.kind = IF q.op = "info" THEN "dict" ELSE "array"
         /\ q.op = "displays" =>
              (q.kind = "array" => q.listed) /\ "alt" \notin Range(q.shows)
         /\ q.shows # <<>> => q.shows[1] # "alt"
    /\ ProfileFiles \subseteq ProfileFile
    /\ ViewFiles \subseteq Seq(ViewLine)
    /\ Geometry \in [w : Nat \ {0}, h : Nat \ {0}, minW : Nat \ {0},
                     maxW : Nat, minH : Nat \ {0}, maxH : Nat]

Areas == {"area_0", "area_1", "area_2", "area_3"}
Safes == {"safe_0", "safe_1", "safe_2", "safe_3"}
Objects == {"stock", "stock_displays", "main", "out", "features", "patched",
            "alt", "areas", "suggest", "urls"} \cup Areas \cup Safes

AreaOf(i) == <<"area_0", "area_1", "area_2", "area_3">>[i + 1]
SafeOf(i) == <<"safe_0", "safe_1", "safe_2", "safe_3">>[i + 1]

VARIABLES
    platform,   \* of this process
    cf,         \* g_cf: resolved, which fields are filled in, ready
    elsewhere,  \* another thread's first call, as far as it resolves
    step,       \* where the call stands
    request,    \* what it was asked
    held,       \* the references it owns of each object
    inside,     \* what is in which container: pairs of objects
    whole,      \* the objects whose fields have all been set
    profile,    \* the profile that was read
    slot,       \* the next view area
    answer      \* what it returned

heap == <<held, inside, whole, profile, slot>>
infoVars == <<platform, cf, elsewhere, step, request, heap, answer>>

-----------------------------------------------------------------------------
(* The profile of the second display.                                      *)

(* Sums of what stands in the files are taken to fit an int.               *)
RectValid(r, w, h) == /\ r.x >= 0 /\ r.y >= 0 /\ r.w > 0 /\ r.h > 0
                      /\ r.x + r.w <= w /\ r.y + r.h <= h

Whole(w, h) == [x |-> 0, y |-> 0, w |-> w, h |-> h]

ProfileTaken(f) == /\ f.read >= 3
                   /\ f.w \in Geometry.minW .. Geometry.maxW
                   /\ f.h \in Geometry.minH .. Geometry.maxH
                   /\ f.fps \in 1 .. 60

(* profile_defaults, then the profile: it is for the first two views, the  *)
(* others keep the default canvas.                                         *)
Base(f) ==
    LET w == IF ProfileTaken(f) THEN f.w ELSE Geometry.w
        h == IF ProfileTaken(f) THEN f.h ELSE Geometry.h
        safe == IF ProfileTaken(f) /\ f.read >= 8 /\ RectValid(f.safe, w, h)
                THEN f.safe ELSE Whole(w, h)
    IN  [w |-> w, h |-> h,
         safe |-> [i \in 0 .. ViewCount - 1 |->
                     IF i \in {0, 1} THEN safe ELSE Whole(Geometry.w, Geometry.h)]]

(* The lines of the view file that hold for view i; the last one counts.   *)
Lines(views, i, w, h) == {k \in DOMAIN views : /\ views[k].view = i
                                               /\ RectValid(views[k].safe, w, h)}
LastOf(S) == CHOOSE k \in S : \A j \in S : j <= k

LoadProfile(f, views) ==
    LET base == Base(f)
        lines(i) == Lines(views, i, base.w, base.h)
    IN  [base EXCEPT !.safe =
            [i \in 0 .. ViewCount - 1 |->
                IF lines(i) = {} THEN base.safe[i]
                ELSE views[LastOf(lines(i))].safe]]

NoProfile == LoadProfile([read |-> 0, w |-> 0, h |-> 0, fps |-> 0,
                          safe |-> Whole(0, 0)], <<>>)

-----------------------------------------------------------------------------
InfoInit ==
    /\ platform \in Platforms
    /\ cf = [resolved |-> FALSE, copies |-> FALSE, ready |-> FALSE]
    /\ elsewhere \in {"copies", "never"}
    /\ step = "asked_for"
    /\ request \in Requests
    /\ held = [o \in Objects |-> 0]
    /\ inside = {} /\ whole = {}
    /\ profile = NoProfile /\ slot = 0
    /\ answer = "none"

Owns(o) == held[o] > 0
Makes(o) == held' = [held EXCEPT ![o] = @ + 1]
Releases(S) == held' = [o \in Objects |-> IF o \in S THEN held[o] - 1 ELSE held[o]]
Owned(S) == {o \in S : Owns(o)}
Goes(at) == step' = at /\ UNCHANGED answer
Answers(o) == step' = "answered" /\ answer' = o

(* What the steps that build the answer leave alone.                       *)
Building == UNCHANGED <<platform, cf, elsewhere, request>>

(* resolve_cf: the flag is set first, then the functions are looked for,   *)
(* then it is known whether all are there.  Another thread that calls      *)
(* meanwhile takes the flag for done.                                      *)
(* Mutant: who sets the flag takes the functions for found. *)
ResolveTakenForDone ==
    /\ step = "asked_for"
    /\ cf' = [cf EXCEPT !.resolved = TRUE]
    /\ Goes("stock")
    /\ UNCHANGED <<platform, elsewhere, request, heap>>

ResolveBegins ==
    /\ step = "asked_for"
    /\ cf' = [cf EXCEPT !.resolved = TRUE]
    /\ Goes(IF cf.resolved THEN "stock" ELSE "copies")
    /\ UNCHANGED <<platform, elsewhere, request, heap>>

ResolveGoesOn ==
    /\ step \in {"copies", "ready"}
    /\ cf' = IF step = "copies" THEN [cf EXCEPT !.copies = platform.copies]
                                ELSE [cf EXCEPT !.ready = platform.ready]
    /\ Goes(IF step = "copies" THEN "ready" ELSE "stock")
    /\ UNCHANGED <<platform, elsewhere, request, heap>>

ElsewhereBegins ==
    /\ elsewhere = "copies" /\ ~cf.resolved
    /\ cf' = [cf EXCEPT !.resolved = TRUE]
    /\ elsewhere' = "resolving_copies"
    /\ UNCHANGED <<platform, step, request, heap, answer>>

ElsewhereGoesOn ==
    /\ elsewhere \in {"resolving_copies", "resolving_ready"}
    /\ IF elsewhere = "resolving_copies"
       THEN cf' = [cf EXCEPT !.copies = platform.copies]
            /\ elsewhere' = "resolving_ready"
       ELSE cf' = [cf EXCEPT !.ready = platform.ready] /\ elsewhere' = "done"
    /\ UNCHANGED <<platform, step, request, heap, answer>>

-----------------------------------------------------------------------------
(* The stock function answers.  The wrapper passes that on when it is not  *)
(* enabled, something is missing, it is not about this property (or the    *)
(* name of the property was not made), or the information is no dictionary.*)
StockInside ==
    IF request.kind = "none" THEN {}
    ELSE (IF request.op = "info" /\ request.listed
          THEN {<<"stock", "stock_displays">>} ELSE {})
         \cup (IF request.listed /\ request.shows # <<>>
               THEN {<<IF request.op = "info" THEN "stock_displays" ELSE "stock",
                       "main">>}
               ELSE {})

Branch == CASE request.op = "info"     -> "clone"
           [] request.op = "displays" -> "check"
           [] OTHER                   -> "urls"

StockAnswers(wanted) ==
    /\ step = "stock"
    /\ cf.copies
    /\ inside' = StockInside
    /\ IF request.kind = "none"
       THEN /\ UNCHANGED held
            /\ IF request.op = "urls" /\ wanted /\ cf.ready
               THEN Goes("urls") ELSE Answers("none")
       ELSE /\ Makes("stock")
            /\ IF /\ wanted /\ cf.ready /\ request.op # "unrelated"
                  /\ request.op = "info" => request.kind = "dict"
               THEN Goes(Branch) ELSE Answers("stock")
    /\ UNCHANGED <<whole, profile, slot>> /\ Building

NoStock ==
    /\ step = "stock"
    /\ ~cf.copies
    /\ Answers("none")
    /\ UNCHANGED heap /\ Building

(* make_cluster_urls, make_allowed_cluster_urls.                           *)
Urls(made) ==
    /\ step = "urls"
    /\ IF made
       THEN /\ held' = [held EXCEPT !["urls"] = 1, !["stock"] = 0]
            /\ whole' = whole \cup {"urls"}
            /\ Answers("urls")
       ELSE /\ Answers(IF Owns("stock") THEN "stock" ELSE "none")
            /\ UNCHANGED <<held, whole>>
    /\ UNCHANGED <<inside, profile, slot>> /\ Building

-----------------------------------------------------------------------------
(* AirPlayCopyServerInfo.                                                  *)

(* clone_dict_manual.                                                      *)
Clone(made) ==
    /\ step = "clone"
    /\ IF made
       THEN /\ Makes("out")
            /\ inside' = inside \cup {<<"out", p[2]>> : p \in {q \in inside : q[1] = "stock"}}
            /\ Goes("features")
       ELSE UNCHANGED <<held, inside>> /\ Answers("stock")
    /\ UNCHANGED <<whole, profile, slot>> /\ Building

(* make_enabled_features.                                                  *)
(* Mutant: the copy is left behind when the features are not made. *)
FeaturesLeaking(made) ==
    /\ step = "features"
    /\ IF made THEN Makes("features") /\ Goes("set_features")
               ELSE UNCHANGED held /\ Answers("stock")
    /\ UNCHANGED <<inside, whole, profile, slot>> /\ Building

Features(made) ==
    /\ step = "features"
    /\ IF made THEN Makes("features") /\ Goes("set_features")
               ELSE Releases({"out"}) /\ Answers("stock")
    /\ UNCHANGED <<inside, whole, profile, slot>> /\ Building

SetFeatures(set) ==
    /\ step = "set_features"
    /\ IF set
       THEN /\ inside' = inside \cup {<<"out", "features">>}
            /\ Releases({"features"})
            /\ Goes("look")
       ELSE /\ Releases({"features", "out"})
            /\ Answers("stock")
            /\ UNCHANGED inside
    /\ UNCHANGED <<whole, profile, slot>> /\ Building

(* The displays are borrowed from the copy.  A second display is put in    *)
(* only beside a single one.                                               *)
Look(found) ==
    /\ step = "look"
    /\ Goes(IF found /\ request.listed /\ Len(request.shows) = 1
            THEN "check" ELSE "finish")
    /\ UNCHANGED heap /\ Building

(* set_obj replaces the displays of the copy.                              *)
SetDisplays(set) ==
    /\ step = "set_displays"
    /\ inside' = IF set THEN (inside \ {<<"out", "stock_displays">>})
                             \cup {<<"out", "patched">>}
                 ELSE inside
    /\ Releases({"patched"})
    /\ Goes("finish")
    /\ UNCHANGED <<whole, profile, slot>> /\ Building

InfoDone ==
    /\ step = "finish"
    /\ Releases({"stock"})
    /\ Answers("out")
    /\ UNCHANGED <<inside, whole, profile, slot>> /\ Building

-----------------------------------------------------------------------------
(* add_alt_display: of the stock displays, or of those in the copy.        *)
AfterDisplays == IF request.op = "info" THEN "finish" ELSE "stock_stays"

Check ==
    /\ step = "check"
    /\ Goes(IF request.listed /\ request.shows # <<>> /\ request.shows[1] # "no_dict"
            THEN "copy" ELSE AfterDisplays)
    /\ UNCHANGED heap /\ Building

Source == IF request.op = "info" THEN "stock_displays" ELSE "stock"

Copy(made) ==
    /\ step = "copy"
    /\ IF made
       THEN /\ Makes("patched")
            /\ inside' = inside \cup {<<"patched", p[2]>> : p \in {q \in inside : q[1] = Source}}
       ELSE UNCHANGED <<held, inside>>
    /\ Goes("alt")
    /\ UNCHANGED <<whole, profile, slot>> /\ Building

(* make_alt_display goes on when a part is missing, and looks at the end.  *)
(* clone_alt_display_base.                                                 *)
Alt(file, views, made) ==
    /\ step = "alt"
    /\ profile' = LoadProfile(file, views)
    /\ IF made THEN Makes("alt") ELSE UNCHANGED held
    /\ Goes("areas")
    /\ UNCHANGED <<inside, whole, slot>> /\ Building

(* make_view_areas, make_safe_area: an area is made, then its safe area;   *)
(* the one that was made is released when the other was not.               *)
AreaArray(made) ==
    /\ step = "areas"
    /\ IF made THEN Makes("areas") /\ Goes("area")
               ELSE UNCHANGED held /\ Goes("suggest")
    /\ slot' = 0
    /\ UNCHANGED <<inside, whole, profile>> /\ Building

MakeArea(made) ==
    /\ step = "area"
    /\ IF made THEN Makes(AreaOf(slot)) ELSE UNCHANGED held
    /\ Goes("safe")
    /\ UNCHANGED <<inside, whole, profile, slot>> /\ Building

MakeSafe(made) ==
    /\ step = "safe"
    /\ IF made THEN Makes(SafeOf(slot)) ELSE UNCHANGED held
    /\ Goes("pair")
    /\ UNCHANGED <<inside, whole, profile, slot>> /\ Building

Pair == {AreaOf(slot), SafeOf(slot)}

PairMade ==
    /\ step = "pair"
    /\ IF Owned(Pair) = Pair
       THEN UNCHANGED held /\ Goes("fill_area")
       ELSE Releases(Owned(Pair) \cup {"areas"}) /\ Goes("suggest")
    /\ UNCHANGED <<inside, whole, profile, slot>> /\ Building

FillArea(set) ==
    /\ step = "fill_area"
    /\ LET area == AreaOf(slot)
           safe == SafeOf(slot)
       IN  IF set
           THEN /\ inside' = inside \cup {<<area, safe>>, <<"areas", area>>}
                /\ whole' = whole \cup {area, safe}
                /\ Releases({area, safe})
                /\ slot' = slot + 1
                /\ Goes(IF slot + 1 = ViewCount THEN "suggest" ELSE "area")
           ELSE /\ Releases({area, safe, "areas"})
                /\ Goes("suggest")
                /\ UNCHANGED <<inside, whole, slot>>
    /\ UNCHANGED profile /\ Building

Suggest(made) ==
    /\ step = "suggest"
    /\ IF made THEN Makes("suggest") /\ whole' = whole \cup {"suggest"}
               ELSE UNCHANGED <<held, whole>>
    /\ Goes("fields")
    /\ UNCHANGED <<inside, profile, slot>> /\ Building

Parts == {"alt", "areas", "suggest"}

(* Mutant: a field that was not set is not missed. *)
FieldsAnyway(set) ==
    /\ step = "fields"
    /\ IF Owned(Parts) = Parts
       THEN /\ inside' = inside \cup {<<"alt", "areas">>, <<"alt", "suggest">>}
            /\ whole' = IF set THEN whole \cup {"alt"} ELSE whole
            /\ Releases({"areas", "suggest"})
       ELSE /\ Releases(Owned(Parts))
            /\ UNCHANGED <<inside, whole>>
    /\ Goes("append")
    /\ UNCHANGED <<profile, slot>> /\ Building

Fields(set) ==
    /\ step = "fields"
    /\ IF Owned(Parts) = Parts /\ set
       THEN /\ inside' = inside \cup {<<"alt", "areas">>, <<"alt", "suggest">>}
            /\ whole' = whole \cup {"alt"}
            /\ Releases({"areas", "suggest"})
       ELSE /\ Releases(Owned(Parts))
            /\ UNCHANGED <<inside, whole>>
    /\ Goes("append")
    /\ UNCHANGED <<profile, slot>> /\ Building

AppendAlt ==
    /\ step = "append"
    /\ IF Owns("patched") /\ Owns("alt")
       THEN /\ inside' = inside \cup {<<"patched", "alt">>}
            /\ Releases({"alt"})
            /\ Goes(IF request.op = "info" THEN "set_displays" ELSE "hand_over")
       ELSE /\ Releases(Owned({"patched", "alt"}))
            /\ Goes(AfterDisplays)
            /\ UNCHANGED inside
    /\ UNCHANGED <<whole, profile, slot>> /\ Building

(* patch_property_result.                                                  *)
HandOver ==
    /\ step = "hand_over"
    /\ Releases({"stock"})
    /\ Answers("patched")
    /\ UNCHANGED <<inside, whole, profile, slot>> /\ Building

StockStays ==
    /\ step = "stock_stays"
    /\ Answers(IF Owns("stock") THEN "stock" ELSE "none")
    /\ UNCHANGED heap /\ Building

-----------------------------------------------------------------------------
(* The phone's stack has the answer and asks again.                        *)
AsksAgain ==
    /\ step = "answered"
    /\ step' = "asked_for"
    /\ request' \in Requests
    /\ held' = [o \in Objects |-> 0]
    /\ inside' = {} /\ whole' = {}
    /\ profile' = NoProfile /\ slot' = 0
    /\ answer' = "none"
    /\ UNCHANGED <<platform, cf, elsewhere>>

MayFail(b) == \/ StockAnswers(b) \/ Urls(b) \/ Clone(b) \/ Features(b)
              \/ SetFeatures(b) \/ Look(b) \/ SetDisplays(b) \/ Copy(b)
              \/ AreaArray(b) \/ MakeArea(b) \/ MakeSafe(b) \/ FillArea(b)
              \/ Suggest(b) \/ Fields(b)

InfoNext ==
    \/ ResolveBegins \/ ResolveGoesOn \/ ElsewhereBegins \/ ElsewhereGoesOn
    \/ NoStock \/ InfoDone \/ Check \/ PairMade \/ AppendAlt \/ HandOver \/ StockStays
    \/ \E b \in BOOLEAN : MayFail(b)
    \/ \E file \in ProfileFiles, views \in ViewFiles, made \in BOOLEAN :
          Alt(file, views, made)
    \/ AsksAgain

InfoSpec == InfoInit /\ [][InfoNext]_infoVars

-----------------------------------------------------------------------------
(* Properties.                                                             *)

Steps == {"asked_for", "copies", "ready", "stock", "urls", "clone", "features",
          "set_features", "look", "check", "copy", "alt", "areas", "area",
          "safe", "pair", "fill_area", "suggest", "fields", "append",
          "set_displays", "hand_over", "stock_stays", "finish", "answered"}

ProfileType == [w : Nat \ {0}, h : Nat \ {0}, safe : [0 .. ViewCount - 1 -> Rect]]
Heldings == [Objects -> Int]

(* The shape of the state.                                                 *)
InfoTypeOK ==
    /\ platform \in Platforms
    /\ cf \in [resolved : BOOLEAN, copies : BOOLEAN, ready : BOOLEAN]
    /\ elsewhere \in {"copies", "resolving_copies", "resolving_ready", "done", "never"}
    /\ step \in Steps
    /\ request \in Requests
    /\ held \in Heldings
    /\ inside \subseteq Objects \X Objects
    /\ whole \subseteq Objects
    /\ profile \in ProfileType
    /\ slot \in 0 .. ViewCount
    /\ answer \in Objects \cup {"none"}

(* Whatever could not be made, the call gives away just the one reference  *)
(* it answers with: none leaks and none is released that it does not own,  *)
(* the stock answer's with the others.                                     *)
Balanced ==
    /\ \A o \in Objects : held[o] >= 0
    /\ step = "answered" =>
         \A o \in Objects : held[o] = IF o = answer THEN 1 ELSE 0

(* What is alive: owned by the call, or in a container that is alive (an   *)
(* information holds displays, these areas, these safe areas).             *)
WithContents(S) == S \cup {p[2] : p \in {q \in inside : q[1] \in S}}
Alive ==
    LET displays == WithContents(WithContents(Owned(Objects)))
        views    == WithContents(WithContents(displays))
    IN  WithContents(views)

(* What a step uses that it does not own, a container keeps alive: the     *)
(* displays borrowed from the copy, and the main display in them.          *)
Borrows ==
    CASE step \in {"clone", "features", "set_features"} -> {"stock"}
      [] step \in {"check", "copy", "areas", "area", "safe", "pair", "fill_area",
                   "suggest"} ->
           IF step # "check" \/ request.listed THEN {Source} ELSE {}
      [] step = "alt"          -> {Source, "main"}
      [] step = "set_displays" -> {"out", "patched", "stock"}
      [] OTHER                 -> {}
BorrowsTheLiving == Borrows \subseteq Alive

(* The stock answer is never written to, whatever is built from it.        *)
StockUntouched ==
    Owns("stock") =>
      {p \in inside : p[1] \in {"stock", "stock_displays", "main"}} = StockInside

(* The objects of the stock answer and the copies are accounted for: none  *)
(* leaks, none is used when it is gone, and the stock's are not written.   *)
ReferencesKept == Balanced /\ BorrowsTheLiving /\ StockUntouched

(* All or nothing: a second display that the phone is told of has all its  *)
(* fields, its four view areas each with its safe area, and its URLs; the  *)
(* information that shows it names the features; there are never two.      *)
Shown == IF answer = "none" THEN {} ELSE {"alt"} \cap Alive
AllOrNothing ==
    step = "answered" /\ Shown # {} =>
      /\ {"alt", "suggest"} \cup Areas \cup Safes \subseteq whole
      /\ {<<"alt", "areas">>, <<"alt", "suggest">>} \subseteq inside
      /\ \A i \in 0 .. ViewCount - 1 :
           {<<"areas", AreaOf(i)>>, <<AreaOf(i), SafeOf(i)>>} \subseteq inside
      /\ answer = "out" => <<"out", "features">> \in inside
      /\ "alt" \notin Range(request.shows)

(* A call is left without an answer only where the stock function gave     *)
(* none, where there is none to call, or while the first call of another   *)
(* thread is still looking for it.                                         *)
AnswersAsStock ==
    [][ step = "stock" /\ answer' = "none" /\ step' = "answered" =>
          request.kind = "none" \/ ~platform.copies
            \/ elsewhere = "resolving_copies" ]_infoVars

(* The safe area of a view lies on the canvas it is announced with,        *)
(* whatever stands in the two files.  Only the last two views can keep the *)
(* default canvas for one, which is larger than a smaller profile's.       *)
SafeAreasOnCanvas ==
    \A i \in 0 .. ViewCount - 1 :
      \/ RectValid(profile.safe[i], profile.w, profile.h)
      \/ i \in {2, 3} /\ profile.safe[i] = Whole(Geometry.w, Geometry.h)

(* The second display the phone is told of is complete and consistent.     *)
DisplayIsWhole == AllOrNothing /\ SafeAreasOnCanvas
=============================================================================

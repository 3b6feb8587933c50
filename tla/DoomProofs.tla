----------------------------- MODULE DoomProofs -----------------------------
(***************************************************************************)
(* The keys of Doom (DoomInput) and the display it shares with the monitor *)
(* and with the I2CDriver screen (HdmiVideo), for every set of strokes,    *)
(* palettes and colours, every hold time and every width of the counters.  *)
(*                                                                         *)
(* Doom sees its keys in pairs and for long enough: the inductive          *)
(* invariant says when the release that is planned falls due, as much      *)
(* later as the key is still too young, counted on the clock that wraps.   *)
(* A Ctrl-X that has arrived is not lost: ReadsOne is what a character may *)
(* do to the variables that decide about one.                              *)
(*                                                                         *)
(* What is shown is whole because nobody writes what is in use.  Waited    *)
(* says which steps are taken with no presentation pending, Backs that the *)
(* bank a client takes next is not the one that is shown, whichever way it *)
(* keeps count; Coming what a presentation brings that is still pending,   *)
(* and Written and Uploaded how far a picture and its palette have got.    *)
(***************************************************************************)
EXTENDS DoomInput, HdmiVideo, TLAPS

Input ==
    [release : BOOLEAN, code : Key \cup {"none"},
     deadline : 0 .. (TimeMod - 1), stop : BOOLEAN, exit : BOOLEAN,
     escape : 0 .. 2, escapeDeadline : 0 .. (TimeMod - 1),
     deferred : Char \cup {"none"}, snip : BOOLEAN]

Event == {"", "none", "down", "up"}

\* What a call may be doing.
Calls == [in : Input, ring : Seq(Char), event : Event, key : Key \cup {"none"}]

Typed ==
    /\ now \in 0 .. (TimeMod - 1) /\ age \in 0 .. Hold
    /\ wire \in Seq(Char) /\ ring \in Seq(Char)
    /\ in \in Input /\ held \in Key \cup {"none"}

\* A key that is too young to be released is due when it is not.
Due == in.release => age = Hold \/ in.deadline = (now + (Hold - age)) % TimeMod

\* Doom has not been told of a key before its first tic.
Fresh == pc = "entry" => held = "none"

IInv == Typed /\ PlanIsTold /\ Due /\ Fresh

\* What a step may do to the key that is down.
KeyStep ==
    /\ held' # held => held = "none" \/ held' = "none"
    /\ held # "none" /\ held' = "none" => age >= Hold

\* A remainder near its modulus is a wrap.
LEMMA Wraps ==
    ASSUME NEW x \in Int, -TimeMod <= x, x < 2 * TimeMod
    PROVE  x % TimeMod = IF x < 0 THEN x + TimeMod
                         ELSE IF x < TimeMod THEN x ELSE x - TimeMod
BY InputAssumption

LEMMA Short == Hold <= TimeMod /\ 2 * Hold <= TimeMod
BY InputAssumption

LEMMA AfterTyped ==
    ASSUME now \in 0 .. (TimeMod - 1), NEW n \in Nat
    PROVE  After(n) \in 0 .. (TimeMod - 1)
<1>1. \A x \in Int : x % TimeMod \in 0 .. (TimeMod - 1)
    BY InputAssumption
<1>2. now + n \in Int
    BY InputAssumption
<1> QED BY <1>1, <1>2 DEF After

\* A planned release is not reached before the key is old enough.
LEMMA NotTooEarly ==
    ASSUME IInv, in.release, Reached(in.deadline)
    PROVE  age >= Hold
<1> SUFFICES ASSUME age < Hold PROVE FALSE
    BY InputAssumption DEF IInv, Typed
<1> DEFINE k == Hold - age
<1>1. /\ k \in 1 .. Hold /\ 2 * k <= TimeMod /\ TimeMod \in Nat
      /\ now \in 0 .. (TimeMod - 1)
    BY Short, InputAssumption DEF IInv, Typed
<1>2. in.deadline = (now + k) % TimeMod
    BY DEF IInv, Due, Typed
<1> HIDE DEF k
<1>3. in.deadline = IF now + k < TimeMod THEN now + k ELSE now + k - TimeMod
    BY <1>1, <1>2, Wraps
<1>4. /\ now - in.deadline = IF now + k < TimeMod THEN -k ELSE TimeMod - k
      /\ now - in.deadline \in Int
    BY <1>1, <1>3
<1>5. (now - in.deadline) % TimeMod = TimeMod - k
    BY <1>1, <1>4, Wraps
<1> QED BY <1>1, <1>5 DEF Reached

----------------------------------------------------------------------------
(***************************************************************************)
(* One call of DG_GetKey.  As long as no key is down it either plans       *)
(* nothing or takes one key down, which is due after the hold time.        *)
(***************************************************************************)
TakesDown(s) ==
    /\ s.event = "down" /\ s.key \in Key
    /\ s.in.release /\ s.in.code = s.key /\ s.in.deadline = After(Hold)

PlansNothing(s) == s.event \in {"", "none"} /\ ~s.in.release

Sound(s) == s \in Calls /\ (PlansNothing(s) \/ TakesDown(s))

LEMMA KeyNames ==
    ASSUME NEW c
    PROVE  /\ uart_character_to_doom_key(c) \in Key \cup {"none"}
           /\ ArrowOf(c) \in Key \cup {"none"}
BY DEF uart_character_to_doom_key, ArrowOf, Key, Digits

LEMMA NoneIsNoKey == "none" \notin Key
BY DEF Key, Digits

LEMMA EmitSound ==
    ASSUME NEW s \in Calls, NEW i \in Input, NEW key \in Key,
           now \in 0 .. (TimeMod - 1)
    PROVE  Sound(emit_key_down(s, i, key))
<1>1. After(Hold) \in 0 .. (TimeMod - 1)
    BY AfterTyped, Short, InputAssumption
<1> DEFINE j == [i EXCEPT !.release = TRUE, !.code = key,
                          !.deadline = After(Hold), !.stop = TRUE]
           r == [s EXCEPT !.in = j, !.event = "down", !.key = key]
<1>2. j \in Input /\ j.release /\ j.code = key /\ j.deadline = After(Hold)
    BY <1>1 DEF Input
<1>3. emit_key_down(s, i, key) = r
    BY DEF emit_key_down, Returns
<1> HIDE DEF j
<1>4. r \in Calls /\ r.event = "down" /\ r.key = key /\ r.in = j
    BY <1>2 DEF Calls, Event
<1> QED BY <1>2, <1>3, <1>4 DEF Sound, TakesDown

LEMMA NothingSound ==
    ASSUME NEW s \in Calls, NEW i \in Input, ~i.release
    PROVE  Sound(Nothing(s, i))
BY DEF Sound, PlansNothing, Nothing, Returns, Calls, Event

LEMMA Places == 0 \in 0 .. 2 /\ 1 \in 0 .. 2 /\ 2 \in 0 .. 2
OBVIOUS

LEMMA ContinuesTyped ==
    ASSUME NEW i \in Input, NEW place \in 0 .. 2, NEW d \in 0 .. (TimeMod - 1)
    PROVE  /\ [i EXCEPT !.escape = place, !.escapeDeadline = d] \in Input
           /\ [i EXCEPT !.escape = place, !.escapeDeadline = d].release = i.release
BY DEF Input

LEMMA DropsTyped ==
    ASSUME NEW i \in Input
    PROVE  /\ [i EXCEPT !.escape = 0] \in Input
           /\ [i EXCEPT !.escape = 0].release = i.release
BY DEF Input

LEMMA DefersTyped ==
    ASSUME NEW i \in Input, NEW c \in Char \cup {"none"}
    PROVE  /\ [i EXCEPT !.escape = 0, !.deferred = c] \in Input
           /\ [i EXCEPT !.deferred = c] \in Input
           /\ [i EXCEPT !.deferred = c].release = i.release
<1> DEFINE j == [i EXCEPT !.deferred = c]
<1>1. j \in Input /\ j.release = i.release
    BY DEF Input
<1> HIDE DEF j
<1>2. [j EXCEPT !.escape = 0] \in Input
    BY <1>1, DropsTyped
<1>3. [j EXCEPT !.escape = 0] = [i EXCEPT !.escape = 0, !.deferred = c]
    BY DEF j, Input
<1> QED BY <1>1, <1>2, <1>3 DEF j

LEMMA ContinuesSound ==
    ASSUME NEW s \in Calls, NEW place \in 0 .. 2, ~s.in.release, s.event = "",
           now \in 0 .. (TimeMod - 1)
    PROVE  Sound(Continues(s, place))
<1>1. After(EscapeTimeout) \in 0 .. (TimeMod - 1)
    BY AfterTyped, InputAssumption
<1>2. s.in \in Input
    BY DEF Calls
<1> DEFINE i == [s.in EXCEPT !.escape = place,
                             !.escapeDeadline = After(EscapeTimeout)]
<1>3. i \in Input /\ ~i.release
    BY <1>1, <1>2, ContinuesTyped
<1>4. Continues(s, place) = [s EXCEPT !.in = i]
    BY DEF Continues
<1> HIDE DEF i
<1> QED BY <1>3, <1>4 DEF Sound, PlansNothing, Calls

LEMMA DropsSound ==
    ASSUME NEW s \in Calls, ~s.in.release, s.event = ""
    PROVE  Sound(Drops(s))
<1>1. s.in \in Input
    BY DEF Calls
<1> DEFINE i == [s.in EXCEPT !.escape = 0]
<1>2. i \in Input /\ ~i.release
    BY <1>1, DropsTyped
<1>3. Drops(s) = [s EXCEPT !.in = i]
    BY DEF Drops
<1> HIDE DEF i
<1> QED BY <1>2, <1>3 DEF Sound, PlansNothing, Calls

LEMMA DecodeSound ==
    ASSUME NEW s \in Calls, NEW c \in Char, ~s.in.release, s.event = "",
           s.in.escape # 0, now \in 0 .. (TimeMod - 1)
    PROVE  Sound(decode_escape_sequence(s, c))
<1> DEFINE i == s.in
<1>0. i \in Input
    BY DEF Calls
<1>2. CASE i.escape = 1 /\ c \in {"[", "O"}
    <2>1. decode_escape_sequence(s, c) = Continues(s, 2)
        BY <1>2 DEF decode_escape_sequence
    <2> QED BY <2>1, Places, ContinuesSound
<1>3. CASE i.escape = 1 /\ c \notin {"[", "O"}
    <2>1. [i EXCEPT !.escape = 0, !.deferred = c] \in Input
        BY <1>0, DefersTyped
    <2>2. decode_escape_sequence(s, c) =
              emit_key_down(s, [i EXCEPT !.escape = 0, !.deferred = c], "ESCAPE")
        BY <1>3 DEF decode_escape_sequence
    <2>3. "ESCAPE" \in Key
        BY DEF Key
    <2> QED BY <2>1, <2>2, <2>3, EmitSound
<1>4. CASE i.escape # 1 /\ ArrowOf(c) # "none"
    <2>1. [i EXCEPT !.escape = 0] \in Input
        BY <1>0, DropsTyped
    <2>2. decode_escape_sequence(s, c) =
              emit_key_down(s, [i EXCEPT !.escape = 0], ArrowOf(c))
        BY <1>4 DEF decode_escape_sequence
    <2>3. ArrowOf(c) \in Key
        BY <1>4, KeyNames
    <2> QED BY <2>1, <2>2, <2>3, EmitSound
<1>5. CASE i.escape # 1 /\ ArrowOf(c) = "none"
    <2>1. decode_escape_sequence(s, c) = Drops(s)
        BY <1>5 DEF decode_escape_sequence
    <2> QED BY <2>1, DropsSound
<1> QED BY <1>2, <1>3, <1>4, <1>5

LEMMA CharacterSound ==
    ASSUME NEW s \in Calls, NEW c \in Char, ~s.in.release, s.event = "",
           now \in 0 .. (TimeMod - 1)
    PROVE  Sound(Character(s, c))
<1> DEFINE i == s.in
<1>0. i \in Input /\ ~i.release /\ i.escape \in 0 .. 2
    BY DEF Calls, Input
<1>1. CASE c = "capability"
    <2>1. Character(s, c) = Nothing(s, i)
        BY <1>1 DEF Character
    <2> QED BY <1>0, <2>1, NothingSound
<1>2. CASE c = "snip"
    <2>1. Character(s, c) = Nothing(s, [i EXCEPT !.snip = TRUE])
        BY <1>2 DEF Character
    <2>2. [i EXCEPT !.snip = TRUE] \in Input /\ ~[i EXCEPT !.snip = TRUE].release
        BY <1>0 DEF Input
    <2> QED BY <2>1, <2>2, NothingSound
<1>3. CASE c \notin {"capability", "snip"} /\ i.escape # 0
    <2>1. Character(s, c) = decode_escape_sequence(s, c)
        BY <1>3 DEF Character
    <2> QED BY <1>3, <2>1, DecodeSound
<1>4. CASE c = "ctrlx" /\ i.escape = 0
    <2>1. Character(s, c) = Nothing(s, [i EXCEPT !.exit = TRUE])
        BY <1>4 DEF Character
    <2>2. [i EXCEPT !.exit = TRUE] \in Input /\ ~[i EXCEPT !.exit = TRUE].release
        BY <1>0 DEF Input
    <2> QED BY <2>1, <2>2, NothingSound
<1>5. CASE c = "esc" /\ i.escape = 0
    <2>1. Character(s, c) = Continues(s, 1)
        BY <1>5 DEF Character
    <2> QED BY <2>1, Places, ContinuesSound
<1>6. CASE c \notin {"capability", "snip", "ctrlx", "esc"} /\ i.escape = 0
    <2> DEFINE key == uart_character_to_doom_key(c)
    <2>1. Character(s, c) = IF key = "none" THEN s ELSE emit_key_down(s, i, key)
        BY <1>6 DEF Character
    <2>2. key \in Key \cup {"none"}
        BY KeyNames
    <2> HIDE DEF key
    <2>3. CASE key = "none"
        BY <2>1, <2>3 DEF Sound, PlansNothing
    <2>4. CASE key # "none"
        BY <1>0, <2>1, <2>2, <2>4, EmitSound
    <2> QED BY <2>3, <2>4
<1> QED BY <1>1, <1>2, <1>3, <1>4, <1>5, <1>6

LEMMA TurnSound ==
    ASSUME NEW s, Sound(s), now \in 0 .. (TimeMod - 1)
    PROVE  Sound(Turn(s))
<1>0. s \in Calls /\ s.in \in Input /\ s.ring \in Seq(Char)
    BY DEF Sound, Calls
<1>1. CASE s.event # ""
    BY <1>1 DEF Turn
<1>2. CASE s.event = ""
    <2>0. ~s.in.release
        BY <1>2 DEF Sound, PlansNothing, TakesDown
    <2>1. CASE s.in.deferred # "none"
        <3> DEFINE i == [s.in EXCEPT !.deferred = "none"]
                   r == [s EXCEPT !.in = i]
        <3>0. i \in Input /\ ~i.release
            BY <1>0, <2>0, DefersTyped
        <3>1. r \in Calls /\ r.event = "" /\ ~r.in.release
            BY <1>0, <1>2, <3>0 DEF Calls
        <3>2. s.in.deferred \in Char
            BY <1>0, <2>1 DEF Input
        <3>3. Turn(s) = Character(r, s.in.deferred)
            BY <1>2, <2>1 DEF Turn
        <3> QED BY <3>1, <3>2, <3>3, CharacterSound
    <2>2. CASE s.in.deferred = "none" /\ s.ring = <<>>
        <3>1. Turn(s) = Nothing(s, s.in)
            BY <1>2, <2>2 DEF Turn
        <3> QED BY <1>0, <2>0, <3>1, NothingSound
    <2>3. CASE s.in.deferred = "none" /\ s.ring # <<>>
        <3> DEFINE r == [s EXCEPT !.ring = Tail(@)]
        <3>1. Tail(s.ring) \in Seq(Char) /\ Head(s.ring) \in Char
            BY <1>0, <2>3
        <3>2. r \in Calls /\ r.event = "" /\ ~r.in.release
            BY <1>0, <1>2, <2>0, <3>1 DEF Calls
        <3>3. Turn(s) = Character(r, Head(s.ring))
            BY <1>2, <2>3 DEF Turn
        <3> QED BY <3>1, <3>2, <3>3, CharacterSound
    <2> QED BY <2>1, <2>2, <2>3
<1> QED BY <1>1, <1>2

LEMMA CallSound ==
    ASSUME Typed
    PROVE  Call(in) \in Calls /\ Call(in).in = in /\ Call(in).event = ""
BY DEF Typed, Call, Calls, Event

\* What DG_GetKey comes to.
Outcome(r) ==
    /\ r.in \in Input /\ r.ring \in Seq(Char)
    /\ \/ ~in.release /\ TakesDown(r)
       \/ /\ r.event = "up" /\ in.release /\ Reached(in.deadline)
          /\ ~r.in.release
       \/ /\ r.event \notin {"up", "down"} /\ r.in.release = in.release
          /\ in.release => r.in.code = in.code /\ r.in.deadline = in.deadline

LEMMA SoundOutcome ==
    ASSUME NEW r, Sound(r), ~in.release, in \in Input PROVE Outcome(r)
<1>1. r.in \in Input /\ r.ring \in Seq(Char)
    BY DEF Sound, Calls
<1>2. CASE TakesDown(r)
    BY <1>1, <1>2 DEF Outcome
<1>3. CASE PlansNothing(r)
    <2>1. r.in.release \in BOOLEAN /\ in.release \in BOOLEAN
        BY <1>1 DEF Input
    <2>2. r.in.release = in.release /\ r.event \notin {"up", "down"}
        BY <1>3, <2>1 DEF PlansNothing
    <2> QED BY <1>1, <2>2 DEF Outcome
<1> QED BY <1>2, <1>3 DEF Sound

LEMMA ReturnOutcome ==
    ASSUME NEW s \in Calls, NEW i \in Input, NEW event, event \notin {"up", "down"},
           i.release = in.release, i.code = in.code, i.deadline = in.deadline,
           NEW key
    PROVE  Outcome(Returns(s, i, event, key))
BY DEF Outcome, Returns, Calls

LEMMA ResultOutcome ==
    ASSUME Typed PROVE Outcome(Result)
<1> DEFINE s == Call(in)
<1>0. s \in Calls /\ in \in Input /\ s.in = in /\ s.event = ""
      /\ now \in 0 .. (TimeMod - 1)
    BY CallSound DEF Typed
<1> HIDE DEF s
<1>1. CASE in.stop
    <2> DEFINE i == [in EXCEPT !.stop = FALSE]
    <2>1. Result = Nothing(s, i)
        BY <1>1 DEF Result, s
    <2>2. i \in Input /\ i.release = in.release /\ i.code = in.code
          /\ i.deadline = in.deadline
        BY <1>0 DEF Input
    <2> HIDE DEF i
    <2> QED BY <1>0, <2>1, <2>2, ReturnOutcome DEF Nothing
<1>2. CASE ~in.stop /\ in.release /\ Reached(in.deadline)
    <2> DEFINE i == [in EXCEPT !.release = FALSE]
    <2>1. Result = Returns(s, i, "up", in.code)
        BY <1>0, <1>2 DEF Result, Release, s
    <2>2. i \in Input /\ ~i.release
        BY <1>0 DEF Input
    <2> HIDE DEF i
    <2>3. /\ Result.in = i /\ Result.event = "up"
          /\ Result.ring = s.ring /\ s.ring \in Seq(Char)
        BY <1>0, <2>1 DEF Returns, Calls
    <2> QED BY <1>2, <2>2, <2>3 DEF Outcome
<1>3. CASE ~in.stop /\ in.release /\ ~Reached(in.deadline)
    <2>1. Result = Nothing(s, in)
        BY <1>3 DEF Result, s
    <2> QED BY <1>0, <2>1, ReturnOutcome DEF Nothing
<1>4. CASE ~in.stop /\ ~in.release /\ in.escape # 0 /\ Reached(in.escapeDeadline)
    <2>1. [in EXCEPT !.escape = 0] \in Input
        BY <1>0, DropsTyped
    <2>2. Result = emit_key_down(s, [in EXCEPT !.escape = 0], "ESCAPE")
        BY <1>4 DEF Result, s
    <2>3. "ESCAPE" \in Key
        BY DEF Key
    <2>4. Sound(Result)
        BY <1>0, <2>1, <2>2, <2>3, EmitSound
    <2> QED BY <1>0, <1>4, <2>4, SoundOutcome
<1>5. CASE ~in.stop /\ ~in.release /\ ~(in.escape # 0 /\ Reached(in.escapeDeadline))
    <2>1. Result = Turn(Turn(Turn(Turn(s))))
        BY <1>5 DEF Result, s
    <2>2. Sound(s)
        BY <1>0, <1>5 DEF Sound, PlansNothing
    <2>3. Sound(Turn(Turn(s)))
        BY <1>0, <2>2, TurnSound
    <2>4. Sound(Result)
        BY <1>0, <2>1, <2>3, TurnSound
    <2> QED BY <1>0, <1>5, <2>4, SoundOutcome
<1> QED BY <1>1, <1>2, <1>3, <1>4, <1>5

----------------------------------------------------------------------------
LEMMA InitIInv == Init => IInv
<1> SUFFICES ASSUME Init PROVE IInv
    OBVIOUS
<1>1. NoInput \in Input
    BY InputAssumption DEF NoInput, Input
<1>2. Typed
    BY <1>1, InputAssumption DEF Init, Typed
<1>3. ~in.release /\ in.release \in BOOLEAN /\ held = "none"
    BY <1>1 DEF Init, NoInput
<1> QED BY <1>2, <1>3 DEF IInv, PlanIsTold, Due, Fresh

\* The clock: a key that is too young gets older, and its release is as near.
LEMMA TickStep ==
    ASSUME IInv, Tick PROVE IInv' /\ KeyStep
<1>0. /\ now \in 0 .. (TimeMod - 1) /\ age \in 0 .. Hold
      /\ TimeMod \in Nat \ {0} /\ Hold \in Nat /\ Hold <= TimeMod
    BY Short, InputAssumption DEF IInv, Typed
<1>1. UNCHANGED <<wire, ring, in, held>>
    BY DEF Tick, line
<1>2. now' = IF now + 1 < TimeMod THEN now + 1 ELSE 0
    <2>1. now' = (now + 1) % TimeMod
        BY DEF Tick
    <2> QED BY <1>0, <2>1, Wraps
<1>3. age' = IF held # "none" /\ age < Hold THEN age + 1 ELSE age
    BY DEF Tick
<1>4. Typed'
    BY <1>0, <1>1, <1>2, <1>3 DEF IInv, Typed
<1>5. PlanIsTold'
    BY <1>1 DEF IInv, PlanIsTold
<1>6. Due'
    <2> SUFFICES ASSUME in.release, age' < Hold
                 PROVE  in.deadline = (now' + (Hold - age')) % TimeMod
        BY <1>0, <1>1, <1>4 DEF Due, Typed
    <2>1. held # "none"
        BY DEF IInv, PlanIsTold
    <2>2. age < Hold /\ age' = age + 1
        BY <1>0, <1>3, <2>1
    <2>3. in.deadline = (now + (Hold - age)) % TimeMod
        BY <1>0, <2>2 DEF IInv, Due
    <2> DEFINE k == Hold - age
    <2>4. k \in 2 .. TimeMod /\ Hold - age' = k - 1 /\ k = Hold - age
        BY <1>0, <2>2
    <2> HIDE DEF k
    <2>5. (now + k) % TimeMod = IF now + k < TimeMod THEN now + k
                                ELSE now + k - TimeMod
        BY <1>0, <2>4, Wraps
    <2> DEFINE x == now' + (k - 1)
    <2>6. x \in Int /\ x >= 0 /\ -TimeMod <= x /\ x < 2 * TimeMod
        BY <1>0, <1>2, <2>4
    <2> HIDE DEF x
    <2>7. x % TimeMod = IF x < TimeMod THEN x ELSE x - TimeMod
        BY <1>0, <2>6, Wraps
    <2>8. x % TimeMod = (now + k) % TimeMod
        BY <1>0, <1>2, <2>4, <2>5, <2>7 DEF x
    <2> QED BY <2>3, <2>4, <2>8 DEF x
<1>7. Fresh'
    BY DEF Tick, Fresh
<1> QED BY <1>1, <1>4, <1>5, <1>6, <1>7 DEF IInv, KeyStep

LEMMA GetKeyStep ==
    ASSUME IInv, DG_GetKey PROVE IInv' /\ KeyStep
<1>0. Outcome(Result) /\ Typed
    BY ResultOutcome DEF IInv
<1>1. in' = Result.in /\ ring' = Result.ring /\ UNCHANGED <<now, wire>>
    BY DEF DG_GetKey, line
<1>2. in' \in Input /\ ring' \in Seq(Char) /\ Fresh'
    BY <1>0, <1>1 DEF Outcome, DG_GetKey, Fresh
<1>3. CASE ~in.release /\ TakesDown(Result)
    <2>1. Result.event = "down" /\ Result.key \in Key
          /\ in'.release /\ in'.code = Result.key /\ in'.deadline = After(Hold)
        BY <1>1, <1>3 DEF TakesDown
    <2>2. held' = Result.key /\ age' = 0 /\ held' # "none"
        BY <2>1, NoneIsNoKey DEF DG_GetKey, Reports
    <2>3. held = "none"
        BY <1>3 DEF IInv, PlanIsTold
    <2>4. Typed'
        BY <1>0, <1>1, <1>2, <2>1, <2>2, InputAssumption DEF Typed
    <2>5. PlanIsTold'
        BY <2>1, <2>2, <1>2 DEF PlanIsTold, Input
    <2>6. in'.deadline = (now' + (Hold - age')) % TimeMod
        <3>1. Hold - age' = Hold /\ now' = now
            BY <1>1, <2>2, InputAssumption
        <3> QED BY <2>1, <3>1 DEF After
    <2> QED BY <1>2, <2>2, <2>3, <2>4, <2>5, <2>6 DEF IInv, Due, KeyStep
<1>4. CASE Result.event = "up" /\ in.release /\ Reached(in.deadline)
           /\ ~Result.in.release
    <2>1. held' = "none" /\ age' = 0 /\ ~in'.release
        BY <1>1, <1>4 DEF DG_GetKey, Reports
    <2>2. age >= Hold
        BY <1>4, NotTooEarly
    <2>3. Typed'
        BY <1>0, <1>1, <1>2, <2>1, InputAssumption DEF Typed
    <2>4. PlanIsTold'
        BY <1>2, <2>1 DEF PlanIsTold, Input
    <2> QED BY <1>2, <2>1, <2>2, <2>3, <2>4 DEF IInv, Due, KeyStep
<1>5. CASE /\ Result.event \notin {"up", "down"}
           /\ Result.in.release = in.release
           /\ in.release => Result.in.code = in.code
                            /\ Result.in.deadline = in.deadline
    <2>1. held' = held /\ age' = age /\ in'.release = in.release
        BY <1>1, <1>5 DEF DG_GetKey, Reports
    <2>2. in.release => in'.code = in.code /\ in'.deadline = in.deadline
        BY <1>1, <1>5
    <2>3. Typed'
        BY <1>0, <1>1, <1>2, <2>1 DEF Typed
    <2>4. PlanIsTold'
        BY <2>1, <2>2 DEF IInv, PlanIsTold
    <2>5. Due'
        BY <1>1, <2>1, <2>2 DEF IInv, Due
    <2> QED BY <1>2, <2>1, <2>3, <2>4, <2>5 DEF IInv, KeyStep
<1> QED BY <1>0, <1>3, <1>4, <1>5 DEF Outcome

\* The steps that leave the plan alone.
LEMMA KeepsPlan ==
    ASSUME IInv, Typed', Fresh', UNCHANGED <<now, held, age>>,
           in'.release = in.release, in'.code = in.code,
           in'.deadline = in.deadline
    PROVE  IInv' /\ KeyStep
BY DEF IInv, PlanIsTold, Due, KeyStep

LEMMA OtherStep ==
    ASSUME IInv, \/ Type \/ Arrive \/ Refuses \/ Enter \/ Frame \/ Leave
                 \/ UNCHANGED vars
    PROVE  IInv' /\ KeyStep
<1>0. Typed /\ in \in Input
    BY DEF IInv, Typed
<1>f. (pc' # pc => pc' # "entry") /\ held' = held
    BY DEF Type, Arrive, Refuses, Enter, Frame, Leave, Return, vars
<1>g. Fresh'
    BY <1>f DEF IInv, Fresh
<1>1. CASE Type
    <2>1. wire' \in Seq(Char) /\ UNCHANGED <<now, ring, in, held, age>>
        BY <1>1, InputAssumption DEF Type
    <2> QED BY <1>0, <1>g, <2>1, KeepsPlan DEF Typed
<1>2. CASE Arrive
    <2>1. /\ wire' \in Seq(Char) /\ ring' \in Seq(Char)
          /\ UNCHANGED <<now, in, held, age>>
        BY <1>0, <1>2 DEF Arrive, Typed
    <2> QED BY <1>0, <1>g, <2>1, KeepsPlan DEF Typed
<1>3. CASE Refuses \/ Leave \/ UNCHANGED vars
    <2>1. UNCHANGED <<now, wire, ring, in, held, age>>
        BY <1>3 DEF Refuses, Leave, Return, line, vars
    <2> QED BY <1>0, <1>g, <2>1, KeepsPlan DEF Typed
<1>4. CASE Enter
    <2>1. NoInput \in Input
        BY InputAssumption DEF NoInput, Input
    <2>2. in' = NoInput /\ UNCHANGED <<now, wire, ring, held, age>>
        BY <1>4 DEF Enter, line
    <2>3. Typed'
        BY <1>0, <2>1, <2>2 DEF Typed
    <2>4. held = "none" /\ held' = "none" /\ ~in'.release
        BY <1>4, <2>2 DEF IInv, Fresh, Enter, NoInput
    <2>5. PlanIsTold' /\ Due'
        BY <2>1, <2>2, <2>4 DEF PlanIsTold, Due, Input
    <2> QED BY <1>g, <2>3, <2>4, <2>5 DEF IInv, KeyStep
<1>5. CASE Frame
    <2> DEFINE i == [in EXCEPT !.snip = FALSE]
    <2>1. i \in Input /\ i.release = in.release /\ i.code = in.code
          /\ i.deadline = in.deadline
        BY <1>0 DEF Input
    <2>2. in' = i /\ UNCHANGED <<now, wire, ring, held, age>>
        BY <1>5 DEF Frame, line
    <2> HIDE DEF i
    <2>3. Typed'
        BY <1>0, <2>1, <2>2 DEF Typed
    <2> QED BY <2>1, <2>2, <2>3, <1>g, KeepsPlan
<1> QED BY <1>1, <1>2, <1>3, <1>4, <1>5

LEMMA IInvStep == IInv /\ [Next]_vars => IInv' /\ KeyStep
<1> SUFFICES ASSUME IInv, [Next]_vars PROVE IInv' /\ KeyStep
    OBVIOUS
<1>1. CASE Tick
    BY <1>1, TickStep
<1>2. CASE DG_GetKey
    BY <1>2, GetKeyStep
<1>3. CASE Type \/ Arrive \/ Refuses \/ Enter \/ Frame \/ Leave \/ UNCHANGED vars
    BY <1>3, OtherStep
<1> QED BY <1>1, <1>2, <1>3 DEF Next

\* Doom sees its keys one at a time and down for at least the hold time, for
\* every width of the clock that leaves room for a hold and a frame: DG_GetKey
\* plans the release, and the signed difference tells when it is due.
THEOREM KeysPairedCorrect == Spec => KeysPaired
<1>1. IInv /\ [Next]_vars => [KeyStep]_vars
    BY IInvStep
<1> QED BY <1>1, InitIInv, IInvStep, PTL DEF Spec, KeysPaired, KeyStep

----------------------------------------------------------------------------
(***************************************************************************)
(* A Ctrl-X that has arrived is not lost.                                  *)
(***************************************************************************)
NotBoth(i) == i.deferred # "none" => i.escape = 0

Hears(q, place) == \E i \in DOMAIN q : Heard(q, place, i)

\* A Ctrl-X that a call has read, or put off, or will read.
CtrlXIn(s) == s.in.exit \/ s.in.deferred = "ctrlx" \/ Hears(s.ring, s.in.escape)

\* What a character may do to the variables that decide about a Ctrl-X.
ReadsOne(s, c, r) ==
    /\ r.ring = s.ring /\ NotBoth(r.in)
    /\ s.in.exit => r.in.exit
    /\ r.in.escape = 2 =>
           \/ s.in.escape = 2 /\ c \in {"capability", "snip"}
           \/ s.in.escape = 1 /\ c \in {"[", "O"}
    /\ c = "ctrlx" /\ s.in.escape # 2 => r.in.exit \/ r.in.deferred = "ctrlx"

\* What emit_key_down leaves alone.
LEMMA EmitKeeps ==
    ASSUME NEW s \in Calls, NEW i \in Input, NEW key
    PROVE  /\ emit_key_down(s, i, key).ring = s.ring
           /\ emit_key_down(s, i, key).in.exit = i.exit
           /\ emit_key_down(s, i, key).in.deferred = i.deferred
           /\ emit_key_down(s, i, key).in.escape = i.escape
<1> DEFINE j == [i EXCEPT !.release = TRUE, !.code = key,
                          !.deadline = After(Hold), !.stop = TRUE]
<1>1. j.exit = i.exit /\ j.deferred = i.deferred /\ j.escape = i.escape
    BY DEF Input
<1>2. emit_key_down(s, i, key) = [s EXCEPT !.in = j, !.event = "down", !.key = key]
    BY DEF emit_key_down, Returns
<1> HIDE DEF j
<1>3. emit_key_down(s, i, key).ring = s.ring /\ emit_key_down(s, i, key).in = j
    BY <1>2 DEF Calls
<1> QED BY <1>1, <1>3

LEMMA ContinuesKeeps ==
    ASSUME NEW s \in Calls, NEW place \in 0 .. 2
    PROVE  /\ Continues(s, place).ring = s.ring
           /\ Continues(s, place).in.exit = s.in.exit
           /\ Continues(s, place).in.deferred = s.in.deferred
           /\ Continues(s, place).in.escape = place
<1> DEFINE i == [s.in EXCEPT !.escape = place,
                             !.escapeDeadline = After(EscapeTimeout)]
<1>1. i.exit = s.in.exit /\ i.deferred = s.in.deferred /\ i.escape = place
    BY DEF Calls, Input
<1>2. Continues(s, place) = [s EXCEPT !.in = i]
    BY DEF Continues
<1> HIDE DEF i
<1>3. Continues(s, place).ring = s.ring /\ Continues(s, place).in = i
    BY <1>2 DEF Calls
<1> QED BY <1>1, <1>3

LEMMA NothingKeeps ==
    ASSUME NEW s \in Calls, NEW i
    PROVE  Nothing(s, i).ring = s.ring /\ Nothing(s, i).in = i
BY DEF Nothing, Returns, Calls

LEMMA DecodeReads ==
    ASSUME NEW s \in Calls, NEW c \in Char, s.in.deferred = "none",
           s.in.escape # 0
    PROVE  ReadsOne(s, c, decode_escape_sequence(s, c))
<1> DEFINE i == s.in
           r == decode_escape_sequence(s, c)
<1>0. i \in Input /\ i.escape \in {1, 2}
    BY DEF Calls, Input
<1>2. CASE i.escape = 1 /\ c \in {"[", "O"}
    <2>1. r = Continues(s, 2)
        BY <1>2 DEF decode_escape_sequence
    <2> HIDE DEF r
    <2>2. /\ r.ring = s.ring /\ r.in.exit = i.exit /\ r.in.deferred = "none"
          /\ r.in.escape = 2
        BY <2>1, Places, ContinuesKeeps
    <2> QED BY <1>2, <2>2 DEF ReadsOne, NotBoth, r
<1>3. CASE i.escape = 1 /\ c \notin {"[", "O"}
    <2> DEFINE j == [i EXCEPT !.escape = 0, !.deferred = c]
    <2>1. j \in Input /\ j.exit = i.exit /\ j.deferred = c /\ j.escape = 0
        BY <1>0, DefersTyped DEF Input
    <2>2. r = emit_key_down(s, j, "ESCAPE")
        BY <1>3 DEF decode_escape_sequence
    <2> HIDE DEF r, j
    <2>3. /\ r.ring = s.ring /\ r.in.exit = i.exit /\ r.in.deferred = c
          /\ r.in.escape = 0
        BY <2>1, <2>2, EmitKeeps
    <2> QED BY <1>3, <2>3 DEF ReadsOne, NotBoth, r
<1>4. CASE i.escape = 2
    <2> DEFINE j == [i EXCEPT !.escape = 0]
    <2>1. j \in Input /\ j.exit = i.exit /\ j.deferred = "none" /\ j.escape = 0
        BY <1>0, DropsTyped DEF Input
    <2>2. r = emit_key_down(s, j, ArrowOf(c)) \/ r = Drops(s)
        BY <1>4 DEF decode_escape_sequence
    <2>3. Drops(s).ring = s.ring /\ Drops(s).in = j
        BY DEF Drops, Calls
    <2> HIDE DEF r, j
    <2>4. /\ r.ring = s.ring /\ r.in.exit = i.exit /\ r.in.deferred = "none"
          /\ r.in.escape = 0
        BY <2>1, <2>2, <2>3, EmitKeeps
    <2> QED BY <1>4, <2>4 DEF ReadsOne, NotBoth, r
<1> QED BY <1>0, <1>2, <1>3, <1>4

LEMMA CharacterReads ==
    ASSUME NEW s \in Calls, NEW c \in Char, s.in.deferred = "none"
    PROVE  ReadsOne(s, c, Character(s, c))
<1> DEFINE i == s.in
           r == Character(s, c)
<1>0. i \in Input /\ i.escape \in 0 .. 2
    BY DEF Calls, Input
<1>1. CASE c = "capability"
    <2>1. r = Nothing(s, i)
        BY <1>1 DEF Character
    <2> HIDE DEF r
    <2>2. r.ring = s.ring /\ r.in = i
        BY <2>1, NothingKeeps
    <2> QED BY <1>1, <2>2 DEF ReadsOne, NotBoth, r
<1>2. CASE c = "snip"
    <2> DEFINE j == [i EXCEPT !.snip = TRUE]
    <2>1. r = Nothing(s, j)
        BY <1>2 DEF Character
    <2>2. j.exit = i.exit /\ j.deferred = i.deferred /\ j.escape = i.escape
        BY <1>0 DEF Input
    <2> HIDE DEF r, j
    <2>3. r.ring = s.ring /\ r.in = j
        BY <2>1, NothingKeeps
    <2> QED BY <1>2, <2>2, <2>3 DEF ReadsOne, NotBoth, r
<1>3. CASE c \notin {"capability", "snip"} /\ i.escape # 0
    <2>1. r = decode_escape_sequence(s, c)
        BY <1>3 DEF Character
    <2> QED BY <1>3, <2>1, DecodeReads
<1>4. CASE c = "ctrlx" /\ i.escape = 0
    <2> DEFINE j == [i EXCEPT !.exit = TRUE]
    <2>1. r = Nothing(s, j)
        BY <1>4 DEF Character
    <2>2. j.exit /\ j.deferred = i.deferred /\ j.escape = i.escape
        BY <1>0 DEF Input
    <2> HIDE DEF r, j
    <2>3. r.ring = s.ring /\ r.in = j
        BY <2>1, NothingKeeps
    <2> QED BY <1>4, <2>2, <2>3 DEF ReadsOne, NotBoth, r
<1>5. CASE c = "esc" /\ i.escape = 0
    <2>1. r = Continues(s, 1)
        BY <1>5 DEF Character
    <2> HIDE DEF r
    <2>2. /\ r.ring = s.ring /\ r.in.exit = i.exit /\ r.in.deferred = "none"
          /\ r.in.escape = 1
        BY <2>1, Places, ContinuesKeeps
    <2> QED BY <1>5, <2>2 DEF ReadsOne, NotBoth, r
<1>6. CASE c \notin {"capability", "snip", "ctrlx", "esc"} /\ i.escape = 0
    <2> DEFINE key == uart_character_to_doom_key(c)
    <2>1. r = s \/ r = emit_key_down(s, i, key)
        BY <1>6 DEF Character
    <2> HIDE DEF r, key
    <2>2. /\ r.ring = s.ring /\ r.in.exit = i.exit /\ r.in.deferred = "none"
          /\ r.in.escape = 0
        BY <1>0, <1>6, <2>1, EmitKeeps
    <2> QED BY <1>6, <2>2 DEF ReadsOne, NotBoth, r
<1> QED BY <1>0, <1>1, <1>2, <1>3, <1>4, <1>5, <1>6

\* A Ctrl-X that will be heard is still heard when the first character is gone,
\* if the place in a sequence is what ReadsOne says; and the first one is heard.
LEMMA HearsTail ==
    ASSUME NEW q \in Seq(Char), q # <<>>, NEW place \in 0 .. 2, NEW later \in 0 .. 2,
           later = 2 => \/ place = 2 /\ Head(q) \in {"capability", "snip"}
                        \/ Head(q) \in {"[", "O"},
           Hears(q, place)
    PROVE  Hears(Tail(q), later) \/ (Head(q) = "ctrlx" /\ place # 2)
<1>1. PICK i \in DOMAIN q : Heard(q, place, i)
    BY DEF Hears
<1>2. i \in 1 .. Len(q) /\ q[i] = "ctrlx" /\ Len(q) \in Nat /\ Head(q) = q[1]
    BY <1>1 DEF Heard
<1>3. /\ Len(Tail(q)) = Len(q) - 1 /\ Tail(q) \in Seq(Char)
      /\ \A k \in 1 .. (Len(q) - 1) : Tail(q)[k] = q[k + 1]
    OBVIOUS
<1>4. CASE i = 1
    <2>1. 0 \in 0 .. (i - 1) /\ (0 + 1) .. (i - 1) = {}
        BY <1>4
    <2>2. place # 2
        BY <1>1, <2>1 DEF Heard
    <2> QED BY <1>2, <1>4, <2>2
<1>5. CASE i # 1
    <2>1. i - 1 \in DOMAIN Tail(q) /\ Tail(q)[i - 1] = "ctrlx"
        BY <1>2, <1>3, <1>5
    <2>2. ASSUME NEW j \in 0 .. ((i - 1) - 1),
                 IF j = 0 THEN later = 2 ELSE Tail(q)[j] \in {"[", "O"}
          PROVE  \E k \in (j + 1) .. ((i - 1) - 1) : Tail(q)[k] \notin {"capability", "snip"}
        <3>0. ASSUME NEW m \in 0 .. (i - 1), m \in {j, j + 1},
                     IF m = 0 THEN place = 2 ELSE q[m] \in {"[", "O"},
                     m = j => q[j + 1] \in {"capability", "snip"}
              PROVE  \E k \in (j + 1) .. ((i - 1) - 1) : Tail(q)[k] \notin {"capability", "snip"}
            <4>1. PICK k \in (m + 1) .. (i - 1) : q[k] \notin {"capability", "snip"}
                BY <1>1, <3>0 DEF Heard
            <4>2. k >= j + 2
                BY <3>0, <4>1, <1>2
            <4>3. k - 1 \in (j + 1) .. ((i - 1) - 1) /\ k - 1 \in 1 .. (Len(q) - 1)
                BY <1>2, <4>2
            <4>4. Tail(q)[k - 1] = q[k]
                BY <1>2, <1>3, <4>3
            <4> QED BY <4>1, <4>3, <4>4
        <3>1. CASE j = 0 /\ place = 2 /\ Head(q) \in {"capability", "snip"}
            <4>1. 0 \in 0 .. (i - 1) /\ q[j + 1] \in {"capability", "snip"}
                BY <1>2, <3>1
            <4> QED BY <3>0, <3>1, <4>1
        <3>2. CASE j = 0 /\ Head(q) \in {"[", "O"}
            <4>1. 1 \in 0 .. (i - 1) /\ q[1] \in {"[", "O"} /\ 1 # j /\ 1 = j + 1
                BY <1>2, <1>5, <3>2
            <4> QED BY <3>0, <4>1
        <3>3. CASE j # 0
            <4>1. j + 1 \in 0 .. (i - 1) /\ j \in 1 .. (Len(q) - 1) /\ j + 1 # j
                  /\ j + 1 # 0
                BY <1>2, <3>3
            <4>2. q[j + 1] \in {"[", "O"}
                BY <1>3, <2>2, <3>3, <4>1
            <4> QED BY <3>0, <4>1, <4>2
        <3> QED BY <2>2, <3>1, <3>2, <3>3
    <2>3. Heard(Tail(q), later, i - 1)
        BY <2>1, <2>2 DEF Heard
    <2> QED BY <2>1, <2>3 DEF Hears
<1> QED BY <1>4, <1>5

\* It is heard as well when no sequence is under way.
LEMMA HearsAway ==
    ASSUME NEW q, NEW place, NEW later, later # 2 \/ later = place, Hears(q, place)
    PROVE  Hears(q, later)
BY DEF Hears, Heard

LEMMA TurnHears ==
    ASSUME NEW s, Sound(s), now \in 0 .. (TimeMod - 1), NotBoth(s.in)
    PROVE  NotBoth(Turn(s).in) /\ (CtrlXIn(s) => CtrlXIn(Turn(s)))
<1>0. /\ s \in Calls /\ s.in \in Input /\ s.ring \in Seq(Char)
      /\ s.in.escape \in 0 .. 2
    BY DEF Sound, Calls, Input
<1>1. CASE s.event # ""
    BY <1>1 DEF Turn
<1>2. CASE s.event = "" /\ s.in.deferred # "none"
    <2> DEFINE i == [s.in EXCEPT !.deferred = "none"]
               r == [s EXCEPT !.in = i]
               c == s.in.deferred
               t == Character(r, c)
    <2>0. /\ i \in Input /\ i.deferred = "none" /\ i.exit = s.in.exit
          /\ i.escape = s.in.escape /\ s.in.escape = 0
        BY <1>0, <1>2, DefersTyped DEF Input, NotBoth
    <2> HIDE DEF i
    <2>1. r \in Calls /\ r.in = i /\ r.ring = s.ring
        BY <1>0, <2>0 DEF Calls
    <2>2. c \in Char
        BY <1>0, <1>2 DEF Input
    <2>3. Turn(s) = t
        BY <1>2 DEF Turn, i
    <2> HIDE DEF r, t, c
    <2>4. ReadsOne(r, c, t)
        BY <2>0, <2>1, <2>2, CharacterReads DEF t
    <2>5. /\ t.ring = s.ring /\ NotBoth(t.in) /\ (s.in.exit => t.in.exit)
          /\ t.in.escape # 2
          /\ c = "ctrlx" => t.in.exit \/ t.in.deferred = "ctrlx"
        BY <2>0, <2>1, <2>4 DEF ReadsOne
    <2>6. CASE Hears(s.ring, s.in.escape)
        <3>1. Hears(s.ring, t.in.escape)
            BY <2>5, <2>6, HearsAway
        <3> QED BY <2>3, <2>5, <3>1 DEF CtrlXIn
    <2>7. CASE s.in.exit \/ c = "ctrlx"
        BY <2>3, <2>5, <2>7 DEF CtrlXIn
    <2> QED BY <2>3, <2>5, <2>6, <2>7 DEF CtrlXIn, c
<1>3. CASE s.event = "" /\ s.in.deferred = "none" /\ s.ring = <<>>
    <2>1. Turn(s) = Nothing(s, s.in)
        BY <1>3 DEF Turn
    <2>2. Turn(s).ring = s.ring /\ Turn(s).in = s.in
        BY <1>0, <2>1, NothingKeeps
    <2> QED BY <2>2 DEF CtrlXIn
<1>4. CASE s.event = "" /\ s.in.deferred = "none" /\ s.ring # <<>>
    <2>a. \A q \in Seq(Char) : q # <<>> => Tail(q) \in Seq(Char) /\ Head(q) \in Char
        OBVIOUS
    <2>0. Tail(s.ring) \in Seq(Char) /\ Head(s.ring) \in Char
        BY <1>0, <1>4, <2>a
    <2> DEFINE r == [s EXCEPT !.ring = Tail(@)]
               c == Head(s.ring)
               t == Character(r, c)
    <2>1. c \in Char
        BY <2>0
    <2>2. r \in Calls /\ r.in = s.in /\ r.ring = Tail(s.ring)
        BY <1>0, <2>0 DEF Calls
    <2>3. Turn(s) = t
        BY <1>4 DEF Turn
    <2>3a. Sound(Turn(s))
        BY TurnSound
    <2> HIDE DEF r, t, c
    <2>4. ReadsOne(r, c, t)
        BY <1>4, <2>1, <2>2, CharacterReads DEF t
    <2>5. /\ t.ring = Tail(s.ring) /\ NotBoth(t.in) /\ (s.in.exit => t.in.exit)
          /\ t.in.escape = 2 => \/ s.in.escape = 2 /\ c \in {"capability", "snip"}
                                \/ c \in {"[", "O"}
          /\ c = "ctrlx" /\ s.in.escape # 2 => t.in.exit \/ t.in.deferred = "ctrlx"
        BY <2>2, <2>4 DEF ReadsOne
    <2>6. t.in.escape \in 0 .. 2
        BY <2>3, <2>3a DEF Sound, Calls, Input
    <2>7. CASE s.in.exit
        BY <2>3, <2>5, <2>7 DEF CtrlXIn
    <2>8. CASE Hears(s.ring, s.in.escape)
        <3>1. Hears(Tail(s.ring), t.in.escape) \/ (c = "ctrlx" /\ s.in.escape # 2)
            BY <1>0, <1>4, <2>5, <2>6, <2>8, HearsTail DEF c
        <3> QED BY <2>3, <2>5, <3>1 DEF CtrlXIn
    <2> QED BY <1>4, <2>3, <2>5, <2>7, <2>8 DEF CtrlXIn
<1> QED BY <1>1, <1>2, <1>3, <1>4

\* A Ctrl-X stays where it was when a call leaves the ring alone.
LEMMA AloneHears ==
    ASSUME NEW s, NEW r, NotBoth(s.in), r.ring = s.ring, r.in.exit = s.in.exit,
           r.in.deferred = s.in.deferred, r.in.escape \in {0, s.in.escape}
    PROVE  NotBoth(r.in) /\ (CtrlXIn(s) => CtrlXIn(r))
<1>1. NotBoth(r.in)
    BY DEF NotBoth
<1>2. CASE Hears(s.ring, s.in.escape)
    BY <1>1, <1>2, HearsAway DEF CtrlXIn
<1>3. CASE s.in.exit \/ s.in.deferred = "ctrlx"
    BY <1>1, <1>3 DEF CtrlXIn
<1> QED BY <1>1, <1>2, <1>3 DEF CtrlXIn

LEMMA ResultHears ==
    ASSUME Typed, NotBoth(in)
    PROVE  NotBoth(Result.in) /\ (CtrlXIn(Call(in)) => CtrlXIn(Result))
<1> DEFINE s == Call(in)
<1>0. /\ s \in Calls /\ in \in Input /\ s.in = in /\ s.event = ""
      /\ now \in 0 .. (TimeMod - 1)
    BY CallSound DEF Typed
<1>a. NotBoth(s.in)
    BY <1>0
<1> HIDE DEF s
<1>1. CASE in.stop
    <2> DEFINE i == [in EXCEPT !.stop = FALSE]
    <2>1. Result = Nothing(s, i)
        BY <1>1 DEF Result, s
    <2>2. i \in Input /\ i.exit = in.exit /\ i.deferred = in.deferred
          /\ i.escape = in.escape
        BY <1>0 DEF Input
    <2> HIDE DEF i
    <2>3. Result.in = i /\ Result.ring = s.ring
        BY <1>0, <2>1, NothingKeeps
    <2>4. /\ Result.ring = s.ring /\ Result.in.exit = s.in.exit
          /\ Result.in.deferred = s.in.deferred
          /\ Result.in.escape \in {0, s.in.escape}
        BY <1>0, <2>2, <2>3
    <2> QED BY <1>a, <2>4, AloneHears DEF s
<1>2. CASE ~in.stop /\ in.release /\ Reached(in.deadline)
    <2> DEFINE i == [in EXCEPT !.release = FALSE]
    <2>1. Result = Returns(s, i, "up", in.code)
        BY <1>0, <1>2 DEF Result, Release, s
    <2>2. i \in Input /\ i.exit = in.exit /\ i.deferred = in.deferred
          /\ i.escape = in.escape
        BY <1>0 DEF Input
    <2> HIDE DEF i
    <2>3. Result.in = i /\ Result.ring = s.ring
        BY <1>0, <2>1 DEF Returns, Calls
    <2>4. /\ Result.ring = s.ring /\ Result.in.exit = s.in.exit
          /\ Result.in.deferred = s.in.deferred
          /\ Result.in.escape \in {0, s.in.escape}
        BY <1>0, <2>2, <2>3
    <2> QED BY <1>a, <2>4, AloneHears DEF s
<1>3. CASE ~in.stop /\ in.release /\ ~Reached(in.deadline)
    <2>1. Result = Nothing(s, in)
        BY <1>3 DEF Result, s
    <2>2. Result.in = in /\ Result.ring = s.ring
        BY <1>0, <2>1, NothingKeeps
    <2>4. /\ Result.ring = s.ring /\ Result.in.exit = s.in.exit
          /\ Result.in.deferred = s.in.deferred
          /\ Result.in.escape \in {0, s.in.escape}
        BY <1>0, <2>2
    <2> QED BY <1>a, <2>4, AloneHears DEF s
<1>4. CASE ~in.stop /\ ~in.release /\ in.escape # 0 /\ Reached(in.escapeDeadline)
    <2> DEFINE i == [in EXCEPT !.escape = 0]
    <2>1. Result = emit_key_down(s, i, "ESCAPE")
        BY <1>4 DEF Result, s
    <2>2. i \in Input /\ i.exit = in.exit /\ i.deferred = in.deferred
          /\ i.escape = 0
        BY <1>0, DropsTyped DEF Input
    <2> HIDE DEF i
    <2>3. /\ Result.ring = s.ring /\ Result.in.exit = in.exit
          /\ Result.in.deferred = in.deferred /\ Result.in.escape = 0
        <3> DEFINE r == emit_key_down(s, i, "ESCAPE")
        <3>0. s \in Calls /\ i \in Input
            BY <1>0, <2>2
        <3>1. /\ r.ring = s.ring /\ r.in.exit = i.exit
              /\ r.in.deferred = i.deferred /\ r.in.escape = i.escape
            BY ONLY <3>0, EmitKeeps
        <3> HIDE DEF r
        <3> QED BY <2>1, <2>2, <3>1 DEF r
    <2>4. Result.in.exit = s.in.exit /\ Result.in.deferred = s.in.deferred
          /\ Result.in.escape \in {0, s.in.escape}
        BY <1>0, <2>3
    <2> QED BY <1>a, <2>3, <2>4, AloneHears DEF s
<1>5. CASE ~in.stop /\ ~in.release /\ ~(in.escape # 0 /\ Reached(in.escapeDeadline))
    <2>1. Result = Turn(Turn(Turn(Turn(s))))
        BY <1>5 DEF Result, s
    <2>2. Sound(s)
        BY <1>0, <1>5 DEF Sound, PlansNothing
    <2>3. Sound(Turn(s)) /\ NotBoth(Turn(s).in) /\ (CtrlXIn(s) => CtrlXIn(Turn(s)))
        BY <1>0, <1>a, <2>2, TurnSound, TurnHears
    <2> DEFINE t == Turn(s)
    <2> HIDE DEF t
    <2>4. Sound(Turn(t)) /\ NotBoth(Turn(t).in) /\ (CtrlXIn(t) => CtrlXIn(Turn(t)))
        BY <1>0, <2>3, TurnSound, TurnHears DEF t
    <2> DEFINE u == Turn(t)
    <2> HIDE DEF u
    <2>5. Sound(Turn(u)) /\ NotBoth(Turn(u).in) /\ (CtrlXIn(u) => CtrlXIn(Turn(u)))
        BY <1>0, <2>4, TurnSound, TurnHears DEF u
    <2> DEFINE v == Turn(u)
    <2> HIDE DEF v
    <2>6. NotBoth(Turn(v).in) /\ (CtrlXIn(v) => CtrlXIn(Turn(v)))
        BY <1>0, <2>5, TurnHears DEF v
    <2>7. Result = Turn(v)
        BY <2>1 DEF t, u, v
    <2> QED BY <2>3, <2>4, <2>5, <2>6, <2>7 DEF s, t, u, v
<1> QED BY <1>1, <1>2, <1>3, <1>4, <1>5

\* A character that arrives changes nothing for those before it.
LEMMA AppendHears ==
    ASSUME NEW q \in Seq(Char), NEW c \in Char, NEW place, Hears(q, place)
    PROVE  Hears(Append(q, c), place)
<1>1. PICK i \in DOMAIN q : Heard(q, place, i)
    BY DEF Hears
<1>2. /\ i \in DOMAIN Append(q, c) /\ i \in Nat /\ i <= Len(q) /\ Len(q) \in Nat
      /\ \A k \in 1 .. Len(q) : Append(q, c)[k] = q[k]
    OBVIOUS
<1>3. ASSUME NEW j \in 0 .. (i - 1),
             IF j = 0 THEN place = 2 ELSE Append(q, c)[j] \in {"[", "O"}
      PROVE  \E k \in (j + 1) .. (i - 1) : Append(q, c)[k] \notin {"capability", "snip"}
    <2>1. IF j = 0 THEN place = 2 ELSE q[j] \in {"[", "O"}
        BY <1>2, <1>3
    <2>2. PICK k \in (j + 1) .. (i - 1) : q[k] \notin {"capability", "snip"}
        BY <1>1, <2>1 DEF Heard
    <2>3. k \in 1 .. Len(q)
        BY <1>2
    <2> QED BY <1>2, <2>2, <2>3
<1>4. Append(q, c)[i] = "ctrlx"
    BY <1>1, <1>2 DEF Heard
<1> QED BY <1>2, <1>3, <1>4 DEF Hears, Heard

LEMMA NotBothStep ==
    ASSUME NotBoth(in), Typed, [Next]_vars PROVE NotBoth(in)'
<1>1. CASE DG_GetKey
    <2>1. in' = Result.in
        BY <1>1 DEF DG_GetKey
    <2> QED BY <2>1, ResultHears DEF NotBoth
<1>2. CASE Enter
    BY <1>2 DEF Enter, NoInput, NotBoth
<1>3. CASE Frame
    <2>1. in' = [in EXCEPT !.snip = FALSE]
        BY <1>3 DEF Frame
    <2> QED BY <2>1 DEF Typed, Input, NotBoth
<1>4. CASE Type \/ Arrive \/ Tick \/ Refuses \/ Leave \/ UNCHANGED vars
    BY <1>4 DEF Type, Arrive, Tick, Refuses, Leave, Return, vars
<1> QED BY <1>1, <1>2, <1>3, <1>4 DEF Next

\* Nothing but the return to the monitor ends the wait of a Ctrl-X.
Waiting ==
    /\ pc \in {"scan", "frame"}
    /\ \/ in.exit \/ in.deferred = "ctrlx"
       \/ \E i \in DOMAIN ring : Heard(ring, in.escape, i)

LEMMA WaitingIn == Waiting <=> pc \in {"scan", "frame"} /\ CtrlXIn(Call(in))
BY DEF Waiting, CtrlXIn, Hears, Call

LEMMA CtrlXStep ==
    ASSUME Typed, NotBoth(in), [Next]_vars, Waiting
    PROVE  Waiting' \/ pc' = "returned"
<1> DEFINE There == CtrlXIn([in |-> in', ring |-> ring'])
<1>0. /\ Call(in).in = in /\ Call(in).ring = ring /\ in \in Input
      /\ ring \in Seq(Char) /\ CtrlXIn(Call(in)) /\ pc \in {"scan", "frame"}
    BY WaitingIn DEF Call, Typed
<1>1. ASSUME There, pc' \in {"scan", "frame"} PROVE Waiting'
    BY <1>1 DEF Waiting, CtrlXIn, Hears
<1>2. CASE DG_GetKey
    <2>1. in' = Result.in /\ ring' = Result.ring /\ pc' \in {"scan", "frame"}
        BY <1>2 DEF DG_GetKey
    <2>2. CtrlXIn(Result)
        BY <1>0, ResultHears
    <2>3. There
        BY <2>1, <2>2 DEF CtrlXIn
    <2> QED BY <1>1, <2>1, <2>3
<1>3. CASE Arrive
    <2>1. /\ in' = in /\ pc' = pc /\ ring' = Append(ring, Head(wire))
          /\ Head(wire) \in Char
        BY <1>3 DEF Arrive, Typed
    <2>2. Hears(ring, in.escape) => Hears(ring', in.escape)
        BY <1>0, <2>1, AppendHears
    <2>3. There
        BY <1>0, <2>1, <2>2 DEF CtrlXIn
    <2> QED BY <1>0, <1>1, <2>1, <2>3
<1>4. CASE Frame
    <2>1. in' = [in EXCEPT !.snip = FALSE] /\ ring' = ring /\ pc' = "scan"
        BY <1>4 DEF Frame
    <2>2. in'.exit = in.exit /\ in'.deferred = in.deferred /\ in'.escape = in.escape
        BY <1>0, <2>1 DEF Input
    <2>3. There
        BY <1>0, <2>1, <2>2 DEF CtrlXIn
    <2> QED BY <1>1, <2>1, <2>3
<1>5. CASE Type \/ Tick \/ UNCHANGED vars
    <2>1. in' = in /\ ring' = ring /\ pc' = pc
        BY <1>5 DEF Type, Tick, vars
    <2>3. There
        BY <1>0, <2>1 DEF CtrlXIn
    <2> QED BY <1>0, <1>1, <2>1, <2>3
<1>6. CASE Refuses \/ Leave
    BY <1>6 DEF Refuses, Leave, Return
<1>7. ~Enter
    BY <1>0 DEF Enter
<1> QED BY <1>2, <1>3, <1>4, <1>5, <1>6, <1>7 DEF Next

LEMMA TypedStep == IInv /\ [Next]_vars => Typed /\ Typed'
BY IInvStep DEF IInv

\* A Ctrl-X that has arrived, and is not dropped as the last character of a
\* sequence, is read, put off or still waiting until Doom returns to the monitor,
\* whatever DG_GetKey reads, emits and defers in between, for every way of typing;
\* the safety in CtrlXExits.
THEOREM CtrlXKept == Spec => [][Waiting => Waiting' \/ pc' = "returned"]_vars
<1>1. Init => NotBoth(in)
    BY DEF Init, NoInput, NotBoth
<1>2. IInv /\ NotBoth(in) /\ [Next]_vars => NotBoth(in)'
    BY TypedStep, NotBothStep
<1>3. IInv /\ NotBoth(in) /\ [Next]_vars
          => [Waiting => Waiting' \/ pc' = "returned"]_vars
    BY TypedStep, CtrlXStep
<1> QED BY <1>1, <1>2, <1>3, InitIInv, IInvStep, PTL DEF Spec

\* The variables of the input keep their types.
THEOREM InputTypeCorrect == Spec => []TypeOK
<1> DEFINE Where == /\ pc \in {"entry", "scan", "frame", "returned"}
                    /\ status \in 0 .. 3
<1>1. Init => Where
    BY DEF Init
<1>2. Where /\ [Next]_vars => Where'
    <2> SUFFICES ASSUME Where, [Next]_vars PROVE Where'
        OBVIOUS
    <2>1. CASE UNCHANGED <<pc, status>>
        BY <2>1
    <2>2. CASE DG_GetKey
        BY <2>2 DEF DG_GetKey
    <2>3. CASE Refuses \/ Enter \/ Frame \/ Leave
        BY <2>3 DEF Refuses, Enter, Frame, Leave, Return
    <2> QED BY <2>1, <2>2, <2>3 DEF Next, Type, Arrive, Tick, vars
<1>3. IInv /\ Where => TypeOK
    BY DEF IInv, Typed, TypeOK, Input
<1> HIDE DEF Where
<1> QED BY <1>1, <1>2, <1>3, InitIInv, IInvStep, PTL DEF Spec

----------------------------------------------------------------------------
(***************************************************************************)
(* The display: where it and its clients can be.                           *)
(***************************************************************************)
Steps == {"prompt", "copy", "idle", "upload", "present", "await", "done",
          "clear magic", "header", "first half", "second half", "set inverse",
          "set magic"}

Saving == {"header", "first half", "second half", "set inverse", "set magic"}

Display ==
    [direct : BOOLEAN, early : BOOLEAN, front : 0 .. 1, internal : 0 .. 1,
     indexed : BOOLEAN, valid : BOOLEAN, gui : BOOLEAN, stuck : BOOLEAN,
     pending : {"none", "copy", "swap"}, copied : 0 .. 2,
     next : [staged : BOOLEAN, buffer : {0, 1, Work}, indexed : BOOLEAN],
     count : 0 .. (CountMod - 1)]

Own == [back : 0 .. 1, mask : SUBSET (0 .. 1), available : BOOLEAN,
        changed : BOOLEAN, staged : BOOLEAN]

Snip == [magic : BOOLEAN, inverse : BOOLEAN, header : Frames,
         pixels : [Halves -> Frames]]

VideoTypes ==
    /\ VideoTypeOK
    /\ hw \in Display /\ snip \in Snip /\ own \in Own
    /\ step \in Steps
    /\ since \in Nat /\ frames \in Nat /\ since <= frames /\ frames <= MaxFrames

\* Where each client can be, and the way it presents.
Whereabouts ==
    /\ client = "gui" =>
           step \in {"copy", "idle", "upload", "present", "await", "done"}
    /\ client = "monitor" =>
           /\ step \notin {"idle", "upload"}
           /\ step \in {"copy", "present", "await", "done"} => own = NoState
    /\ step = "prompt" => client = "monitor"
    /\ client = "doom" => own.staged = ~hw.direct

\* Who has waited for the display.
Waited ==
    /\ hw.stuck => Pending
    /\ step \in {"upload", "present"} /\ client # "monitor" => ~Pending
    /\ step = "copy" /\ ~own.staged => ~Pending
    /\ client = "monitor" /\ step \in {"copy", "present"} => hw.stuck \/ ~Pending
    /\ client = "gui" /\ step \in {"copy", "done"} => ~Pending
    /\ hw.pending = "copy" /\ ~hw.stuck => step = "await"

PaletteOf(buffer) == IF buffer = Work THEN 0 ELSE buffer

\* The display shows what the client presented in bank or buffer b.
Shows(b) == IF own.staged THEN hw.front = b ELSE hw.internal = b

\* The bank or buffer a client takes next is not the one that is shown.
Backs ==
    /\ ~own.staged /\ step \in {"copy", "upload", "present"} =>
           own.back = 1 - hw.internal
    /\ client = "doom" /\ ~hw.stuck =>
           LET b == IF step = "await" THEN own.back ELSE 1 - own.back IN
           IF Pending
           THEN /\ hw.next.buffer = b /\ hw.next.staged = own.staged
                /\ hw.next.indexed
           ELSE Shows(b)
    /\ client = "doom" /\ ~own.staged /\ hw.valid /\ Shown[1].n > since =>
           hw.front = hw.internal

Hidden == bank[1 - hw.internal]

\* What a presentation that is under way brings.
Coming ==
    ~hw.stuck =>
        /\ hw.pending = "copy" =>
               /\ hw.next.staged /\ hw.copied \in {0, 1}
               /\ sdram[hw.next.buffer] = Whole(frame)
               /\ hw.copied = 1 => Hidden[1] = frame
               /\ hw.next.indexed =>
                      palette[PaletteOf(hw.next.buffer)] = Whole(frame.pal)
        /\ hw.pending = "swap" =>
               /\ Hidden[1] = Hidden[2]
               /\ ~hw.next.staged => hw.next.buffer = 1 - hw.internal
               /\ hw.next.indexed =>
                      palette[PaletteOf(hw.next.buffer)] = Whole(Hidden[1].pal)
        /\ step = "await" /\ hw.pending = "swap" => Hidden = Whole(frame)
        /\ step = "await" /\ ~Pending => Shown = Whole(frame)

\* What the client has written of its picture.
Written ==
    /\ step = "copy" /\ half = 2 =>
           (IF own.staged THEN sdram[Buffer] ELSE bank[Buffer])[1] = frame
    /\ own.staged /\ step \in {"idle", "upload", "present", "await"} =>
           sdram[Buffer] = Whole(frame)
    /\ ~own.staged /\ step \in {"upload", "present"} =>
           bank[own.back] = Whole(frame)
    /\ client = "gui" /\ step = "done" =>
           /\ Shown = Whole(frame)
           /\ own.staged => sdram[Work] = Whole(frame)

\* The palettes that the client has uploaded.
Uploaded ==
    /\ ~own.changed => \A b \in own.mask : palette[b] = Whole(frame.pal)
    /\ step = "upload" /\ half = 2 =>
           /\ ~own.changed /\ PaletteBank \notin own.mask
           /\ palette[PaletteBank][1] = frame.pal
    /\ step = "present" /\ client # "monitor" =>
           palette[PaletteBank] = Whole(frame.pal)

\* The pictures of the GUI have one palette.
GuiPalette ==
    client = "gui" =>
        /\ frame.pal = "gui" /\ ~own.changed
        /\ \A b \in 0 .. 1, h \in Halves :
               bank[b][h].n > since => bank[b][h].pal = "gui"

\* A picture is not newer than the last that was drawn.
Ages ==
    /\ frame.n <= frames
    /\ \A b \in 0 .. 1, h \in Halves : bank[b][h].n <= frames

\* How far a save of the screen-snip cache has got.
Saved ==
    /\ SnipValid => snip.pixels = Whole(snip.header)
    /\ step \in Saving => ~snip.magic
    /\ step \in Saving \ {"header"} => snip.header = frame
    /\ step \in {"second half", "set inverse", "set magic"} => snip.pixels[1] = frame
    /\ step \in {"set inverse", "set magic"} => snip.pixels[2] = frame

VideoInv ==
    /\ VideoTypes /\ Whereabouts /\ Waited /\ Backs /\ Coming /\ Written /\ Uploaded
    /\ GuiPalette /\ Ages /\ Saved /\ FrameWhole


----------------------------------------------------------------------------
\* What the registers and the client's variables are.
LEMMA Fields ==
    ASSUME VideoTypes
    PROVE  /\ hw.internal \in 0 .. 1 /\ hw.front \in 0 .. 1
           /\ 1 - hw.internal \in 0 .. 1 /\ hw.internal # 1 - hw.internal
           /\ own.back \in 0 .. 1 /\ 1 - own.back \in 0 .. 1
           /\ own.mask \subseteq 0 .. 1 /\ half \in {1, 2}
           /\ hw.copied \in 0 .. 2 /\ hw.next.buffer \in {0, 1, Work}
           /\ frames \in Nat /\ since \in Nat /\ frame.n \in Nat
           /\ frame \in Frames
BY DEF VideoTypes, Display, Own, VideoTypeOK, Halves, Frames, Work

\* Both halves of a picture.
LEMMA HalvesAre ==
    ASSUME NEW S, NEW x \in S, NEW p \in [Halves -> S]
    PROVE  /\ Whole(x) \in [Halves -> S]
           /\ Whole(x)[1] = x /\ Whole(x)[2] = x
           /\ p = Whole(x) <=> p[1] = x /\ p[2] = x
<1>1. Halves = {1, 2}
    BY DEF Halves
<1> QED BY <1>1 DEF Whole

LEMMA PaletteHalves ==
    ASSUME NEW x \in Palettes \cup {"gui", "rgb332"},
           NEW p \in [Halves -> Palettes \cup {"gui", "rgb332"}]
    PROVE  /\ p = Whole(x) <=> p[1] = x /\ p[2] = x
           /\ Whole(x) \in [Halves -> Palettes \cup {"gui", "rgb332"}]
<1> DEFINE S == Palettes \cup {"gui", "rgb332"}
<1>1. x \in S /\ p \in [Halves -> S]
    OBVIOUS
<1> HIDE DEF S
<1>2. p = Whole(x) <=> p[1] = x /\ p[2] = x
    BY <1>1, HalvesAre
<1>3. Whole(x) \in [Halves -> S]
    BY <1>1, HalvesAre
<1> QED BY <1>2, <1>3 DEF S

\* What follows what.
LEMMA FollowingIs ==
    /\ client = "monitor" =>
           /\ Following("copy") = "present" /\ Following("present") = "await"
           /\ Following("await") = "done"
    /\ client # "monitor" =>
           /\ Following("copy") = (IF own.staged THEN "idle" ELSE "upload")
           /\ Following("idle") = (IF own.staged THEN "upload" ELSE "copy")
           /\ Following("upload") = "present" /\ Following("present") = "await"
           /\ Following("await") = "done"
           /\ Plan[1] = (IF own.staged THEN "copy" ELSE "idle")
<1>1. CASE client = "monitor"
    <2> DEFINE p == <<"copy", "present", "await", "done">>
    <2>1. Plan = p
        BY <1>1 DEF Plan
    <2>2. DOMAIN p = 1 .. 4
        OBVIOUS
    <2>3. /\ (CHOOSE i \in DOMAIN p : p[i] = "copy") = 1
          /\ (CHOOSE i \in DOMAIN p : p[i] = "present") = 2
          /\ (CHOOSE i \in DOMAIN p : p[i] = "await") = 3
        BY <2>2
    <2> QED BY <1>1, <2>1, <2>3 DEF Following
<1>2. CASE client # "monitor" /\ own.staged
    <2> DEFINE p == <<"copy", "idle", "upload", "present", "await", "done">>
    <2>1. Plan = p
        BY <1>2 DEF Plan
    <2>2. DOMAIN p = 1 .. 6
        OBVIOUS
    <2>3. /\ (CHOOSE i \in DOMAIN p : p[i] = "copy") = 1
          /\ (CHOOSE i \in DOMAIN p : p[i] = "idle") = 2
          /\ (CHOOSE i \in DOMAIN p : p[i] = "upload") = 3
        BY <2>2
    <2>4. /\ (CHOOSE i \in DOMAIN p : p[i] = "present") = 4
          /\ (CHOOSE i \in DOMAIN p : p[i] = "await") = 5
        BY <2>2
    <2> QED BY <1>2, <2>1, <2>3, <2>4 DEF Following
<1>3. CASE client # "monitor" /\ ~own.staged
    <2> DEFINE p == <<"idle", "copy", "upload", "present", "await", "done">>
    <2>1. Plan = p
        BY <1>3 DEF Plan
    <2>2. DOMAIN p = 1 .. 6
        OBVIOUS
    <2>3. /\ (CHOOSE i \in DOMAIN p : p[i] = "idle") = 1
          /\ (CHOOSE i \in DOMAIN p : p[i] = "copy") = 2
          /\ (CHOOSE i \in DOMAIN p : p[i] = "upload") = 3
        BY <2>2
    <2>4. /\ (CHOOSE i \in DOMAIN p : p[i] = "present") = 4
          /\ (CHOOSE i \in DOMAIN p : p[i] = "await") = 5
        BY <2>2
    <2> QED BY <1>3, <2>1, <2>3, <2>4 DEF Following
<1> QED BY <1>1, <1>2, <1>3

\* The buffer a client writes, and the palette bank that goes with it.
LEMMA BufferIs ==
    ASSUME VideoTypes
    PROVE  /\ Buffer = (IF client = "gui" /\ own.staged THEN Work ELSE own.back)
           /\ Buffer \in {0, 1, Work} /\ ~own.staged => Buffer \in 0 .. 1
           /\ PaletteBank = PaletteOf(Buffer) /\ PaletteBank \in 0 .. 1
           /\ PaletteBank = (IF client = "gui" /\ own.staged THEN 0 ELSE own.back)
BY Fields DEF Buffer, PaletteBank, PaletteOf, Work

\* A step that leaves the cache alone, and does not begin to save.
LEMMA SavedKept ==
    ASSUME Saved, snip' = snip, step' \notin Saving PROVE Saved'
BY DEF Saved, SnipValid, Saving

LEMMA AgesKept ==
    ASSUME VideoTypes, Ages, bank' = bank, frames' \in {frames, frames + 1},
           frame' = frame \/ frame'.n <= frames'
    PROVE  Ages'
<1>1. frames \in Nat /\ frame.n \in Nat
    BY Fields
<1>2. \A b \in 0 .. 1, h \in Halves : bank[b][h].n \in Nat
    BY DEF VideoTypes, VideoTypeOK, Frames
<1> QED BY <1>1, <1>2 DEF Ages

----------------------------------------------------------------------------
(***************************************************************************)
(* The steps of the display.                                               *)
(***************************************************************************)
LEMMA CopyStep == ASSUME VideoInv, Copy PROVE VideoInv'
<1>0. VideoTypes
    BY DEF VideoInv
<1>1. /\ hw.pending = "copy" /\ ~hw.stuck /\ step = "await"
      /\ UNCHANGED <<snip, client, step, half, own, frame, since, frames, before>>
      /\ UNCHANGED <<sdram, palette>>
    BY DEF VideoInv, Waited, Copy, UnchangedByDisplay
<1>2. /\ hw.next.staged /\ hw.copied \in {0, 1}
      /\ sdram[hw.next.buffer][hw.copied + 1] = frame
      /\ hw.copied = 1 => Hidden[1] = frame
      /\ hw.next.indexed => palette[PaletteOf(hw.next.buffer)] = Whole(frame.pal)
    <2>1. /\ hw.next.staged /\ hw.copied \in {0, 1}
          /\ sdram[hw.next.buffer] = Whole(frame)
          /\ hw.copied = 1 => Hidden[1] = frame
          /\ hw.next.indexed => palette[PaletteOf(hw.next.buffer)] = Whole(frame.pal)
        BY <1>1 DEF VideoInv, Coming
    <2> QED BY <2>1 DEF Whole, Halves
<1>3. hw' \in Display
      /\ hw'.internal = hw.internal /\ hw'.front = hw.front /\ hw'.stuck = hw.stuck
      /\ hw'.valid = hw.valid /\ hw'.next = hw.next /\ hw'.indexed = hw.indexed
      /\ hw'.direct = hw.direct /\ hw'.copied = hw.copied + 1
      /\ hw'.pending = (IF hw.copied = 0 THEN "copy" ELSE "swap")
    <2>1. Counted \in 0 .. (CountMod - 1) /\ hw \in Display
        BY <1>0, VideoAssumption DEF VideoTypes, VideoTypeOK, Counted, Display
    <2> DEFINE c == IF hw.copied = 1 /\ hw.early THEN Counted ELSE hw.count
               p == IF hw.copied = 0 THEN "copy" ELSE "swap"
    <2>2. hw' = [hw EXCEPT !.copied = hw.copied + 1, !.pending = p, !.count = c]
        BY DEF Copy
    <2>3. c \in 0 .. (CountMod - 1) /\ p \in {"none", "copy", "swap"}
        BY <2>1 DEF Display
    <2>4. hw.copied + 1 \in 0 .. 2
        BY <1>2
    <2> HIDE DEF c
    <2> QED BY <2>1, <2>2, <2>3, <2>4 DEF Display
<1>4. /\ bank' \in [0 .. 1 -> [Halves -> Frames]] /\ Shown' = Shown
      /\ \A h \in Halves : Hidden'[h] = (IF h = hw.copied + 1 THEN frame ELSE Hidden[h])
      /\ \A b \in 0 .. 1, h \in Halves :
             bank'[b][h] = bank[b][h] \/ bank'[b][h] = frame
    <2>1. /\ bank \in [0 .. 1 -> [Halves -> Frames]] /\ frame \in Frames
          /\ hw.copied + 1 \in Halves
          /\ bank' = [bank EXCEPT ![1 - hw.internal][hw.copied + 1] = frame]
        BY <1>0, <1>2 DEF VideoTypes, VideoTypeOK, Copy, Halves
    <2>2. hw.internal \in 0 .. 1 /\ 1 - hw.internal \in 0 .. 1
          /\ hw.internal # 1 - hw.internal
        BY <1>0, Fields
    <2> QED BY <1>3, <2>1, <2>2 DEF Shown, Hidden
<1>5. VideoTypes'
    BY <1>0, <1>1, <1>3, <1>4 DEF VideoTypes, VideoTypeOK, Display
<1>6. Whereabouts' /\ Waited' /\ Saved'
    BY <1>1, <1>3 DEF VideoInv, Whereabouts, Waited, Pending, Saved, SnipValid
<1>7. Backs'
    BY <1>1, <1>3, <1>4 DEF VideoInv, Backs, Pending, Shows
<1>8. Coming'
    <2>1. hw'.pending = "swap" => Hidden'[1] = frame /\ Hidden'[2] = frame
        BY <1>2, <1>3, <1>4 DEF Halves
    <2>2. hw'.pending = "swap" => Hidden' = Whole(frame)
        <3>1. Hidden' \in [Halves -> Frames] /\ frame \in Frames
            BY <1>0, <1>3, <1>4, Fields DEF Hidden
        <3> QED BY <2>1, <3>1, HalvesAre
    <2>3. hw'.copied = 1 => Hidden'[1] = frame
        BY <1>2, <1>3, <1>4 DEF Halves
    <2>4. hw'.pending = "copy" => hw'.copied \in {0, 1}
        BY <1>2, <1>3
    <2>5. ~hw'.stuck => sdram'[hw'.next.buffer] = Whole(frame')
        BY <1>1, <1>3 DEF VideoInv, Coming
    <2> QED BY <1>1, <1>2, <1>3, <2>1, <2>2, <2>3, <2>4, <2>5 DEF Coming, Pending
<1>9. Written' /\ Uploaded'
    BY <1>1, <1>3, <1>4 DEF VideoInv, Written, Uploaded, Buffer, PaletteBank
<1>10. GuiPalette'
    BY <1>1, <1>4 DEF VideoInv, GuiPalette
<1>11. Ages'
    BY <1>1, <1>4 DEF VideoInv, Ages
<1>12. FrameWhole'
    BY <1>1, <1>3, <1>4 DEF VideoInv, FrameWhole
<1> QED BY <1>5, <1>6, <1>7, <1>8, <1>9, <1>10, <1>11, <1>12 DEF VideoInv

\* The swap brings what was hidden, in the bank or buffer its client asked for.
LEMMA SwapStep == ASSUME VideoInv, Swap PROVE VideoInv'
<1>0. VideoTypes
    BY DEF VideoInv
<1>1. /\ hw.pending = "swap" /\ ~hw.stuck
      /\ UNCHANGED <<snip, client, step, half, own, frame, since, frames, before>>
      /\ UNCHANGED <<bank, sdram, palette>>
    BY DEF Swap, UnchangedByDisplay
<1>2. /\ Hidden[1] = Hidden[2]
      /\ ~hw.next.staged => hw.next.buffer = 1 - hw.internal
      /\ hw.next.indexed => palette[PaletteOf(hw.next.buffer)] = Whole(Hidden[1].pal)
      /\ step = "await" => Hidden = Whole(frame)
    BY <1>1 DEF VideoInv, Coming
<1>3. hw.internal \in 0 .. 1 /\ 1 - hw.internal \in 0 .. 1
      /\ hw.next.buffer \in {0, 1, Work}
    BY <1>0, Fields
<1>4. hw' \in Display
      /\ hw'.internal = 1 - hw.internal /\ hw'.front = PaletteOf(hw.next.buffer)
      /\ ~hw'.stuck /\ hw'.valid /\ hw'.pending = "none"
      /\ hw'.indexed = hw.next.indexed /\ hw'.direct = hw.direct
    <2>1. Counted \in 0 .. (CountMod - 1) /\ hw \in Display
        BY <1>0, VideoAssumption DEF VideoTypes, VideoTypeOK, Counted, Display
    <2>2. PaletteOf(hw.next.buffer) \in 0 .. 1
        BY <1>3 DEF PaletteOf, Work
    <2> DEFINE i == IF hw.next.staged THEN 1 - hw.internal ELSE hw.next.buffer
               c == IF hw.early THEN hw.count ELSE Counted
               g == hw.next.buffer = Work
    <2>3. i = 1 - hw.internal /\ c \in 0 .. (CountMod - 1) /\ g \in BOOLEAN
        BY <1>2, <2>1 DEF Display
    <2>4. hw.next.indexed \in BOOLEAN
        BY <2>1 DEF Display
    <2>5. hw' = [hw EXCEPT !.internal = i, !.front = PaletteOf(hw.next.buffer),
                           !.gui = g, !.indexed = hw.next.indexed, !.valid = TRUE,
                           !.pending = "none", !.count = c]
        BY DEF Swap, PaletteOf
    <2> HIDE DEF i, c, g
    <2> QED BY <1>1, <1>3, <2>1, <2>2, <2>3, <2>4, <2>5 DEF Display
<1>5. Shown' = Hidden
    BY <1>1, <1>4 DEF Shown, Hidden
<1>6. VideoTypes'
    BY <1>0, <1>1, <1>4 DEF VideoTypes, VideoTypeOK, Display
<1>7. Whereabouts' /\ Waited' /\ Saved'
    BY <1>1, <1>4 DEF VideoInv, Whereabouts, Waited, Pending, Saved, SnipValid
\* Nobody who writes to a bank has a swap pending.
<1>8. ~own.staged => step \notin {"copy", "upload", "present"}
    BY <1>1 DEF VideoInv, Waited, Whereabouts, Pending, NoState
<1>9. Backs'
    <2> SUFFICES ASSUME client = "doom"
                 PROVE  LET b == IF step = "await" THEN own.back ELSE 1 - own.back IN
                        /\ IF own.staged THEN hw'.front = b ELSE hw'.internal = b
                        /\ ~own.staged => hw'.front = hw'.internal
        BY <1>1, <1>4, <1>8 DEF Backs, Pending, Shows
    <2> DEFINE b == IF step = "await" THEN own.back ELSE 1 - own.back
    <2>1. hw.next.buffer = b /\ hw.next.staged = own.staged
        BY <1>1 DEF VideoInv, Backs, Pending
    <2>2. b \in 0 .. 1
        BY <1>0, Fields
    <2>3. PaletteOf(hw.next.buffer) = b
        BY <2>1, <2>2 DEF PaletteOf, Work
    <2>4. ~own.staged => 1 - hw.internal = b
        BY <1>2, <2>1
    <2> QED BY <1>4, <2>3, <2>4
<1>10. Coming'
    BY <1>1, <1>2, <1>4, <1>5 DEF Coming, Pending
<1>11. Written'
    <2>1. ~(client = "gui" /\ step = "done")
        BY <1>1 DEF VideoInv, Waited, Pending
    <2> QED BY <1>1, <2>1 DEF VideoInv, Written, Buffer
<1>12. Uploaded' /\ GuiPalette' /\ Ages'
    BY <1>1 DEF VideoInv, Uploaded, Buffer, PaletteBank, GuiPalette, Ages
<1>13. FrameWhole'
    BY <1>1, <1>2, <1>4, <1>5 DEF FrameWhole
<1> QED BY <1>6, <1>7, <1>9, <1>10, <1>11, <1>12, <1>13 DEF VideoInv

LEMMA StickStep == ASSUME VideoInv, Stick PROVE VideoInv'
<1>0. VideoTypes
    BY DEF VideoInv
<1>1. /\ Pending
      /\ UNCHANGED <<snip, client, step, half, own, frame, since, frames, before>>
      /\ UNCHANGED <<bank, sdram, palette>>
    BY DEF Stick, UnchangedByDisplay
<1>2. hw' \in Display /\ hw'.stuck
      /\ hw'.internal = hw.internal /\ hw'.front = hw.front
      /\ hw'.valid = hw.valid /\ hw'.indexed = hw.indexed
      /\ hw'.direct = hw.direct /\ hw'.pending = hw.pending
    BY <1>0 DEF Stick, VideoTypes, Display
<1>3. VideoTypes'
    BY <1>0, <1>1, <1>2 DEF VideoTypes, VideoTypeOK, Display
<1>4. Whereabouts' /\ Waited' /\ Saved'
    BY <1>1, <1>2 DEF VideoInv, Whereabouts, Waited, Pending, Saved, SnipValid
<1>5. Backs' /\ Coming'
    BY <1>1, <1>2 DEF VideoInv, Backs, Coming, Shown
<1>6. Written' /\ Uploaded'
    BY <1>1, <1>2 DEF VideoInv, Written, Uploaded, Buffer, PaletteBank, Shown
<1>7. GuiPalette' /\ Ages' /\ FrameWhole'
    BY <1>1, <1>2 DEF VideoInv, GuiPalette, Ages, FrameWhole, Shown
<1> QED BY <1>3, <1>4, <1>5, <1>6, <1>7 DEF VideoInv


----------------------------------------------------------------------------
(***************************************************************************)
(* The steps of a client with a picture.                                   *)
(***************************************************************************)
LEMMA CopyHalfStep == ASSUME VideoInv, CopyHalf PROVE VideoInv'
<1>0. VideoTypes
    BY DEF VideoInv
<1>1. /\ step = "copy" /\ HalfDone
      /\ UNCHANGED <<hw, palette, own, before, snip, client, frame, since, frames>>
      /\ \/ own.staged /\ sdram' = [sdram EXCEPT ![Buffer][half] = frame] /\ bank' = bank
         \/ ~own.staged /\ bank' = [bank EXCEPT ![Buffer][half] = frame] /\ sdram' = sdram
    BY DEF CopyHalf, KeepsRest
<1>2. /\ \/ half = 1 /\ half' = 2 /\ step' = "copy"
         \/ half = 2 /\ half' = 1 /\ step' \in {"idle", "upload", "present"}
      /\ step' = "idle" => own.staged /\ client # "monitor"
      /\ step' = "upload" => ~own.staged /\ client # "monitor"
      /\ step' = "present" => client = "monitor"
    BY <1>0, <1>1, Fields, FollowingIs DEF HalfDone, Again, GoOn
<1>3. /\ hw.internal \in 0 .. 1 /\ 1 - hw.internal \in 0 .. 1
      /\ hw.internal # 1 - hw.internal /\ half \in Halves /\ Halves = {1, 2}
      /\ frame \in Frames /\ own.back \in 0 .. 1
      /\ Buffer \in {0, 1, Work} /\ Buffer' = Buffer
      /\ ~own.staged => Buffer = own.back
    BY <1>0, <1>1, Fields, BufferIs DEF Halves, Buffer
<1>4. ~own.staged => own.back = 1 - hw.internal /\ ~Pending
    BY <1>1 DEF VideoInv, Backs, Waited
\* The picture, and everything else in memory.
<1>5. /\ sdram' \in [{0, 1, Work} -> [Halves -> Frames]]
      /\ own.staged =>
             /\ sdram'[Buffer][half] = frame
             /\ half = 2 => sdram'[Buffer][1] = sdram[Buffer][1]
    <2>1. sdram \in [{0, 1, Work} -> [Halves -> Frames]]
        BY <1>0 DEF VideoTypes, VideoTypeOK
    <2>2. CASE own.staged
        <3>1. sdram' = [sdram EXCEPT ![Buffer][half] = frame]
            BY <1>1, <2>2
        <3> QED BY <1>3, <2>1, <3>1
    <2>3. CASE ~own.staged
        BY <1>1, <2>1, <2>3
    <2> QED BY <2>2, <2>3
<1>6. /\ bank' \in [0 .. 1 -> [Halves -> Frames]] /\ Shown' = Shown
      /\ own.staged => bank' = bank
      /\ ~own.staged =>
             /\ bank'[own.back][half] = frame
             /\ half = 2 => bank'[own.back][1] = bank[own.back][1]
      /\ \A b \in 0 .. 1, h \in Halves :
             bank'[b][h] = bank[b][h] \/ bank'[b][h] = frame
    <2>1. CASE own.staged
        BY <1>0, <1>1, <2>1 DEF VideoTypes, VideoTypeOK, Shown
    <2>2. CASE ~own.staged
        <3>1. bank' = [bank EXCEPT ![own.back][half] = frame]
            BY <1>1, <1>3, <2>2
        <3>2. own.back # hw.internal /\ hw' = hw
            BY <1>1, <1>3, <1>4, <2>2
        <3> QED BY <1>0, <1>3, <2>2, <3>1, <3>2 DEF VideoTypes, VideoTypeOK, Shown
    <2> QED BY <2>1, <2>2
<1>7. VideoTypes'
    <2>1. step' \in Steps
        BY <1>2 DEF Steps
    <2>2. half' \in Halves
        BY <1>2, <1>3
    <2> QED BY <1>0, <1>1, <1>5, <1>6, <2>1, <2>2 DEF VideoTypes, VideoTypeOK
<1>8. Whereabouts'
    BY <1>1, <1>2 DEF VideoInv, Whereabouts
<1>9. Waited'
    <2>1. client = "monitor" => hw.stuck \/ ~Pending
        BY <1>1 DEF VideoInv, Waited
    <2>2. client = "gui" => ~Pending
        BY <1>1 DEF VideoInv, Waited
    <2>3. hw.pending = "copy" => hw.stuck
        BY <1>1 DEF VideoInv, Waited
    <2>4. hw.stuck => Pending
        BY DEF VideoInv, Waited
    <2>5. Pending' = Pending /\ hw' = hw /\ own' = own /\ client' = client
        BY <1>1 DEF Pending
    <2> QED BY <1>2, <1>4, <2>1, <2>2, <2>3, <2>4, <2>5 DEF Waited
<1>10. Saved'
    BY <1>1, <1>2, SavedKept DEF VideoInv, Saving
<1>11. Backs'
    BY <1>1, <1>2, <1>4, <1>6 DEF VideoInv, Backs, Pending, Shows
<1>12. Coming'
    <2>1. hw.pending = "copy" => hw.stuck
        BY <1>1 DEF VideoInv, Waited
    <2>2. hw.pending = "swap" => own.staged
        BY <1>4 DEF Pending
    <2>3. own.staged => Hidden' = Hidden
        BY <1>1, <1>6 DEF Hidden
    <2>4. step' # "await" /\ hw' = hw /\ palette' = palette
        BY <1>1, <1>2
    <2> QED BY <2>1, <2>2, <2>3, <2>4 DEF VideoInv, Coming
<1>13. Written'
    <2>1. half = 2 => (IF own.staged THEN sdram[Buffer] ELSE bank[Buffer])[1] = frame
        BY <1>1 DEF VideoInv, Written
    <2>2. own.staged /\ half = 2 => sdram'[Buffer] = Whole(frame)
        <3> SUFFICES ASSUME own.staged, half = 2 PROVE sdram'[Buffer] = Whole(frame)
            OBVIOUS
        <3>1. sdram'[Buffer][1] = frame /\ sdram'[Buffer][2] = frame
            BY <1>5, <2>1
        <3>2. sdram'[Buffer] \in [Halves -> Frames]
            BY <1>3, <1>5
        <3> QED BY <1>3, <3>1, <3>2, HalvesAre
    <2>3. ~own.staged /\ half = 2 => bank'[own.back] = Whole(frame)
        <3> SUFFICES ASSUME ~own.staged, half = 2 PROVE bank'[own.back] = Whole(frame)
            OBVIOUS
        <3>1. bank'[own.back][1] = frame /\ bank'[own.back][2] = frame
            BY <1>3, <1>6, <2>1
        <3>2. bank'[own.back] \in [Halves -> Frames]
            BY <1>3, <1>6
        <3> QED BY <1>3, <3>1, <3>2, HalvesAre
    <2>4. /\ own.staged /\ half = 1 => sdram'[Buffer][1] = frame
          /\ ~own.staged /\ half = 1 => bank'[Buffer][1] = frame
        BY <1>3, <1>5, <1>6
    <2> QED BY <1>1, <1>2, <1>3, <2>2, <2>3, <2>4 DEF Written
<1>14. Uploaded'
    <2>1. ~own.changed => \A b \in own.mask : palette[b] = Whole(frame.pal)
        BY DEF VideoInv, Uploaded
    <2>2. ~(step' = "upload" /\ half' = 2) /\ (step' = "present" => client = "monitor")
        BY <1>2
    <2> QED BY <1>1, <2>1, <2>2 DEF Uploaded
<1>15. GuiPalette'
    BY <1>1, <1>6 DEF VideoInv, GuiPalette
<1>16. Ages'
    BY <1>1, <1>6 DEF VideoInv, Ages
<1>17. FrameWhole'
    BY <1>1, <1>6 DEF VideoInv, FrameWhole
<1> QED BY <1>7, <1>8, <1>9, <1>10, <1>11, <1>12, <1>13, <1>14, <1>15, <1>16, <1>17
        DEF VideoInv

LEMMA WaitIdleStep == ASSUME VideoInv, WaitIdle PROVE VideoInv'
<1>0. VideoTypes
    BY DEF VideoInv
<1>1. /\ step = "idle" /\ ~Pending /\ ~hw.stuck /\ client \in {"doom", "gui"}
      /\ UNCHANGED <<display, before, snip, client, frame, since, frames>>
      /\ half' = 1 /\ own' = [own EXCEPT !.back = ChosenBack]
    BY <1>0 DEF VideoInv, Waited, Whereabouts, WaitIdle, Idle, KeepsRest, GoOn, VideoTypes,
                VideoTypeOK
<1>2. hw' = hw /\ bank' = bank /\ sdram' = sdram /\ palette' = palette
      /\ Shown' = Shown /\ Pending' = Pending
    BY <1>1 DEF display, Shown, Pending
<1>3. step' = (IF own.staged THEN "upload" ELSE "copy")
    BY <1>1, FollowingIs DEF WaitIdle, GoOn
<1>4. /\ own' \in Own /\ own'.staged = own.staged /\ own'.mask = own.mask
      /\ own'.changed = own.changed /\ own'.back = ChosenBack
      /\ client = "doom" \/ own.staged => own'.back = own.back
      /\ client = "gui" /\ ~own.staged => own'.back = 1 - hw.internal
    <2>1. own \in Own /\ ChosenBack \in 0 .. 1
        BY <1>0, Fields DEF VideoTypes, ChosenBack
    <2>2. client = "doom" \/ own.staged => ChosenBack = own.back
        BY DEF ChosenBack
    <2>3. client = "gui" /\ ~own.staged => ChosenBack = 1 - hw.internal
        BY DEF ChosenBack
    <2> QED BY <1>1, <2>1, <2>2, <2>3 DEF Own
<1>5. VideoTypes'
    <2>1. step' \in Steps /\ half' \in Halves
        BY <1>1, <1>3 DEF Steps, Halves
    <2> QED BY <1>0, <1>1, <1>2, <1>4, <2>1 DEF VideoTypes, VideoTypeOK, Own
<1>6. Whereabouts'
    BY <1>1, <1>2, <1>3, <1>4 DEF VideoInv, Whereabouts
<1>7. Waited'
    <2>1. client' = "gui" /\ step' \in {"copy", "done"} => ~Pending
        BY <1>1
    <2> QED BY <1>1, <1>2, <1>3, <1>4 DEF VideoInv, Waited, Pending
<1>8. Saved'
    BY <1>1, <1>3, SavedKept DEF VideoInv, Saving
<1>9. Backs'
    <2>1. client = "doom" => Shows(1 - own.back)
        BY <1>1 DEF VideoInv, Backs
    <2>2. own.back \in 0 .. 1 /\ hw.internal \in 0 .. 1
        BY <1>0, Fields
    <2>3. ~own.staged => own'.back = 1 - hw.internal
        BY <1>1, <1>4, <2>1, <2>2 DEF Shows
    <2>4. client = "doom" /\ ~own.staged /\ hw.valid /\ Shown[1].n > since =>
              hw.front = hw.internal
        BY DEF VideoInv, Backs
    <2>5. client = "doom" => Shows(1 - own.back)'
        BY <1>2, <1>4, <2>1 DEF Shows
    <2>6. step' # "await"
        BY <1>3
    <2> QED BY <1>1, <1>2, <1>4, <2>3, <2>4, <2>5, <2>6 DEF Backs
<1>10. Coming'
    BY <1>1, <1>2, <1>3 DEF Coming, Pending
<1>11. Written'
    <2>1. own.staged => Buffer' = Buffer /\ sdram[Buffer] = Whole(frame)
        BY <1>1, <1>4 DEF VideoInv, Written, Buffer
    <2> QED BY <1>1, <1>2, <1>3, <1>4, <2>1 DEF Written
<1>12. Uploaded'
    <2>1. ~own.changed => \A b \in own.mask : palette[b] = Whole(frame.pal)
        BY DEF VideoInv, Uploaded
    <2>2. step' # "present" /\ half' = 1
        BY <1>1, <1>3
    <2> QED BY <1>1, <1>2, <1>4, <2>1, <2>2 DEF Uploaded
<1>13. GuiPalette'
    BY <1>1, <1>2, <1>4 DEF VideoInv, GuiPalette
<1>14. Ages' /\ FrameWhole'
    BY <1>1, <1>2 DEF VideoInv, Ages, FrameWhole
<1> QED BY <1>5, <1>6, <1>7, <1>8, <1>9, <1>10, <1>11, <1>12, <1>13, <1>14 DEF VideoInv


\* A palette is written that is not in use, or is the one of the picture that is
\* shown, which has the same colours.
LEMMA UploadHalfStep == ASSUME VideoInv, UploadHalf PROVE VideoInv'
<1> DEFINE m == IF own.changed THEN {} ELSE own.mask
<1>0. VideoTypes
    BY DEF VideoInv
<1>1. /\ step = "upload" /\ ~Pending /\ ~hw.stuck /\ client \in {"doom", "gui"}
      /\ UNCHANGED <<hw, bank, sdram, before, snip, client, frame, since, frames>>
    BY <1>0 DEF VideoInv, Waited, Whereabouts, UploadHalf, KeepsRest, VideoTypes, VideoTypeOK
<1>2. /\ PaletteBank \in 0 .. 1 /\ frame \in Frames /\ half \in {1, 2}
      /\ own.back \in 0 .. 1 /\ m \subseteq 0 .. 1 /\ Buffer \in {0, 1, Work}
      /\ hw.internal \in 0 .. 1 /\ hw.front \in 0 .. 1
    BY <1>0, Fields, BufferIs
<1>3. /\ MaskAtUpload \in Own /\ MaskAtUpload.mask = m /\ ~MaskAtUpload.changed
      /\ MaskAtUpload.staged = own.staged /\ MaskAtUpload.back = own.back
    <2>1. own \in Own /\ m \in SUBSET (0 .. 1)
        BY <1>0, <1>2 DEF VideoTypes
    <2>2. MaskAtUpload = [own EXCEPT !.mask = m, !.changed = FALSE]
        BY DEF MaskAtUpload
    <2> HIDE DEF m
    <2> QED BY <2>1, <2>2 DEF Own
<1>4. \A b \in m : palette[b] = Whole(frame.pal)
    BY DEF VideoInv, Uploaded
<1>5. half = 2 => /\ ~own.changed /\ PaletteBank \notin m
                  /\ palette[PaletteBank][1] = frame.pal
    BY <1>1 DEF VideoInv, Uploaded
\* What the step does to the palettes and to the mask.
<1>6. \/ /\ PaletteBank \in m /\ palette' = palette
         /\ own' = MaskAtUpload /\ GoOn
      \/ /\ PaletteBank \notin m
         /\ palette' = [palette EXCEPT ![PaletteBank][half] = frame.pal]
         /\ own' = [MaskAtUpload EXCEPT
                        !.mask = IF half = 2 THEN m \cup {PaletteBank} ELSE m]
         /\ HalfDone
    BY <1>3 DEF UploadHalf
<1>7. /\ own' \in Own /\ ~own'.changed
      /\ own'.staged = own.staged /\ own'.back = own.back
      /\ own'.mask = m \/ (half = 2 /\ own'.mask = m \cup {PaletteBank})
      /\ half = 1 => own'.mask = m
    <2>1. m \in SUBSET (0 .. 1) /\ m \cup {PaletteBank} \in SUBSET (0 .. 1)
        BY <1>2
    <2> HIDE DEF m
    <2>2. CASE own' = MaskAtUpload
        BY <1>3, <2>2
    <2>3. CASE own' = [MaskAtUpload EXCEPT
                        !.mask = IF half = 2 THEN m \cup {PaletteBank} ELSE m]
        <3> DEFINE w == IF half = 2 THEN m \cup {PaletteBank} ELSE m
        <3>1. w \in SUBSET (0 .. 1) /\ (w = m \/ (half = 2 /\ w = m \cup {PaletteBank}))
              /\ (half = 1 => w = m)
            BY <2>1
        <3>2. own' = [MaskAtUpload EXCEPT !.mask = w]
            BY <2>3
        <3> HIDE DEF w
        <3>3. /\ own' \in Own /\ own'.mask = w
              /\ own'.staged = MaskAtUpload.staged /\ own'.back = MaskAtUpload.back
              /\ own'.changed = MaskAtUpload.changed
            BY <1>3, <3>1, <3>2 DEF Own
        <3> QED BY <1>3, <3>1, <3>3, Zenon
    <2> QED BY <1>6, <2>2, <2>3
<1>8. /\ palette' \in [0 .. 1 -> [Halves -> Palettes \cup {"gui", "rgb332"}]]
      /\ \A b \in 0 .. 1 : b # PaletteBank => palette'[b] = palette[b]
      /\ palette' # palette =>
             /\ PaletteBank \notin m /\ palette'[PaletteBank][half] = frame.pal
             /\ half = 2 => palette'[PaletteBank][1] = palette[PaletteBank][1]
      /\ \A h \in Halves : \/ palette'[PaletteBank][h] = palette[PaletteBank][h]
                           \/ palette'[PaletteBank][h] = frame.pal
      /\ PaletteBank \notin m => palette'[PaletteBank][half] = frame.pal
    <2>1. palette \in [0 .. 1 -> [Halves -> Palettes \cup {"gui", "rgb332"}]]
          /\ frame.pal \in Palettes \cup {"gui", "rgb332"}
          /\ half \in Halves /\ Halves = {1, 2}
        BY <1>0, <1>2 DEF VideoTypes, VideoTypeOK, Frames, Halves
    <2>2. CASE palette' = palette /\ PaletteBank \in m
        BY <2>1, <2>2
    <2>3. CASE palette' = [palette EXCEPT ![PaletteBank][half] = frame.pal]
               /\ PaletteBank \notin m
        <3> DEFINE S == Palettes \cup {"gui", "rgb332"}
        <3> HIDE DEF m, S
        <3> QED BY <1>2, <2>1, <2>3 DEF S
    <2> QED BY <1>6, <2>2, <2>3
<1>9. /\ Buffer' = Buffer /\ PaletteBank' = PaletteBank
      /\ Shown' = Shown /\ Pending' = Pending
    BY <1>1, <1>7 DEF Buffer, PaletteBank, Shown, Pending
<1>10. \/ half = 1 /\ half' = 2 /\ step' = "upload" /\ PaletteBank \notin m
       \/ half' = 1 /\ step' = "present" /\ (PaletteBank \in m \/ half = 2)
    BY <1>1, <1>2, <1>6, FollowingIs DEF HalfDone, Again, GoOn
<1> HIDE DEF m
<1>11. VideoTypes'
    <2>1. step' \in Steps
        BY <1>10 DEF Steps
    <2>2. half' \in Halves
        BY <1>10 DEF Halves
    <2> QED BY <1>0, <1>1, <1>7, <1>8, <2>1, <2>2 DEF VideoTypes, VideoTypeOK, Own
<1>12. Whereabouts' /\ Saved'
    <2>1. step' \in {"upload", "present"}
        BY <1>10
    <2>2. Saved'
        BY <1>1, <2>1, SavedKept DEF VideoInv, Saving
    <2> QED BY <1>1, <1>7, <2>1, <2>2 DEF VideoInv, Whereabouts
<1>13. Waited'
    BY <1>1, <1>9, <1>10 DEF Waited, Pending
<1>14. Backs'
    <2>1. ~own.staged => own.back = 1 - hw.internal
        BY <1>1 DEF VideoInv, Backs
    <2>2. step # "await" /\ step' # "await"
        BY <1>1, <1>10
    <2> QED BY <1>1, <1>7, <1>9, <2>1, <2>2 DEF VideoInv, Backs, Shows
<1>15. Coming'
    BY <1>1, <1>9, <1>10 DEF Coming, Pending
<1>16. Written'
    BY <1>1, <1>7, <1>9, <1>10 DEF VideoInv, Written
<1>17. Uploaded'
    <2>1. half = 2 => palette'[PaletteBank] = Whole(frame.pal)
        <3> SUFFICES ASSUME half = 2 PROVE palette'[PaletteBank] = Whole(frame.pal)
            OBVIOUS
        <3>1. palette'[PaletteBank][1] = frame.pal /\ palette'[PaletteBank][2] = frame.pal
            BY <1>2, <1>5, <1>8
        <3>2. /\ palette'[PaletteBank] \in [Halves -> Palettes \cup {"gui", "rgb332"}]
              /\ frame.pal \in Palettes \cup {"gui", "rgb332"}
            BY <1>2, <1>8 DEF Frames
        <3> QED BY <3>1, <3>2, PaletteHalves
    <2>2. PaletteBank \in m => palette' = palette
        BY <1>8
    <2>3. \A b \in m : palette'[b] = Whole(frame.pal)
        BY <1>2, <1>4, <1>8, <2>2
    <2>4. \A b \in own'.mask : palette'[b] = Whole(frame.pal)
        BY <1>7, <2>1, <2>3
    <2>5. step' = "upload" /\ half' = 2 =>
              PaletteBank \notin own'.mask /\ palette'[PaletteBank][1] = frame.pal
        BY <1>7, <1>8, <1>10
    <2>6. step' = "present" => palette'[PaletteBank] = Whole(frame.pal)
        BY <1>10, <2>1, <2>3
    <2> QED BY <1>1, <1>7, <1>9, <2>4, <2>5, <2>6 DEF Uploaded
<1>18. GuiPalette'
    BY <1>1, <1>7 DEF VideoInv, GuiPalette
<1>19. Ages'
    BY <1>1 DEF VideoInv, Ages
<1>20. FrameWhole'
    <2> SUFFICES ASSUME hw.valid, hw.indexed, Shown[1].n > since
                 PROVE  palette'[hw.front] = Whole(Shown[1].pal)
        BY <1>1, <1>9 DEF VideoInv, FrameWhole
    <2>1. palette[hw.front] = Whole(Shown[1].pal)
        BY DEF VideoInv, FrameWhole
    <2>2. CASE hw.front # PaletteBank
        BY <1>2, <1>8, <2>1, <2>2
    <2>3. CASE hw.front = PaletteBank /\ client = "gui"
        <3>1. frame.pal = "gui" /\ Shown[1].pal = "gui"
            BY <1>2, <2>3 DEF VideoInv, GuiPalette, Shown, Halves
        <3>2. \A h \in Halves : palette'[PaletteBank][h] = "gui"
            BY <1>8, <2>1, <2>3, <3>1 DEF Whole
        <3>3. /\ palette'[PaletteBank] \in [Halves -> Palettes \cup {"gui", "rgb332"}]
              /\ "gui" \in Palettes \cup {"gui", "rgb332"}
            BY <1>2, <1>8
        <3>4. palette'[PaletteBank][1] = "gui" /\ palette'[PaletteBank][2] = "gui"
            BY <3>2, 1 \in Halves, 2 \in Halves DEF Halves
        <3> QED BY <2>3, <3>1, <3>3, <3>4, PaletteHalves
    <2>4. CASE hw.front = PaletteBank /\ client = "doom"
        <3>1. PaletteBank = own.back
            BY <1>0, <2>4, BufferIs
        <3>2. Shows(1 - own.back) /\ (~own.staged => hw.front = hw.internal)
            BY <1>1, <2>4 DEF VideoInv, Backs
        <3>3. hw.front = 1 - own.back
            BY <3>2 DEF Shows
        <3> QED BY <1>2, <2>4, <3>1, <3>3
    <2> QED BY <1>1, <2>2, <2>3, <2>4
<1> QED BY <1>11, <1>12, <1>13, <1>14, <1>15, <1>16, <1>17, <1>18, <1>19, <1>20
        DEF VideoInv


\* The presentation that is requested brings the picture of the client; a request
\* while another one is pending is lost, and the display is stuck.
LEMMA PresentStep == ASSUME VideoInv, Present PROVE VideoInv'
<1>0. VideoTypes
    BY DEF VideoInv
<1>1. /\ step = "present" /\ step' = "await" /\ half' = 1
      /\ before' = hw.count /\ hw' = Requested(own.staged, Buffer, client # "monitor")
      /\ UNCHANGED <<bank, sdram, palette, own, snip, client, frame, since, frames>>
    BY FollowingIs DEF Present, KeepsRest, GoOn
<1>2. /\ hw.internal \in 0 .. 1 /\ 1 - hw.internal \in 0 .. 1 /\ own.back \in 0 .. 1
      /\ frame \in Frames /\ Buffer \in {0, 1, Work}
      /\ PaletteBank = PaletteOf(Buffer) /\ (~own.staged => Buffer = own.back)
    BY <1>0, Fields, BufferIs
<1>3. /\ client # "monitor" => ~Pending
      /\ hw.stuck => Pending
      /\ client = "monitor" => own.staged /\ (hw.stuck \/ ~Pending)
      /\ ~own.staged => own.back = 1 - hw.internal
    BY <1>1 DEF VideoInv, Waited, Whereabouts, Backs, NoState
<1>4. /\ own.staged => sdram[Buffer] = Whole(frame)
      /\ ~own.staged => Hidden = Whole(frame)
      /\ client # "monitor" => palette[PaletteOf(Buffer)] = Whole(frame.pal)
    BY <1>1, <1>2, <1>3 DEF VideoInv, Written, Uploaded, Hidden
<1>5. Whole(frame)[1] = frame /\ Whole(frame)[2] = frame
    BY DEF Whole, Halves
<1>6. /\ hw' \in Display
      /\ hw'.internal = hw.internal /\ hw'.front = hw.front /\ hw'.stuck = hw.stuck
      /\ hw'.valid = hw.valid /\ hw'.indexed = hw.indexed /\ hw'.direct = hw.direct
      /\ Pending => hw' = hw
      /\ ~Pending =>
             /\ hw'.pending = (IF own.staged THEN "copy" ELSE "swap")
             /\ hw'.copied = 0
             /\ hw'.next.staged = own.staged /\ hw'.next.buffer = Buffer
             /\ hw'.next.indexed = (client # "monitor")
    <2>1. /\ hw \in Display /\ Counted \in 0 .. (CountMod - 1)
          /\ own.staged \in BOOLEAN
        BY <1>0, VideoAssumption
        DEF VideoTypes, VideoTypeOK, Counted, Display, Own
    <2>2. CASE Pending
        BY <1>1, <2>1, <2>2 DEF Requested
    <2>3. CASE ~Pending
        <3> DEFINE p == IF own.staged THEN "copy" ELSE "swap"
                   c == IF hw.early /\ ~own.staged THEN Counted ELSE hw.count
                   q == [staged |-> own.staged, buffer |-> Buffer,
                         indexed |-> client # "monitor"]
        <3>1. p \in {"none", "copy", "swap"} /\ c \in 0 .. (CountMod - 1)
            BY <2>1 DEF Display
        <3>2. q \in [staged : BOOLEAN, buffer : {0, 1, Work}, indexed : BOOLEAN]
            BY <1>2, <2>1
        <3>3. q.staged = own.staged /\ q.buffer = Buffer /\ q.indexed = (client # "monitor")
            OBVIOUS
        <3>4. hw' = [hw EXCEPT !.pending = p, !.copied = 0, !.next = q, !.count = c]
            BY <1>1, <2>3 DEF Requested
        <3> HIDE DEF p, c, q
        <3>5. /\ hw' \in Display
              /\ hw'.internal = hw.internal /\ hw'.front = hw.front
              /\ hw'.stuck = hw.stuck /\ hw'.valid = hw.valid
              /\ hw'.indexed = hw.indexed /\ hw'.direct = hw.direct
              /\ hw'.pending = p /\ hw'.copied = 0 /\ hw'.next = q
            BY <2>1, <3>1, <3>2, <3>4, 0 \in 0 .. 2 DEF Display
        <3> QED BY <2>3, <3>3, <3>5 DEF p
    <2> QED BY <2>2, <2>3
<1>7. /\ Shown' = Shown /\ Hidden' = Hidden
      /\ Buffer' = Buffer /\ PaletteBank' = PaletteBank
    BY <1>1, <1>6 DEF Shown, Hidden, Buffer, PaletteBank
<1>8. VideoTypes'
    <2>1. step' \in Steps /\ half' \in Halves /\ before' \in 0 .. (CountMod - 1)
        BY <1>0, <1>1 DEF Steps, Halves, VideoTypes, VideoTypeOK
    <2> QED BY <1>0, <1>1, <1>6, <2>1 DEF VideoTypes, VideoTypeOK, Display
<1>9. Whereabouts' /\ Saved'
    <2>1. Saved'
        BY <1>1, SavedKept DEF VideoInv, Saving
    <2> QED BY <1>1, <1>6, <2>1 DEF VideoInv, Whereabouts
<1>10. Waited'
    <2>1. hw.stuck => hw' = hw /\ Pending'
        BY <1>3, <1>6 DEF Pending
    <2> QED BY <1>1, <1>6, <2>1 DEF Waited
<1>11. Backs'
    <2> SUFFICES ASSUME client = "doom" PROVE Backs'
        BY <1>1 DEF Backs
    <2>1. /\ hw'.next.buffer = own.back /\ hw'.next.staged = own.staged
          /\ hw'.next.indexed /\ Pending'
        BY <1>3, <1>6 DEF Pending, Buffer
    <2>2. ~own.staged /\ hw.valid /\ Shown[1].n > since => hw.front = hw.internal
        BY DEF VideoInv, Backs
    <2> QED BY <1>1, <1>6, <1>7, <2>1, <2>2 DEF Backs
<1>12. Coming'
    <2> SUFFICES ASSUME ~Pending PROVE Coming'
        BY <1>3, <1>6 DEF Coming
    <2>1. CASE own.staged
        <3>1. hw'.pending = "copy" /\ hw'.copied = 0 /\ hw'.next.staged
            BY <1>6, <2>1
        <3>2. hw'.next.indexed => palette[PaletteOf(hw'.next.buffer)] = Whole(frame.pal)
            BY <1>4, <1>6
        <3>3. sdram[hw'.next.buffer] = Whole(frame)
            BY <1>4, <1>6, <2>1
        <3> QED BY <1>1, <3>1, <3>2, <3>3 DEF Coming, Pending
    <2>2. CASE ~own.staged
        <3>1. hw'.pending = "swap" /\ hw'.next.buffer = 1 - hw.internal
            BY <1>2, <1>3, <1>6, <2>2
        <3>2. hw'.next.indexed => palette[PaletteOf(hw'.next.buffer)] = Whole(frame.pal)
            BY <1>4, <1>6
        <3>3. Hidden = Whole(frame) /\ Hidden[1] = frame /\ Hidden[2] = frame
            BY <1>4, <1>5, <2>2
        <3> QED BY <1>1, <1>6, <1>7, <3>1, <3>2, <3>3 DEF Coming, Pending
    <2> QED BY <2>1, <2>2
<1>13. Written'
    BY <1>1, <1>4, <1>7 DEF Written
<1>14. Uploaded'
    <2>1. ~own.changed => \A b \in own.mask : palette[b] = Whole(frame.pal)
        BY DEF VideoInv, Uploaded
    <2> QED BY <1>1, <2>1 DEF Uploaded
<1>15. GuiPalette' /\ Ages'
    BY <1>1 DEF VideoInv, GuiPalette, Ages
<1>16. FrameWhole'
    BY <1>1, <1>6, <1>7 DEF VideoInv, FrameWhole
<1> QED BY <1>8, <1>9, <1>10, <1>11, <1>12, <1>13, <1>14, <1>15, <1>16 DEF VideoInv

LEMMA AwaitStep == ASSUME VideoInv, Await PROVE VideoInv'
<1>0. VideoTypes
    BY DEF VideoInv
<1>1. /\ step = "await" /\ step' = "done" /\ half' = 1
      /\ hw' = hw /\ bank' = bank /\ sdram' = sdram /\ palette' = palette
      /\ UNCHANGED <<before, snip, client, frame, since, frames>>
      /\ own' = (IF client = "doom" THEN [own EXCEPT !.back = 1 - own.back] ELSE own)
    BY FollowingIs DEF Await, KeepsRest, GoOn, display
<1>2. /\ client = "doom" => hw.pending # "copy"
      /\ client \in {"gui", "monitor"} => ~Pending
    BY DEF Await, Presented
<1>3. own.back \in 0 .. 1 /\ 1 - own.back \in 0 .. 1 /\ client \in {"doom", "gui", "monitor"}
    BY <1>0, Fields DEF VideoTypes, VideoTypeOK
<1>4. /\ own' \in Own /\ own'.staged = own.staged /\ own'.mask = own.mask
      /\ own'.changed = own.changed
      /\ own'.back = (IF client = "doom" THEN 1 - own.back ELSE own.back)
      /\ client # "doom" => own' = own
    BY <1>0, <1>1, <1>3 DEF VideoTypes, Own
<1>5. Shown' = Shown /\ Pending' = Pending /\ Hidden' = Hidden
    BY <1>1 DEF Shown, Pending, Hidden
<1>6. VideoTypes'
    <2>1. step' \in Steps /\ half' \in Halves
        BY <1>1 DEF Steps, Halves
    <2> QED BY <1>0, <1>1, <1>4, <2>1 DEF VideoTypes, VideoTypeOK, Own
<1>7. Whereabouts' /\ Saved'
    <2>1. Saved'
        BY <1>1, SavedKept DEF VideoInv, Saving
    <2> QED BY <1>1, <1>4, <2>1 DEF VideoInv, Whereabouts
<1>8. Waited'
    <2>1. hw.stuck => Pending
        BY DEF VideoInv, Waited
    <2>2. hw.pending = "copy" => Pending
        BY DEF Pending
    <2> QED BY <1>1, <1>2, <1>3, <1>5, <2>1, <2>2 DEF Waited
<1>9. Backs'
    <2> SUFFICES ASSUME client = "doom" PROVE Backs'
        BY <1>1, <1>4 DEF Backs
    <2>1. 1 - own'.back = own.back
        BY <1>3, <1>4
    <2>2. /\ ~hw.stuck =>
                 IF Pending
                 THEN /\ hw.next.buffer = own.back /\ hw.next.staged = own.staged
                      /\ hw.next.indexed
                 ELSE Shows(own.back)
          /\ ~own.staged /\ hw.valid /\ Shown[1].n > since => hw.front = hw.internal
        BY <1>1 DEF VideoInv, Backs
    <2>3. Shows(own.back) => Shows(1 - own.back)'
        BY <1>1, <1>4, <2>1 DEF Shows
    <2> QED BY <1>1, <1>4, <1>5, <2>1, <2>2, <2>3 DEF Backs
<1>10. Coming'
    BY <1>1, <1>5 DEF VideoInv, Coming
<1>11. Written'
    <2> SUFFICES ASSUME client = "gui"
                 PROVE  /\ Shown = Whole(frame)
                        /\ own.staged => sdram[Work] = Whole(frame)
        BY <1>1, <1>4, <1>5 DEF Written
    <2>1. ~Pending /\ ~hw.stuck
        BY <1>2 DEF VideoInv, Waited
    <2>2. own.staged => sdram[Buffer] = Whole(frame) /\ Buffer = Work
        BY <1>1 DEF VideoInv, Written, Buffer
    <2> QED BY <1>1, <2>1, <2>2 DEF VideoInv, Coming
<1>12. Uploaded'
    BY <1>1, <1>4 DEF VideoInv, Uploaded
<1>13. GuiPalette' /\ Ages' /\ FrameWhole'
    BY <1>1, <1>4, <1>5 DEF VideoInv, GuiPalette, Ages, FrameWhole
<1> QED BY <1>6, <1>7, <1>8, <1>9, <1>10, <1>11, <1>12, <1>13 DEF VideoInv

\* Who gives up knows that the display is stuck.
LEMMA TimesOutStep == ASSUME VideoInv, TimesOut PROVE VideoInv'
<1>0. VideoTypes
    BY DEF VideoInv
<1>1. /\ hw.stuck /\ step \in {"idle", "await"} /\ half' = 1
      /\ hw' = hw /\ bank' = bank /\ sdram' = sdram /\ palette' = palette
      /\ UNCHANGED <<before, snip, frame, since, frames>>
      /\ \/ /\ client = "doom" /\ client' = client /\ step' = "done"
            /\ own' = [own EXCEPT !.available = FALSE]
         \/ client # "doom" /\ client' = "monitor" /\ step' = "prompt" /\ own' = own
    BY DEF TimesOut, display
<1>2. /\ own' \in Own /\ own'.staged = own.staged /\ own'.mask = own.mask
      /\ own'.changed = own.changed /\ own'.back = own.back
    BY <1>0, <1>1 DEF VideoTypes, Own
<1>3. Shown' = Shown /\ Pending' = Pending /\ Pending
    BY <1>1 DEF VideoInv, Waited, Shown, Pending
<1>4. VideoTypes'
    <2>1. step' \in Steps
        BY <1>1 DEF Steps
    <2>2. half' \in Halves /\ client' \in {"monitor", "doom", "gui"}
        BY <1>1 DEF Halves
    <2> QED BY <1>0, <1>1, <1>2, <2>1, <2>2 DEF VideoTypes, VideoTypeOK, Own
<1>5. Whereabouts' /\ Saved'
    <2>1. Saved'
        BY <1>1, SavedKept DEF VideoInv, Saving
    <2> QED BY <1>1, <1>2, <2>1 DEF VideoInv, Whereabouts
<1>6. Waited'
    BY <1>1, <1>3 DEF Waited
<1>7. Backs'
    BY <1>1, <1>2, <1>3 DEF VideoInv, Backs
<1>8. Coming' /\ Written' /\ Uploaded'
    BY <1>1, <1>2 DEF VideoInv, Coming, Written, Uploaded
<1>9. GuiPalette' /\ Ages' /\ FrameWhole'
    BY <1>1, <1>3 DEF VideoInv, GuiPalette, Ages, FrameWhole
<1> QED BY <1>4, <1>5, <1>6, <1>7, <1>8, <1>9 DEF VideoInv


----------------------------------------------------------------------------
(***************************************************************************)
(* The steps of the clients.                                               *)
(***************************************************************************)
LEMMA DrawnIs ==
    ASSUME VideoTypes, client' \in {"monitor", "doom", "gui"},
           NEW pal \in Palettes \cup {"gui", "rgb332"}, Draws(pal)
    PROVE  /\ frame' \in Frames /\ frame'.pal = pal /\ frame'.n = frames'
           /\ frames' = frames + 1 /\ frames' \in Nat /\ frames' <= MaxFrames
           /\ half' = 1 /\ before' = before /\ snip' = snip
           /\ hw' = hw /\ bank' = bank /\ sdram' = sdram /\ palette' = palette
<1>1. frames' = frames + 1 /\ frames < MaxFrames /\ frames \in Nat /\ MaxFrames \in Nat
    BY VideoAssumption DEF Draws, VideoTypes
<1>2. frame' = [by |-> client', n |-> frames', pal |-> pal]
    BY DEF Draws, Drawn
<1> QED BY <1>1, <1>2 DEF Frames, Draws, display

\* A client that is entered finds nothing under way, and no picture of its own.
LEMMA Entered ==
    ASSUME VideoInv, Settled, since' = frames, own'.mask = {},
           hw' = hw, bank' = bank, palette' = palette, snip' = snip,
           step' \in {"copy", "idle", "done"}, frames' \in {frames, frames + 1},
           frame'.n <= frames'
    PROVE  /\ Coming' /\ Uploaded' /\ Ages' /\ Saved' /\ FrameWhole'
           /\ \A b \in 0 .. 1, h \in Halves : ~(bank'[b][h].n > since')
<1>1. /\ frames \in Nat /\ hw.internal \in 0 .. 1 /\ VideoTypes
      /\ \A b \in 0 .. 1, h \in Halves : bank[b][h].n \in Nat /\ bank[b][h].n <= frames
    BY DEF VideoInv, VideoTypes, VideoTypeOK, Frames, Ages
<1>2. \A b \in 0 .. 1, h \in Halves : ~(bank'[b][h].n > since')
    BY <1>1
<1>3. Shown' = Shown /\ ~(Shown'[1].n > since')
    <2>1. 1 \in Halves
        BY DEF Halves
    <2> QED BY <1>1, <1>2, <2>1 DEF Shown
<1>4. FrameWhole'
    BY <1>3 DEF VideoInv, FrameWhole
<1>5. Coming'
    BY DEF Coming, Settled, Pending
<1>6. Uploaded'
    BY DEF Uploaded
<1>7. Ages'
    BY <1>1, AgesKept DEF VideoInv
<1>8. Saved'
    BY SavedKept DEF VideoInv, Saving
<1> QED BY <1>2, <1>4, <1>5, <1>6, <1>7, <1>8

LEMMA PatternStep == ASSUME VideoInv, Pattern PROVE VideoInv'
<1>0. VideoTypes
    BY DEF VideoInv
<1>1. /\ Settled /\ client' = "monitor" /\ step' = "copy" /\ own' = NoState
      /\ since' = frames /\ Draws("rgb332")
    BY DEF Pattern, AtPrompt
<1>2. /\ frame' \in Frames /\ frame'.n = frames'
      /\ frames' = frames + 1 /\ frames' \in Nat /\ frames' <= MaxFrames
      /\ half' = 1 /\ before' = before /\ snip' = snip
      /\ hw' = hw /\ bank' = bank /\ sdram' = sdram /\ palette' = palette
    BY <1>0, <1>1, DrawnIs
<1>3. frames \in Nat /\ NoState \in Own /\ NoState.mask = {} /\ NoState.staged
    BY <1>0 DEF VideoTypes, NoState, Own
<1>4. Coming' /\ Uploaded' /\ Ages' /\ Saved' /\ FrameWhole'
    <2>1. frame'.n <= frames' /\ frames' \in {frames, frames + 1}
          /\ own'.mask = {} /\ step' \in {"copy", "idle", "done"}
        BY <1>1, <1>2, <1>3
    <2> QED BY <1>1, <1>2, <2>1, Entered
<1>5. VideoTypes'
    <2>1. step' \in Steps /\ half' \in Halves
        BY <1>1, <1>2 DEF Steps, Halves
    <2>2. since' \in Nat /\ since' <= frames'
        BY <1>1, <1>2, <1>3
    <2> QED BY <1>0, <1>1, <1>2, <1>3, <2>1, <2>2 DEF VideoTypes, VideoTypeOK, Own
<1>6. Whereabouts' /\ Backs'
    BY <1>1, <1>3 DEF Whereabouts, Backs
<1>7. Waited'
    BY <1>1, <1>2, <1>3 DEF VideoInv, Waited, Settled, Pending
<1>8. Written' /\ GuiPalette'
    BY <1>1, <1>2 DEF Written, GuiPalette
<1> QED BY <1>4, <1>5, <1>6, <1>7, <1>8 DEF VideoInv

LEMMA EnterDoomStep == ASSUME VideoInv, EnterDoom PROVE VideoInv'
<1>0. VideoTypes
    BY DEF VideoInv
<1>1. /\ Settled /\ client' = "doom" /\ step' = "done" /\ frame' = NoFrame
      /\ since' = frames /\ frames' = frames /\ half' = half /\ before' = before
      /\ snip' = snip
      /\ hw' = hw /\ bank' = bank /\ sdram' = sdram /\ palette' = palette
      /\ own' = [back |-> BackAtInit, mask |-> {}, available |-> TRUE,
                 changed |-> FALSE, staged |-> ~hw.direct]
    BY DEF EnterDoom, AtPrompt, display
<1>2. /\ frames \in Nat /\ NoFrame \in Frames /\ NoFrame.n = 0
      /\ hw.direct \in BOOLEAN /\ hw.internal \in 0 .. 1 /\ hw.front \in 0 .. 1
      /\ MaxFrames \in Nat
    BY <1>0, VideoAssumption DEF VideoTypes, VideoTypeOK, Display, NoFrame, Frames
<1>3. BackAtInit \in 0 .. 1
      /\ 1 - BackAtInit = (IF hw.direct THEN hw.internal ELSE hw.front)
    BY <1>2 DEF BackAtInit
<1>4. own' \in Own /\ own'.mask = {} /\ own'.staged = (~hw.direct)
      /\ own'.back = BackAtInit
    BY <1>1, <1>2, <1>3 DEF Own
<1>5. /\ Coming' /\ Uploaded' /\ Ages' /\ Saved' /\ FrameWhole'
      /\ \A b \in 0 .. 1, h \in Halves : ~(bank'[b][h].n > since')
    <2>1. frame'.n <= frames' /\ frames' \in {frames, frames + 1}
          /\ step' \in {"copy", "idle", "done"}
        BY <1>1, <1>2
    <2> QED BY <1>1, <1>4, <2>1, Entered
<1>6. VideoTypes'
    <2>1. step' \in Steps
        BY <1>1 DEF Steps
    <2> QED BY <1>0, <1>1, <1>2, <1>4, <2>1 DEF VideoTypes, VideoTypeOK, Own
<1>7. Whereabouts'
    BY <1>1, <1>4 DEF Whereabouts
<1>8. Waited'
    BY <1>1, <1>4 DEF VideoInv, Waited, Settled, Pending
<1>9. Backs'
    <2>1. Shows(1 - own.back)'
        BY <1>1, <1>3, <1>4 DEF Shows
    <2>2. ~(Shown'[1].n > since')
        BY <1>1, <1>2, <1>5, 1 \in Halves DEF Shown, Halves
    <2>3. ~hw'.stuck => ~Pending'
        BY <1>1 DEF Settled, Pending
    <2> QED BY <1>1, <2>1, <2>2, <2>3 DEF Backs
<1>10. Written' /\ GuiPalette'
    BY <1>1 DEF Written, GuiPalette
<1> QED BY <1>5, <1>6, <1>7, <1>8, <1>9, <1>10 DEF VideoInv

LEMMA EnterGuiStep == ASSUME VideoInv, EnterGui PROVE VideoInv'
<1>0. VideoTypes
    BY DEF VideoInv
<1>1. /\ Settled /\ client' = "gui" /\ step' = "idle" /\ since' = frames
      /\ own' = [back |-> 1 - hw.internal, mask |-> {}, available |-> TRUE,
                 changed |-> FALSE, staged |-> FALSE]
      /\ Draws("gui")
    BY DEF EnterGui, AtPrompt
<1>2. /\ frame' \in Frames /\ frame'.pal = "gui" /\ frame'.n = frames'
      /\ frames' = frames + 1 /\ frames' \in Nat /\ frames' <= MaxFrames
      /\ half' = 1 /\ before' = before /\ snip' = snip
      /\ hw' = hw /\ bank' = bank /\ sdram' = sdram /\ palette' = palette
    BY <1>0, <1>1, DrawnIs
<1>3. frames \in Nat /\ 1 - hw.internal \in 0 .. 1
    BY <1>0, Fields
<1>4. own' \in Own /\ own'.mask = {} /\ ~own'.staged /\ ~own'.changed
    BY <1>1, <1>3 DEF Own
<1>5. /\ Coming' /\ Uploaded' /\ Ages' /\ Saved' /\ FrameWhole'
      /\ \A b \in 0 .. 1, h \in Halves : ~(bank'[b][h].n > since')
    <2>1. frame'.n <= frames' /\ frames' \in {frames, frames + 1}
          /\ step' \in {"copy", "idle", "done"}
        BY <1>1, <1>2
    <2> QED BY <1>1, <1>2, <1>4, <2>1, Entered
<1>6. VideoTypes'
    <2>1. step' \in Steps /\ half' \in Halves
        BY <1>1, <1>2 DEF Steps, Halves
    <2>2. since' \in Nat /\ since' <= frames'
        BY <1>1, <1>2, <1>3
    <2> QED BY <1>0, <1>1, <1>2, <1>4, <2>1, <2>2 DEF VideoTypes, VideoTypeOK, Own
<1>7. Whereabouts' /\ Backs'
    BY <1>1 DEF Whereabouts, Backs
<1>8. Waited'
    BY <1>1, <1>2 DEF VideoInv, Waited, Settled, Pending
<1>9. Written'
    BY <1>1, <1>4 DEF Written
<1>10. GuiPalette'
    BY <1>2, <1>4, <1>5 DEF GuiPalette
<1> QED BY <1>5, <1>6, <1>7, <1>8, <1>9, <1>10 DEF VideoInv


LEMMA DoomFrameStep == ASSUME VideoInv, DoomFrame PROVE VideoInv'
<1>0. VideoTypes
    BY DEF VideoInv
<1>1. PICK p \in Palettes :
          own' = [own EXCEPT !.changed = own.changed \/ p # frame.pal] /\ Draws(p)
    BY DEF DoomFrame
<1>2. /\ client = "doom" /\ client' = "doom" /\ step = "done" /\ since' = since
      /\ step' = (IF own.available THEN Plan[1] ELSE "done")
    BY DEF DoomFrame
<1>3. /\ frame' \in Frames /\ frame'.pal = p /\ frame'.n = frames'
      /\ frames' = frames + 1 /\ frames' \in Nat /\ frames' <= MaxFrames
      /\ half' = 1 /\ before' = before /\ snip' = snip
      /\ hw' = hw /\ bank' = bank /\ sdram' = sdram /\ palette' = palette
    BY <1>0, <1>1, <1>2, DrawnIs
<1>4. /\ own' \in Own /\ own'.staged = own.staged /\ own'.mask = own.mask
      /\ own'.back = own.back
      /\ own'.changed = (own.changed \/ p # frame.pal)
    <2> DEFINE c == own.changed \/ p # frame.pal
    <2>1. own \in Own /\ c \in BOOLEAN
        BY <1>0 DEF VideoTypes, Own
    <2>2. own' = [own EXCEPT !.changed = c]
        BY <1>1
    <2> HIDE DEF c
    <2>3. /\ own' \in Own /\ own'.staged = own.staged /\ own'.mask = own.mask
          /\ own'.back = own.back /\ own'.changed = c
        BY <2>1, <2>2 DEF Own
    <2> QED BY <2>3 DEF c
<1>5. step' \in {"copy", "idle", "done"}
      /\ (step' = "copy" => own.staged) /\ (step' = "idle" => ~own.staged)
    BY <1>2, FollowingIs
<1>6. Shown' = Shown /\ Pending' = Pending /\ Hidden' = Hidden
    BY <1>3 DEF Shown, Pending, Hidden
<1>7. VideoTypes'
    <2>1. step' \in Steps
        BY <1>5 DEF Steps
    <2>2. half' \in Halves
        BY <1>3 DEF Halves
    <2>3. since' <= frames' /\ since' \in Nat
        BY <1>0, <1>2, <1>3 DEF VideoTypes
    <2> QED BY <1>0, <1>2, <1>3, <1>4, <2>1, <2>2, <2>3 DEF VideoTypes, VideoTypeOK, Own
<1>8. Whereabouts' /\ Saved'
    <2>1. Saved'
        BY <1>3, <1>5, SavedKept DEF VideoInv, Saving
    <2> QED BY <1>2, <1>3, <1>4, <1>5, <2>1 DEF VideoInv, Whereabouts
<1>9. Waited'
    BY <1>2, <1>3, <1>4, <1>5, <1>6 DEF VideoInv, Waited
<1>10. Backs'
    <2>1. Shows(1 - own.back)' = Shows(1 - own.back)
        BY <1>3, <1>4 DEF Shows
    <2>2. /\ ~hw.stuck =>
                 IF Pending
                 THEN /\ hw.next.buffer = 1 - own.back /\ hw.next.staged = own.staged
                      /\ hw.next.indexed
                 ELSE Shows(1 - own.back)
          /\ ~own.staged /\ hw.valid /\ Shown[1].n > since => hw.front = hw.internal
        BY <1>2 DEF VideoInv, Backs
    <2> QED BY <1>2, <1>3, <1>4, <1>5, <1>6, <2>1, <2>2 DEF Backs
<1>11. Coming'
    <2>1. hw.pending = "copy" => hw.stuck
        BY <1>2 DEF VideoInv, Waited
    <2> QED BY <1>3, <1>5, <1>6, <2>1 DEF VideoInv, Coming
<1>12. Written'
    BY <1>2, <1>3, <1>4, <1>5 DEF Written
<1>13. Uploaded'
    <2>1. ~own'.changed => ~own.changed /\ p = frame.pal
        BY <1>4
    <2>2. ~own.changed => \A b \in own.mask : palette[b] = Whole(frame.pal)
        BY DEF VideoInv, Uploaded
    <2> QED BY <1>3, <1>4, <1>5, <2>1, <2>2 DEF Uploaded
<1>14. GuiPalette'
    BY <1>2 DEF GuiPalette
<1>15. Ages'
    <2>1. frame'.n <= frames'
        BY <1>3
    <2> QED BY <1>0, <1>3, <2>1, AgesKept DEF VideoInv
<1>16. FrameWhole'
    BY <1>2, <1>3, <1>6 DEF VideoInv, FrameWhole
<1> QED BY <1>7, <1>8, <1>9, <1>10, <1>11, <1>12, <1>13, <1>14, <1>15, <1>16
        DEF VideoInv

LEMMA GuiRefreshStep == ASSUME VideoInv, GuiRefresh PROVE VideoInv'
<1>0. VideoTypes
    BY DEF VideoInv
<1>1. /\ client = "gui" /\ client' = "gui" /\ step = "done" /\ since' = since
      /\ step' = (IF own'.staged THEN "copy" ELSE "idle")
      /\ Draws("gui")
    BY DEF GuiRefresh
<1>2. /\ frame' \in Frames /\ frame'.pal = "gui" /\ frame'.n = frames'
      /\ frames' = frames + 1 /\ frames' \in Nat /\ frames' <= MaxFrames
      /\ half' = 1 /\ before' = before /\ snip' = snip
      /\ hw' = hw /\ bank' = bank /\ sdram' = sdram /\ palette' = palette
    BY <1>0, <1>1, DrawnIs
<1>3. /\ own' \in Own /\ own'.changed = own.changed
      /\ own'.mask = own.mask \/ own'.mask = {}
    <2>1. own \in Own
        BY <1>0 DEF VideoTypes
    <2>2. CASE own' = own
        BY <2>1, <2>2
    <2>3. CASE own' = [own EXCEPT !.staged = ~own.staged, !.mask = {}]
        BY <2>1, <2>3 DEF Own
    <2>4. CASE own' = [own EXCEPT !.staged = FALSE, !.mask = {}]
        BY <2>1, <2>4 DEF Own
    <2> QED BY <2>2, <2>3, <2>4 DEF GuiRefresh
<1>4. /\ ~Pending /\ ~hw.stuck /\ frame.pal = "gui" /\ ~own.changed
    BY <1>1 DEF VideoInv, Waited, GuiPalette
<1>5. Shown' = Shown /\ Pending' = Pending /\ hw.pending = "none"
    BY <1>2, <1>4 DEF Shown, Pending
<1>6. VideoTypes'
    <2>1. step' \in Steps
        BY <1>1 DEF Steps
    <2>2. half' \in Halves
        BY <1>2 DEF Halves
    <2>3. since' <= frames' /\ since' \in Nat
        BY <1>0, <1>1, <1>2 DEF VideoTypes
    <2> QED BY <1>0, <1>1, <1>2, <1>3, <2>1, <2>2, <2>3 DEF VideoTypes, VideoTypeOK, Own
<1>7. Whereabouts' /\ Saved'
    <2>1. Saved'
        BY <1>1, <1>2, SavedKept DEF VideoInv, Saving
    <2> QED BY <1>1, <2>1 DEF Whereabouts
<1>8. Waited'
    BY <1>1, <1>2, <1>4, <1>5 DEF Waited
<1>9. Backs'
    BY <1>1 DEF Backs
<1>10. Coming'
    BY <1>1, <1>2, <1>5 DEF Coming, Pending
<1>11. Written'
    BY <1>1, <1>2 DEF Written
<1>12. Uploaded'
    <2>1. \A b \in own.mask : palette[b] = Whole("gui")
        BY <1>4 DEF VideoInv, Uploaded
    <2> QED BY <1>1, <1>2, <1>3, <2>1 DEF Uploaded
<1>13. GuiPalette'
    BY <1>1, <1>2, <1>3, <1>4 DEF VideoInv, GuiPalette
<1>14. Ages'
    <2>1. frame'.n <= frames'
        BY <1>2
    <2> QED BY <1>0, <1>2, <2>1, AgesKept DEF VideoInv
<1>15. FrameWhole'
    BY <1>1, <1>2, <1>5 DEF VideoInv, FrameWhole
<1> QED BY <1>6, <1>7, <1>8, <1>9, <1>10, <1>11, <1>12, <1>13, <1>14, <1>15
        DEF VideoInv

\* The steps of a client that is done with its pictures.
LEMMA DoneSteps ==
    ASSUME VideoInv, Saved', snip' \in Snip,
           UNCHANGED <<display, half, own, frame, before, since, frames>>,
           step \in {"done", "clear magic"} \cup Saving,
           step' \in {"prompt", "clear magic"} \cup Saving,
           client' \in {client, "monitor"},
           step' = "prompt" => client' = "monitor",
           client' # "gui"
    PROVE  VideoInv'
<1>0. VideoTypes
    BY DEF VideoInv
<1>1. /\ hw' = hw /\ bank' = bank /\ sdram' = sdram /\ palette' = palette
      /\ own' = own /\ half' = half /\ frame' = frame /\ before' = before
      /\ since' = since /\ frames' = frames
      /\ Pending' = Pending /\ Shown' = Shown
    BY DEF display, Pending, Shown
<1>2. /\ step \notin {"copy", "idle", "upload", "present", "await"}
      /\ step' \notin {"copy", "idle", "upload", "present", "await", "done"}
    BY DEF Saving
<1>3. VideoTypes'
    <2>1. step' \in Steps
        BY DEF Steps, Saving
    <2> QED BY <1>0, <1>1, <2>1 DEF VideoTypes, VideoTypeOK
<1>4. Whereabouts'
    BY <1>1, <1>2 DEF VideoInv, Whereabouts
<1>5. Waited'
    BY <1>1, <1>2 DEF VideoInv, Waited
<1>6. Backs'
    BY <1>1, <1>2 DEF VideoInv, Backs, Shows
<1>7. Coming'
    <2>1. Hidden' = Hidden
        BY <1>1 DEF Hidden
    <2> QED BY <1>1, <1>2, <2>1 DEF VideoInv, Coming, Waited
<1>8. Written' /\ Uploaded'
    BY <1>1, <1>2 DEF VideoInv, Written, Uploaded
<1>9. GuiPalette' /\ Ages' /\ FrameWhole'
    BY <1>1 DEF VideoInv, GuiPalette, Ages, FrameWhole
<1> QED BY <1>3, <1>4, <1>5, <1>6, <1>7, <1>8, <1>9 DEF VideoInv

\* A save that is cut short is never valid: the magic word is cleared first and
\* set last.
LEMMA CacheSaveStep == ASSUME VideoInv, CacheSave PROVE VideoInv'
<1>0. VideoTypes
    BY DEF VideoInv
<1>1. /\ snip \in Snip /\ frame \in Frames /\ 1 \in Halves /\ 2 \in Halves
      /\ snip.pixels \in [Halves -> Frames]
    BY <1>0, Fields DEF VideoTypes, Snip, Halves
<1>2. UNCHANGED <<display, half, own, frame, before, since, frames>>
    BY DEF CacheSave, Caches, CacheDone
<1>3. CASE Caches("clear magic", "header", Cleared)
    <2>1. snip' \in Snip /\ ~snip'.magic /\ client' = client
          /\ step = "clear magic" /\ step' = "header"
        BY <1>1, <1>3 DEF Caches, Cleared, Snip
    <2>2. Saved'
        BY <2>1 DEF Saved, SnipValid, Saving
    <2>3. client # "gui"
        BY <2>1 DEF VideoInv, Whereabouts
    <2> QED BY <1>2, <2>1, <2>2, <2>3, DoneSteps DEF Saving
<1>4. CASE Caches("header", "first half", [snip EXCEPT !.header = frame])
    <2>1. snip' \in Snip /\ snip'.magic = snip.magic /\ snip'.header = frame
          /\ client' = client /\ step = "header" /\ step' = "first half"
        BY <1>1, <1>4 DEF Caches, Snip
    <2>2. ~snip.magic /\ client # "gui"
        BY <2>1 DEF VideoInv, Whereabouts, Saved, Saving
    <2>3. Saved'
        BY <1>2, <2>1, <2>2 DEF Saved, SnipValid, Saving
    <2> QED BY <1>2, <2>1, <2>2, <2>3, DoneSteps DEF Saving
<1>5. CASE Caches("first half", "second half", [snip EXCEPT !.pixels[1] = frame])
    <2>1. snip' \in Snip /\ snip'.magic = snip.magic /\ snip'.header = snip.header
          /\ snip'.pixels[1] = frame
          /\ client' = client /\ step = "first half" /\ step' = "second half"
        BY <1>1, <1>5 DEF Caches, Snip
    <2>2. ~snip.magic /\ client # "gui" /\ snip.header = frame
        BY <2>1 DEF VideoInv, Whereabouts, Saved, Saving
    <2>3. Saved'
        BY <1>2, <2>1, <2>2 DEF Saved, SnipValid, Saving
    <2> QED BY <1>2, <2>1, <2>2, <2>3, DoneSteps DEF Saving
<1>6. CASE Caches("second half", "set inverse", [snip EXCEPT !.pixels[2] = frame])
    <2>1. snip' \in Snip /\ snip'.magic = snip.magic /\ snip'.header = snip.header
          /\ snip'.pixels[1] = snip.pixels[1] /\ snip'.pixels[2] = frame
          /\ client' = client /\ step = "second half" /\ step' = "set inverse"
        <3> DEFINE p == [snip.pixels EXCEPT ![2] = frame]
        <3>1. p \in [Halves -> Frames] /\ p[1] = snip.pixels[1] /\ p[2] = frame
            BY <1>1
        <3>2. snip' = [snip EXCEPT !.pixels = p]
            BY <1>6 DEF Caches
        <3> HIDE DEF p
        <3>3. /\ snip' \in Snip /\ snip'.magic = snip.magic
              /\ snip'.header = snip.header /\ snip'.pixels = p
            BY <1>1, <3>1, <3>2 DEF Snip
        <3> QED BY <1>6, <3>1, <3>3 DEF Caches
    <2>2. /\ ~snip.magic /\ client # "gui" /\ snip.header = frame
          /\ snip.pixels[1] = frame
        BY <2>1 DEF VideoInv, Whereabouts, Saved, Saving
    <2>3. Saved'
        BY <1>2, <2>1, <2>2 DEF Saved, SnipValid, Saving
    <2> QED BY <1>2, <2>1, <2>2, <2>3, DoneSteps DEF Saving
<1>7. CASE Caches("set inverse", "set magic", [snip EXCEPT !.inverse = TRUE])
    <2>1. snip' \in Snip /\ snip'.magic = snip.magic /\ snip'.header = snip.header
          /\ snip'.pixels = snip.pixels
          /\ client' = client /\ step = "set inverse" /\ step' = "set magic"
        BY <1>1, <1>7 DEF Caches, Snip
    <2>2. /\ ~snip.magic /\ client # "gui" /\ snip.header = frame
          /\ snip.pixels[1] = frame /\ snip.pixels[2] = frame
        BY <2>1 DEF VideoInv, Whereabouts, Saved, Saving
    <2>3. Saved'
        BY <1>2, <2>1, <2>2 DEF Saved, SnipValid, Saving
    <2> QED BY <1>2, <2>1, <2>2, <2>3, DoneSteps DEF Saving
<1>8. CASE CacheDone
    <2>1. snip' \in Snip /\ snip'.header = snip.header /\ snip'.pixels = snip.pixels
          /\ client' = "monitor" /\ step = "set magic" /\ step' = "prompt"
        BY <1>1, <1>8 DEF CacheDone, Snip
    <2>2. snip.header = frame /\ snip.pixels[1] = frame /\ snip.pixels[2] = frame
        BY <2>1 DEF VideoInv, Saved, Saving
    <2>3. snip.pixels = Whole(snip.header)
        BY <1>1, <2>2, HalvesAre
    <2>4. Saved'
        BY <2>1, <2>3 DEF Saved, Saving
    <2> QED BY <1>2, <2>1, <2>4, DoneSteps DEF Saving
<1> QED BY <1>3, <1>4, <1>5, <1>6, <1>7, <1>8 DEF CacheSave

LEMMA LeaveStep ==
    ASSUME VideoInv, PatternDone \/ DoomExits \/ GuiQuits PROVE VideoInv'
<1>1. /\ UNCHANGED <<display, half, own, frame, before, since, frames>>
      /\ snip' = snip /\ step = "done" /\ step' \in {"prompt", "clear magic"}
      /\ client' \in {client, "monitor"} /\ client' # "gui"
      /\ step' = "prompt" => client' = "monitor"
    BY DEF PatternDone, DoomExits, GuiQuits, KeepsRest
<1>2. snip \in Snip
    BY DEF VideoInv, VideoTypes
<1>3. Saved'
    BY <1>1, SavedKept DEF VideoInv, Saving
<1> QED BY <1>1, <1>2, <1>3, DoneSteps

----------------------------------------------------------------------------
LEMMA StartIs ==
    ASSUME NEW direct \in BOOLEAN, NEW early \in BOOLEAN
    PROVE  /\ Start(direct, early) \in Display
           /\ Start(direct, early).pending = "none"
           /\ ~Start(direct, early).valid /\ ~Start(direct, early).stuck
           /\ Start(direct, early).direct = direct
BY VideoAssumption DEF Start, Display

LEMMA ResetStep == ASSUME VideoInv, Reset PROVE VideoInv'
<1>0. VideoTypes
    BY DEF VideoInv
<1>1. /\ client' = "monitor" /\ step' = "prompt" /\ half' = 1 /\ own' = NoState
      /\ frame' = NoFrame /\ before' = 0 /\ since' = frames /\ frames' = frames
      /\ bank' = bank /\ sdram' = sdram /\ palette' = palette /\ snip' = snip
      /\ hw' = Start(hw.direct, hw.early)
    BY DEF Reset
<1>2. /\ hw' \in Display /\ hw'.pending = "none" /\ ~hw'.valid /\ ~hw'.stuck
    <2>1. hw.direct \in BOOLEAN /\ hw.early \in BOOLEAN
        BY <1>0 DEF VideoTypes, Display
    <2> QED BY <1>1, <2>1, StartIs
<1>3. /\ NoFrame \in Frames /\ NoFrame.n = 0 /\ frames \in Nat
      /\ NoState \in Own /\ NoState.mask = {} /\ NoState.staged
    BY <1>0, VideoAssumption DEF VideoTypes, NoFrame, Frames, NoState, Own
<1>4. VideoTypes'
    <2>1. step' \in Steps
        BY <1>1 DEF Steps
    <2>2. half' \in Halves /\ before' \in 0 .. (CountMod - 1)
        BY <1>1, VideoAssumption DEF Halves
    <2> QED BY <1>0, <1>1, <1>2, <1>3, <2>1, <2>2
            DEF VideoTypes, VideoTypeOK, Own, Display
<1>5. Whereabouts' /\ Waited' /\ Backs'
    BY <1>1, <1>2 DEF Whereabouts, Waited, Backs
<1>6. Coming' /\ Written' /\ GuiPalette' /\ FrameWhole'
    BY <1>1, <1>2 DEF Coming, Pending, Written, GuiPalette, FrameWhole
<1>7. Uploaded'
    BY <1>1, <1>3 DEF Uploaded
<1>8. Ages'
    <2>1. frame'.n <= frames'
        BY <1>1, <1>3
    <2> QED BY <1>0, <1>1, <2>1, AgesKept DEF VideoInv
<1>9. Saved'
    BY <1>1, SavedKept DEF VideoInv, Saving
<1> QED BY <1>4, <1>5, <1>6, <1>7, <1>8, <1>9 DEF VideoInv

LEMMA InitVideoInv == VideoInit => VideoInv
<1> SUFFICES ASSUME VideoInit PROVE VideoInv
    OBVIOUS
<1>1. PICK direct \in BOOLEAN, early \in BOOLEAN : hw = Start(direct, early)
    BY DEF VideoInit
<1>2. hw \in Display /\ hw.pending = "none" /\ ~hw.valid /\ ~hw.stuck
    BY <1>1, StartIs
<1>3. /\ bank = [b \in 0 .. 1 |-> Whole(NoFrame)]
      /\ sdram = [b \in {0, 1, Work} |-> Whole(NoFrame)]
      /\ palette = [b \in 0 .. 1 |-> Whole("rgb332")]
      /\ snip = [magic |-> FALSE, inverse |-> FALSE, header |-> NoFrame,
                 pixels |-> Whole(NoFrame)]
      /\ client = "monitor" /\ step = "prompt" /\ half = 1
      /\ own = NoState /\ frame = NoFrame /\ before = 0 /\ since = 0 /\ frames = 0
    BY DEF VideoInit
<1>4. /\ NoFrame \in Frames /\ NoFrame.n = 0
      /\ NoState \in Own /\ NoState.mask = {} /\ NoState.staged
    BY VideoAssumption DEF NoFrame, Frames, NoState, Own
<1>5. Whole(NoFrame) \in [Halves -> Frames]
      /\ \A h \in Halves : Whole(NoFrame)[h] = NoFrame
    BY <1>4 DEF Whole
<1>6. Whole("rgb332") \in [Halves -> Palettes \cup {"gui", "rgb332"}]
    BY DEF Whole
<1>7. VideoTypes
    <2>1. step \in Steps /\ snip \in Snip
        BY <1>3, <1>4, <1>5 DEF Steps, Snip
    <2>2. half \in Halves /\ before \in 0 .. (CountMod - 1)
        BY <1>3, VideoAssumption DEF Halves
    <2>3. since \in Nat /\ frames \in Nat /\ since <= frames /\ frames <= MaxFrames
        BY <1>3, VideoAssumption
    <2>4. /\ bank \in [0 .. 1 -> [Halves -> Frames]]
          /\ sdram \in [{0, 1, Work} -> [Halves -> Frames]]
          /\ palette \in [0 .. 1 -> [Halves -> Palettes \cup {"gui", "rgb332"}]]
        BY <1>3, <1>5, <1>6
    <2> QED BY <1>2, <1>3, <1>4, <2>1, <2>2, <2>3, <2>4
            DEF VideoTypes, VideoTypeOK, Own, Display
<1>8. Whereabouts /\ Waited /\ Backs
    BY <1>2, <1>3 DEF Whereabouts, Waited, Backs
<1>9. Coming /\ Written /\ GuiPalette /\ FrameWhole
    BY <1>2, <1>3 DEF Coming, Pending, Written, GuiPalette, FrameWhole
<1>10. Uploaded
    BY <1>3, <1>4 DEF Uploaded
<1>11. Ages
    BY <1>3, <1>4, <1>5 DEF Ages
<1>12. Saved
    BY <1>3 DEF Saved, SnipValid, Saving
<1> QED BY <1>7, <1>8, <1>9, <1>10, <1>11, <1>12 DEF VideoInv

LEMMA SameVideo == ASSUME VideoInv, UNCHANGED videoVars PROVE VideoInv'
<1>1. /\ hw' = hw /\ bank' = bank /\ sdram' = sdram /\ palette' = palette
      /\ snip' = snip /\ client' = client /\ step' = step /\ half' = half
      /\ own' = own /\ frame' = frame /\ before' = before /\ since' = since
      /\ frames' = frames
    BY DEF videoVars, display
<1>2. VideoTypes'
    BY <1>1 DEF VideoInv, VideoTypes, VideoTypeOK
<1>3. Whereabouts' /\ Saved' /\ Ages'
    BY <1>1 DEF VideoInv, Whereabouts, Saved, SnipValid, Ages
<1>4. Waited' /\ Backs' /\ Coming'
    BY <1>1 DEF VideoInv, Waited, Backs, Coming, Pending, Shows, Shown, Hidden
<1>5. Written' /\ Uploaded' /\ GuiPalette' /\ FrameWhole'
    BY <1>1 DEF VideoInv, Written, Uploaded, GuiPalette, FrameWhole, Shown, Buffer,
                PaletteBank
<1> QED BY <1>2, <1>3, <1>4, <1>5 DEF VideoInv

LEMMA VideoNextInv == VideoInv /\ [VideoNext]_videoVars => VideoInv'
<1> SUFFICES ASSUME VideoInv, [VideoNext]_videoVars PROVE VideoInv'
    OBVIOUS
<1>1. CASE Copy \/ Swap \/ Stick
    BY <1>1, CopyStep, SwapStep, StickStep
<1>2. CASE CopyHalf \/ WaitIdle \/ UploadHalf
    BY <1>2, CopyHalfStep, WaitIdleStep, UploadHalfStep
<1>3. CASE Present \/ Await \/ TimesOut
    BY <1>3, PresentStep, AwaitStep, TimesOutStep
<1>4. CASE Pattern \/ EnterDoom \/ EnterGui
    BY <1>4, PatternStep, EnterDoomStep, EnterGuiStep
<1>5. CASE DoomFrame \/ GuiRefresh
    BY <1>5, DoomFrameStep, GuiRefreshStep
<1>6. CASE PatternDone \/ DoomExits \/ GuiQuits
    BY <1>6, LeaveStep
<1>7. CASE CacheSave \/ Reset \/ UNCHANGED videoVars
    BY <1>7, CacheSaveStep, ResetStep, SameVideo
<1> QED BY <1>1, <1>2, <1>3, <1>4, <1>5, <1>6, <1>7 DEF VideoNext

\* What a request of the screen-snip tool is answered with.
LEMMA SnipIsWhole == VideoInv => SnipWhole
<1> SUFFICES ASSUME VideoInv, Answers
             PROVE  /\ Answer.pixels = Whole(Answer.header)
                    /\ client = "gui" => Answer.pixels = Shown
    BY DEF SnipWhole
<1>1. client \in {"monitor", "doom", "gui"}
    BY DEF VideoInv, VideoTypes, VideoTypeOK
<1>2. CASE client = "doom"
    BY <1>2 DEF Answer, doom_screen_snip_send
<1>3. CASE client = "gui"
    <2>1. step = "done"
        BY <1>3 DEF Answers, VideoInv, Whereabouts
    <2>2. Shown = Whole(frame) /\ (own.staged => sdram[Work] = Whole(frame))
        BY <1>3, <2>1 DEF VideoInv, Written
    <2> QED BY <1>3, <2>2 DEF Answer, gui_screen_snip_send
<1>4. CASE client = "monitor"
    <2>1. Answer = screen_snip_send_cached
        BY <1>4 DEF Answer
    <2>2. SnipValid => snip.pixels = Whole(snip.header)
        BY DEF VideoInv, Saved
    <2> QED BY <1>4, <2>1, <2>2 DEF screen_snip_send_cached, NAK
<1> QED BY <1>1, <1>2, <1>3, <1>4

\* The inductive invariant of the display and its clients
\* (src/doom/doomgeneric_hazard3.c, src/src/main.c, src/src/i2cdriver_hdmi.c).
THEOREM VideoInvariant == VideoSpec => []VideoInv
BY InitVideoInv, VideoNextInv, PTL DEF VideoSpec

\* The display's registers and banks, and what its clients hold, keep their types.
THEOREM VideoTypeCorrect == VideoSpec => []VideoTypeOK
<1>1. VideoInv => VideoTypeOK
    BY DEF VideoInv, VideoTypes
<1> QED BY <1>1, VideoInvariant, PTL

\* What is shown is one whole picture in its own colours: present_frame and
\* wait_for_dma_complete of src/doom/doomgeneric_hazard3.c and their like never
\* write a bank or a palette that is in use.
THEOREM FrameWholeCorrect == VideoSpec => []FrameWhole
<1>1. VideoInv => FrameWhole
    BY DEF VideoInv
<1> QED BY <1>1, VideoInvariant, PTL

\* The picture that is sent to the screen-snip tool is a whole one, also after a
\* reset in the middle of a save (screen_snip_cache_save_rgb332 of
\* src/src/main.c, hazard3_doom_screen_snip_cache).
THEOREM SnipWholeCorrect == VideoSpec => []SnipWhole
BY SnipIsWhole, VideoInvariant, PTL

=============================================================================

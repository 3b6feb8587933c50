----------------------------- MODULE DoomInput -----------------------------
(***************************************************************************)
(* Keyboard input of the Doom image (src/doom/doomgeneric_hazard3.c) and   *)
(* the loop that runs Doom (src/doom/doom_image_main.c).  A terminal sends *)
(* characters and no key-ups, so a character holds its key for a while,    *)
(* and an arrow key is a sequence of three characters.  DG_GetKey is       *)
(* called again and again until it has nothing more to report, once per    *)
(* tic; frames take their time in between.                                 *)
(*                                                                         *)
(* The clock is a counter that wraps; its differences are read as signed.  *)
(* The characters of one stroke arrive within one unit of it, but not      *)
(* necessarily between the same two calls.                                 *)
(***************************************************************************)
EXTENDS Integers, Sequences

CONSTANTS
    Char,           \* characters
    Strokes,        \* what may be typed: sequences of them
    TimeMod,        \* the clock wraps here
    Hold,           \* HAZARD3_UART_KEY_HOLD_MS
    EscapeTimeout,  \* HAZARD3_ESCAPE_SEQUENCE_TIMEOUT_MS
    MaxFrame,       \* the longest time between two scans
    MaxStrokes      \* bound on what is typed

ASSUME InputAssumption ==
    /\ "none" \notin Char
    /\ TimeMod \in Nat \ {0} /\ Hold \in Nat /\ EscapeTimeout \in Nat
    /\ MaxFrame \in Nat /\ MaxStrokes \in Nat
    /\ 2 * (Hold + MaxFrame) <= TimeMod
    /\ Strokes \subseteq Seq(Char)

VARIABLES
    now,            \* hazard3_ticks_ms
    wire,           \* characters of a stroke on their way
    strokes, typed, \* how many strokes were made, and which
    ring,           \* characters that have arrived
    pc,             \* of doom_image_main
    status,         \* what doom_image_main returns
    in,             \* the static variables of doomgeneric_hazard3.c
    held,           \* the key that Doom was told is down
    age,            \* for how long
    idle            \* since the last scan

Digits == {"1", "2", "3", "4", "5", "6", "7"}

Key ==
    {"UP", "DOWN", "LEFT", "RIGHT", "STRAFE_L", "STRAFE_R", "FIRE", "USE",
     "TAB", "PAUSE", "ENTER", "ESCAPE"} \cup Digits

line == <<wire, strokes, typed>>
vars == <<now, line, ring, pc, status, in, held, age, idle>>

\* hazard3_doom_input_reset
NoInput ==
    [release |-> FALSE, code |-> "none", deadline |-> 0, stop |-> FALSE,
     exit |-> FALSE, escape |-> 0, escapeDeadline |-> 0, deferred |-> "none",
     snip |-> FALSE]

Init ==
    /\ now = 0
    /\ wire = <<>> /\ strokes = 0 /\ typed = {} /\ ring = <<>>
    /\ pc = "entry" /\ status = 0
    /\ in = NoInput
    /\ held = "none" /\ age = 0 /\ idle = 0

----------------------------------------------------------------------------
Type ==
    /\ pc \in {"scan", "frame"}
    /\ wire = <<>> /\ strokes < MaxStrokes
    /\ strokes' = strokes + 1
    /\ \E s \in Strokes : wire' = s /\ typed' = typed \cup {s}
    /\ UNCHANGED <<now, ring, pc, status, in, held, age, idle>>

Arrive ==
    /\ wire # <<>>
    /\ ring' = Append(ring, Head(wire))
    /\ wire' = Tail(wire)
    /\ UNCHANGED <<now, strokes, typed, pc, status, in, held, age, idle>>

Tick ==
    /\ wire = <<>>
    /\ pc \in {"scan", "frame"} /\ idle < MaxFrame
    /\ now' = (now + 1) % TimeMod
    /\ age' = IF held # "none" /\ age < Hold THEN age + 1 ELSE age
    /\ idle' = idle + 1
    /\ UNCHANGED <<line, ring, pc, status, in, held>>

----------------------------------------------------------------------------
\* Fault: the two times are compared as they are.
ReachedUnsigned(deadline) == now >= deadline

\* (int32_t)(now - deadline) >= 0
Reached(deadline) == 2 * ((now - deadline) % TimeMod) < TimeMod

After(interval) == (now + interval) % TimeMod

\* What a call is doing: its variables, the characters left, and what it
\* will report ("" as long as it goes on reading).
Call(i) == [in |-> i, ring |-> ring, event |-> "", key |-> "none"]

Returns(s, i, event, key) == [s EXCEPT !.in = i, !.event = event, !.key = key]

\* It goes on reading, at this place in a sequence.
Continues(s, place) ==
    [s EXCEPT !.in = [s.in EXCEPT !.escape = place,
                                  !.escapeDeadline = After(EscapeTimeout)]]

\* What it has read is no sequence.
Drops(s) == [s EXCEPT !.in = [s.in EXCEPT !.escape = 0]]

uart_character_to_doom_key(c) ==
    CASE c \in {"w", "W"} -> "UP"
      [] c \in {"s", "S"} -> "DOWN"
      [] c \in {"a", "A"} -> "LEFT"
      [] c \in {"d", "D"} -> "RIGHT"
      [] c \in {"z", "Z"} -> "STRAFE_L"
      [] c \in {"c", "C"} -> "STRAFE_R"
      [] c \in {"f", "F", " "} -> "FIRE"
      [] c \in {"e", "E"} -> "USE"
      [] c \in {"m", "M", "tab"} -> "TAB"
      [] c \in {"p", "P"} -> "PAUSE"
      [] c \in {"return", "newline"} -> "ENTER"
      [] c = "esc" -> "ESCAPE"
      [] c \in Digits -> c
      [] OTHER -> "none"

\* The last character of a sequence.
ArrowOf(c) ==
    CASE c = "A" -> "UP" [] c = "B" -> "DOWN"
      [] c = "C" -> "RIGHT" [] c = "D" -> "LEFT"
      [] OTHER -> "none"

emit_key_down(s, i, key) ==
    Returns(s, [i EXCEPT !.release = TRUE, !.code = key,
                         !.deadline = After(Hold), !.stop = TRUE],
            "down", key)

\* Fault: the character after an escape is taken for a part of it.
DecodeSwallows(s, c) ==
    LET i == s.in IN
    IF i.escape = 1 /\ c \in {"[", "O"}
    THEN Continues(s, 2)
    ELSE IF i.escape = 1
    THEN emit_key_down(s, [i EXCEPT !.escape = 0], "ESCAPE")
    ELSE IF ArrowOf(c) # "none"
    THEN emit_key_down(s, [i EXCEPT !.escape = 0], ArrowOf(c))
    ELSE Drops(s)

decode_escape_sequence(s, c) ==
    LET i == s.in IN
    IF i.escape = 1 /\ c \in {"[", "O"}
    THEN Continues(s, 2)
    ELSE IF i.escape = 1
    THEN emit_key_down(s, [i EXCEPT !.escape = 0, !.deferred = c], "ESCAPE")
    ELSE IF ArrowOf(c) # "none"
    THEN emit_key_down(s, [i EXCEPT !.escape = 0], ArrowOf(c))
    ELSE Drops(s)

Nothing(s, i) == Returns(s, i, "none", "none")

Character(s, c) ==
    LET i == s.in IN
    CASE c = "capability" -> Nothing(s, i)
      [] c = "snip" -> Nothing(s, [i EXCEPT !.snip = TRUE])
      [] c \notin {"capability", "snip"} /\ i.escape # 0 ->
             decode_escape_sequence(s, c)
      [] c = "ctrlx" /\ i.escape = 0 -> Nothing(s, [i EXCEPT !.exit = TRUE])
      [] c = "esc" /\ i.escape = 0 ->
             Continues(s, 1)
      [] OTHER -> LET key == uart_character_to_doom_key(c) IN
                   IF key = "none" THEN s ELSE emit_key_down(s, i, key)

\* One turn of the loop, of which there are four.
Turn(s) ==
    IF s.event # "" THEN s
    ELSE IF s.in.deferred # "none"
    THEN Character([s EXCEPT !.in = [s.in EXCEPT !.deferred = "none"]],
                   s.in.deferred)
    ELSE IF s.ring = <<>> THEN Nothing(s, s.in)
    ELSE Character([s EXCEPT !.ring = Tail(@)], Head(s.ring))

Release(s) == Returns(s, [s.in EXCEPT !.release = FALSE], "up", s.in.code)

\* DG_GetKey
Result ==
    LET s == Call(in) IN
    IF in.stop THEN Nothing(s, [in EXCEPT !.stop = FALSE])
    ELSE IF in.release
    THEN IF Reached(in.deadline) THEN Release(s) ELSE Nothing(s, in)
    ELSE IF in.escape # 0 /\ Reached(in.escapeDeadline)
    THEN emit_key_down(s, [in EXCEPT !.escape = 0], "ESCAPE")
    ELSE Turn(Turn(Turn(Turn(s))))

Reports(r) ==
    CASE r.event = "down" -> held' = r.key /\ age' = 0
      [] r.event = "up" -> held' = "none" /\ age' = 0
      [] OTHER -> UNCHANGED <<held, age>>

DG_GetKey ==
    /\ pc = "scan"
    /\ \E r \in {Result} :
           /\ in' = r.in /\ ring' = r.ring
           /\ Reports(r)
           /\ pc' = IF r.event \in {"down", "up"} THEN "scan" ELSE "frame"
    /\ idle' = 0
    /\ UNCHANGED <<now, line, status>>

----------------------------------------------------------------------------
\* doom_image_main: the service table, the timer, and the first frame.
Return(code) ==
    /\ pc' = "returned" /\ status' = code
    /\ UNCHANGED <<now, line, ring, in, held, age, idle>>

Refuses ==
    /\ pc = "entry"
    /\ \E code \in {1, 2, 3} : Return(code)

Enter ==
    /\ pc = "entry"
    /\ in' = NoInput
    /\ pc' = "scan"
    /\ UNCHANGED <<now, line, ring, status, held, age, idle>>

\* The rest of a tic: DG_DrawFrame sends the picture that was asked for.
Frame ==
    /\ pc = "frame" /\ ~in.exit
    /\ in' = [in EXCEPT !.snip = FALSE]
    /\ pc' = "scan"
    /\ UNCHANGED <<now, line, ring, status, held, age, idle>>

Leave ==
    /\ pc = "frame" /\ in.exit
    /\ Return(0)

Next ==
    \/ Type \/ Arrive \/ Tick
    \/ DG_GetKey
    \/ Refuses \/ Enter \/ Frame \/ Leave

Spec == Init /\ [][Next]_vars

\* Time passes, what was typed arrives, and Doom goes on.
FairSpec ==
    /\ Spec
    /\ WF_vars(Arrive) /\ WF_vars(Tick)
    /\ WF_vars(DG_GetKey \/ Enter \/ Frame \/ Leave)

----------------------------------------------------------------------------
TypeOK ==
    /\ now \in 0 .. (TimeMod - 1)
    /\ wire \in Seq(Char) /\ ring \in Seq(Char)
    /\ pc \in {"entry", "scan", "frame", "returned"}
    /\ status \in 0 .. 3
    /\ in \in [release : BOOLEAN, code : Key \cup {"none"},
               deadline : 0 .. (TimeMod - 1), stop : BOOLEAN, exit : BOOLEAN,
               escape : 0 .. 2, escapeDeadline : 0 .. (TimeMod - 1),
               deferred : Char \cup {"none"}, snip : BOOLEAN]
    /\ held \in Key \cup {"none"} /\ age \in 0 .. Hold

\* What the static variables plan is what Doom was told: a release is
\* pending exactly while a key is down, and it is the release of that key.
PlanIsTold == in.release = (held # "none") /\ (in.release => in.code = held)

\* Doom sees its keys one at a time, and down for long enough: a key goes
\* down only when none is, and it comes up after the hold time has passed,
\* over the wrap of the clock and however long the frames are.
KeysPaired ==
    [][/\ held' # held => held = "none" \/ held' = "none"
       /\ held # "none" /\ held' = "none" => age >= Hold]_vars

\* DG_GetKey drops a character that ends no arrow as the last one of an arrow's
\* sequence, Ctrl-X too.  This one is not: whatever begins a sequence ahead of
\* it, or has begun it, ends with another character that is no request for a
\* picture.
Heard(q, place, i) ==
    /\ q[i] = "ctrlx"
    /\ \A j \in 0 .. (i - 1) :
           (IF j = 0 THEN place = 2 ELSE q[j] \in {"[", "O"}) =>
               \E k \in (j + 1) .. (i - 1) : q[k] \notin {"capability", "snip"}

\* Ctrl-X returns to the monitor, after whatever was typed before it and
\* whatever key is being held, unless it is dropped with a sequence that was
\* left unfinished.
CtrlXExits ==
    (pc \in {"scan", "frame"} /\ \E i \in DOMAIN ring : Heard(ring, in.escape, i))
        ~> pc = "returned"

\* Doom is told of the Escape key only if it was pressed: an arrow key is
\* one key (the comment in DG_GetKey).
EscapeMeant == held = "ESCAPE" => <<"esc">> \in typed
=============================================================================

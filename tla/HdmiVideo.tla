----------------------------- MODULE HdmiVideo -----------------------------
(***************************************************************************)
(* The display and its three users, one after the other: the monitor's     *)
(* test pattern (src/src/main.c), Doom (src/doom/doomgeneric_hazard3.c)    *)
(* and the I2CDriver screen (src/src/i2cdriver_hdmi.c); and the cache in   *)
(* which the monitor and Doom leave a picture for the screen-snip tool.    *)
(*                                                                         *)
(* Two banks of block RAM hold the picture.  A presentation either swaps   *)
(* to the bank the program has written (direct), or first copies a buffer  *)
(* of SDRAM into the bank that is not shown (staged).  The colours of an   *)
(* indexed picture are those of the palette bank with the number of the    *)
(* buffer that was presented.  A picture is written in two halves, and     *)
(* both are the frame they belong to.                                      *)
(*                                                                         *)
(* A presentation ends in time or never: the code waits a second, sixty    *)
(* times as long as a frame lasts.                                         *)
(***************************************************************************)
EXTENDS Integers, Sequences

CONSTANTS
    Palettes,       \* those Doom sets
    CountMod,       \* PRESENT_COUNT wraps here
    MaxFrames,      \* bound on the frames drawn
    MaxResets       \* bound on the resets

ASSUME VideoAssumption ==
    /\ {"gui", "rgb332"} \cap Palettes = {} /\ Palettes # {}
    /\ CountMod \in Nat \ {0, 1} /\ MaxFrames \in Nat /\ MaxResets \in Nat

VARIABLES
    hw,             \* the registers of the display
    bank,           \* block RAM: two halves each
    sdram,          \* the buffers 0 and 1, and the work buffer of the GUI
    palette,        \* the palette banks: two halves each
    snip,           \* the screen-snip cache
    client, step,   \* who runs, and where it is
    half,           \* the half that is written next
    own,            \* the static variables of the client
    frame,          \* the picture it draws
    before,         \* present_count_before
    since,          \* the frames drawn before the client was entered
    frames, resets  \* for the bounds

display == <<hw, bank, sdram, palette>>
videoVars == <<display, snip, client, step, half, own, frame, before, since,
               frames, resets>>

Halves == 1 .. 2
Work == 2       \* the work buffer, HAZARD3_VIDEO_GUI_FRAMEBUFFER_BASE
Whole(x) == [h \in Halves |-> x]
NoFrame == [by |-> "none", n |-> 0, pal |-> "rgb332"]

\* early: when a presentation is counted, before its swap or with it.
Start(direct, early) ==
    [direct |-> direct, early |-> early, front |-> 0, internal |-> 0,
     indexed |-> FALSE, valid |-> FALSE, gui |-> FALSE, stuck |-> FALSE,
     pending |-> "none", copied |-> 0,
     next |-> [staged |-> FALSE, buffer |-> 0, indexed |-> FALSE],
     count |-> 0]

NoState == [back |-> 0, mask |-> {}, available |-> FALSE, changed |-> FALSE,
            staged |-> TRUE]

VideoInit ==
    /\ \E direct, early \in BOOLEAN : hw = Start(direct, early)
    /\ bank = [b \in 0 .. 1 |-> Whole(NoFrame)]
    /\ sdram = [b \in {0, 1, Work} |-> Whole(NoFrame)]
    /\ palette = [b \in 0 .. 1 |-> Whole("rgb332")]
    /\ snip = [magic |-> FALSE, inverse |-> FALSE, header |-> NoFrame,
               pixels |-> Whole(NoFrame)]
    /\ client = "monitor" /\ step = "prompt" /\ half = 1
    /\ own = NoState /\ frame = NoFrame /\ before = 0
    /\ since = 0 /\ frames = 0 /\ resets = 0

----------------------------------------------------------------------------
(* The display.                                                            *)

Pending == hw.pending # "none"
Counted == (hw.count + 1) % CountMod
UnchangedByDisplay ==
    UNCHANGED <<snip, client, step, half, own, frame, before, since, frames,
                resets>>

\* Half of the buffer reaches the bank that is not shown.
Copy ==
    /\ hw.pending = "copy" /\ ~hw.stuck
    /\ bank' = [bank EXCEPT ![1 - hw.internal][hw.copied + 1] =
                                sdram[hw.next.buffer][hw.copied + 1]]
    /\ hw' = [hw EXCEPT !.copied = @ + 1,
                        !.pending = IF hw.copied = 0 THEN "copy" ELSE "swap",
                        !.count = IF hw.copied = 1 /\ hw.early THEN Counted ELSE @]
    /\ UNCHANGED <<sdram, palette>> /\ UnchangedByDisplay

\* The vertical blank.
Swap ==
    /\ hw.pending = "swap" /\ ~hw.stuck
    /\ hw' = [hw EXCEPT !.internal = IF hw.next.staged THEN 1 - @
                                     ELSE hw.next.buffer,
                        !.front = IF hw.next.buffer = Work THEN 0
                                  ELSE hw.next.buffer,
                        !.gui = hw.next.buffer = Work,
                        !.indexed = hw.next.indexed, !.valid = TRUE,
                        !.pending = "none",
                        !.count = IF hw.early THEN @ ELSE Counted]
    /\ UNCHANGED <<bank, sdram, palette>> /\ UnchangedByDisplay

Stick ==
    /\ Pending /\ ~hw.stuck
    /\ hw' = [hw EXCEPT !.stuck = TRUE]
    /\ UNCHANGED <<bank, sdram, palette>> /\ UnchangedByDisplay

\* CONTROL with PRESENT; one that is pending is not replaced.
Requested(staged, buffer, indexed) ==
    IF Pending THEN hw
    ELSE [hw EXCEPT !.pending = IF staged THEN "copy" ELSE "swap",
                    !.copied = 0,
                    !.next = [staged |-> staged, buffer |-> buffer,
                              indexed |-> indexed],
                    !.count = IF hw.early /\ ~staged THEN Counted ELSE @]

----------------------------------------------------------------------------
(* Writing a picture and presenting it.                                    *)

\* What a client does with a picture, in order: a direct picture goes to a
\* bank that must no longer be shown, a staged one to SDRAM.
Plan ==
    CASE client = "monitor" -> <<"copy", "present", "await", "done">>
      [] client # "monitor" /\ own.staged ->
             <<"copy", "idle", "upload", "present", "await", "done">>
      [] OTHER -> <<"idle", "copy", "upload", "present", "await", "done">>

Following(s) ==
    Plan[1 + CHOOSE i \in DOMAIN Plan : Plan[i] = s]

\* GUI_RES presents the work buffer, with palette 0.
Buffer == IF client = "gui" /\ own.staged THEN Work ELSE own.back
PaletteBank == IF Buffer = Work THEN 0 ELSE Buffer

GoOn == step' = Following(step) /\ half' = 1
Again == half < 2 /\ half' = half + 1 /\ step' = step
HalfDone == Again \/ (half = 2 /\ GoOn)

KeepsRest == UNCHANGED <<snip, client, frame, since, frames, resets>>

\* copy_frame_legacy, copy_frame_direct, video_write_test_pattern; the GUI
\* draws into the work buffer, or copies to the bank.
CopyHalf ==
    /\ step = "copy"
    /\ IF own.staged
       THEN /\ sdram' = [sdram EXCEPT ![Buffer][half] = frame]
            /\ UNCHANGED bank
       ELSE /\ bank' = [bank EXCEPT ![Buffer][half] = frame]
            /\ UNCHANGED sdram
    /\ HalfDone
    /\ UNCHANGED <<hw, palette, own, before>> /\ KeepsRest

\* Fault: the swap that is pending is not waited for.
IdleAtOnce == TRUE

Idle == ~Pending

\* The GUI chooses its bank after the wait.
ChosenBack ==
    IF client = "gui" /\ ~own.staged THEN 1 - hw.internal ELSE own.back

WaitIdle ==
    /\ step = "idle" /\ Idle
    /\ own' = [own EXCEPT !.back = ChosenBack]
    /\ GoOn
    /\ UNCHANGED <<display, before>> /\ KeepsRest

MaskAtUpload ==
    [own EXCEPT !.mask = IF own.changed THEN {} ELSE @, !.changed = FALSE]

\* upload_palette, video_upload_palette: only into a bank that lacks it.
UploadHalf ==
    /\ step = "upload"
    /\ LET o == MaskAtUpload IN
       IF PaletteBank \in o.mask
       THEN own' = o /\ GoOn /\ UNCHANGED palette
       ELSE /\ palette' = [palette EXCEPT ![PaletteBank][half] = frame.pal]
            /\ own' = [o EXCEPT !.mask = IF half = 2 THEN @ \cup {PaletteBank}
                                         ELSE @]
            /\ HalfDone
    /\ UNCHANGED <<hw, bank, sdram, before>> /\ KeepsRest

Present ==
    /\ step = "present"
    /\ before' = hw.count
    /\ hw' = Requested(own.staged, Buffer, client # "monitor")
    /\ GoOn
    /\ UNCHANGED <<bank, sdram, palette, own>> /\ KeepsRest

\* wait_for_dma_complete and the loops of the monitor and the GUI.
Presented ==
    /\ hw.count # before
    /\ CASE client = "doom" -> hw.pending # "copy"
         [] client = "gui" -> ~Pending /\ (own.staged => hw.gui)
         [] OTHER -> ~Pending /\ hw.valid

Await ==
    /\ step = "await" /\ Presented
    /\ own' = IF client = "doom" THEN [own EXCEPT !.back = 1 - @] ELSE own
    /\ GoOn
    /\ UNCHANGED <<display, before>> /\ KeepsRest

\* The second is over: Doom goes on headless, the others give up.
TimesOut ==
    /\ hw.stuck
    /\ \/ step = "idle" /\ ~Idle
       \/ step = "await" /\ ~Presented
    /\ IF client = "doom"
       THEN /\ own' = [own EXCEPT !.available = FALSE]
            /\ step' = "done" /\ UNCHANGED client
       ELSE step' = "prompt" /\ client' = "monitor" /\ UNCHANGED own
    /\ half' = 1
    /\ UNCHANGED <<display, snip, frame, before, since, frames, resets>>

----------------------------------------------------------------------------
(* The clients.                                                            *)

\* A command comes after the frame that Doom left pending has been swapped
\* in: what Doom and the monitor print in between takes longer.
Settled == hw.stuck \/ ~Pending
AtPrompt == client = "monitor" /\ step = "prompt" /\ Settled

Drawn(pal) == [by |-> client', n |-> frames', pal |-> pal]

\* A frame is drawn; what follows depends on the client.
Draws(pal) ==
    /\ frames < MaxFrames /\ frames' = frames + 1
    /\ frame' = Drawn(pal)
    /\ half' = 1
    /\ UNCHANGED <<display, snip, before, resets>>

\* video_write_test_pattern, at boot and on `v`.
Pattern ==
    /\ AtPrompt
    /\ client' = "monitor" /\ step' = "copy"
    /\ own' = NoState /\ since' = frames
    /\ Draws("rgb332")

PatternDone ==
    /\ client = "monitor" /\ step = "done"
    /\ step' = "clear magic"
    /\ UNCHANGED <<display, half, own, before>> /\ KeepsRest

BackAtInit == 1 - (IF hw.direct THEN hw.internal ELSE hw.front)

\* DG_Init
EnterDoom ==
    /\ AtPrompt
    /\ client' = "doom" /\ step' = "done"
    /\ own' = [back |-> BackAtInit, mask |-> {}, available |-> TRUE,
               changed |-> FALSE, staged |-> ~hw.direct]
    /\ frame' = NoFrame /\ since' = frames
    /\ UNCHANGED <<display, snip, half, before, frames, resets>>

\* A tic, and DG_DrawFrame; the palette may have been set in it.
DoomFrame ==
    /\ client = "doom" /\ step = "done"
    /\ client' = "doom"
    /\ \E p \in Palettes :
        /\ own' = [own EXCEPT !.changed = @ \/ p # frame.pal]
        /\ Draws(p)
    /\ step' = IF own.available THEN Plan[1] ELSE "done"
    /\ UNCHANGED since

DoomExits ==
    /\ client = "doom" /\ step = "done" /\ frame # NoFrame
    /\ step' = "clear magic"
    /\ UNCHANGED <<display, half, own, before>> /\ KeepsRest

\* hazard3_i2cdriver_hdmi_run: initialize_state and the first screen.
EnterGui ==
    /\ AtPrompt /\ hw.direct
    /\ client' = "gui" /\ step' = "idle"
    /\ own' = [back |-> 1 - hw.internal, mask |-> {}, available |-> TRUE,
               changed |-> FALSE, staged |-> FALSE]
    /\ since' = frames
    /\ Draws("gui")

\* refresh_screen, after a key, or every 200 ms.
GuiRefresh ==
    /\ client = "gui" /\ step = "done"
    /\ client' = "gui"
    /\ \/ UNCHANGED own
       \/ own' = [own EXCEPT !.staged = ~@, !.mask = {}]   \* toggle_resolution
       \/ own' = [own EXCEPT !.staged = FALSE, !.mask = {}] \* toggle_400_resolution
    /\ step' = IF own'.staged THEN "copy" ELSE "idle"
    /\ UNCHANGED since
    /\ Draws("gui")

GuiQuits ==
    /\ client = "gui" /\ step = "done"
    /\ client' = "monitor" /\ step' = "prompt"
    /\ UNCHANGED <<display, snip, half, own, frame, before, since, frames, resets>>

----------------------------------------------------------------------------
(* The screen-snip cache: screen_snip_cache_save_rgb332 of the monitor,    *)
(* hazard3_doom_screen_snip_cache.                                         *)

\* Fault: what was valid stays so while it is overwritten.
ClearsNothing == snip

Cleared == [snip EXCEPT !.magic = FALSE, !.inverse = FALSE]

Caches(from, to, s) ==
    /\ step = from /\ step' = to
    /\ snip' = s
    /\ UNCHANGED <<display, client, half, own, frame, before, since, frames, resets>>

\* The last store ends the save; it returns to the prompt.
CacheDone ==
    /\ step = "set magic"
    /\ snip' = [snip EXCEPT !.magic = TRUE]
    /\ client' = "monitor" /\ step' = "prompt"
    /\ UNCHANGED <<display, half, own, frame, before, since, frames, resets>>

CacheSave ==
    \/ Caches("clear magic", "header", Cleared)
    \/ Caches("header", "first half", [snip EXCEPT !.header = frame])
    \/ Caches("first half", "second half", [snip EXCEPT !.pixels[1] = frame])
    \/ Caches("second half", "set inverse", [snip EXCEPT !.pixels[2] = frame])
    \/ Caches("set inverse", "set magic", [snip EXCEPT !.inverse = TRUE])
    \/ CacheDone

\* screen_snip_cache_valid
SnipValid == snip.magic /\ snip.inverse

----------------------------------------------------------------------------
(* What a request of the screen-snip tool is answered with, by the client  *)
(* that runs: a size with its palette, and the pixels.                     *)

NAK == [header |-> NoFrame, pixels |-> Whole(NoFrame)]

screen_snip_send_cached ==
    IF SnipValid THEN [header |-> snip.header, pixels |-> snip.pixels] ELSE NAK

\* DG_ScreenBuffer and the colours of Doom, at the end of DG_DrawFrame.
doom_screen_snip_send == [header |-> frame, pixels |-> Whole(frame)]

\* The buffer that the GUI draws into.
gui_screen_snip_send ==
    [header |-> frame,
     pixels |-> IF own.staged THEN sdram[Work] ELSE Whole(frame)]

Answer ==
    CASE client = "doom" -> doom_screen_snip_send
      [] client = "gui" -> gui_screen_snip_send
      [] OTHER -> screen_snip_send_cached

Answers == step \in {"prompt", "done"}

----------------------------------------------------------------------------
\* The board is reset; memory keeps what it holds.
Reset ==
    /\ resets < MaxResets /\ resets' = resets + 1
    /\ hw' = Start(hw.direct, hw.early)
    /\ client' = "monitor" /\ step' = "prompt" /\ half' = 1
    /\ own' = NoState /\ frame' = NoFrame /\ before' = 0
    /\ since' = frames
    /\ UNCHANGED <<bank, sdram, palette, snip, frames>>

VideoNext ==
    \/ Copy \/ Swap \/ Stick
    \/ CopyHalf \/ WaitIdle \/ UploadHalf \/ Present \/ Await \/ TimesOut
    \/ Pattern \/ PatternDone
    \/ EnterDoom \/ DoomFrame \/ DoomExits
    \/ EnterGui \/ GuiRefresh \/ GuiQuits
    \/ CacheSave \/ Reset

VideoSpec == VideoInit /\ [][VideoNext]_videoVars

----------------------------------------------------------------------------
Frames == [by : {"none", "monitor", "doom", "gui"}, n : 0 .. MaxFrames,
           pal : Palettes \cup {"gui", "rgb332"}]

VideoTypeOK ==
    /\ hw.pending \in {"none", "copy", "swap"} /\ hw.copied \in 0 .. 2
    /\ hw.front \in 0 .. 1 /\ hw.internal \in 0 .. 1
    /\ hw.count \in 0 .. (CountMod - 1) /\ before \in 0 .. (CountMod - 1)
    /\ bank \in [0 .. 1 -> [Halves -> Frames]]
    /\ sdram \in [{0, 1, Work} -> [Halves -> Frames]]
    /\ palette \in [0 .. 1 -> [Halves -> Palettes \cup {"gui", "rgb332"}]]
    /\ frame \in Frames
    /\ client \in {"monitor", "doom", "gui"} /\ half \in Halves
    /\ own.back \in 0 .. 1 /\ own.mask \subseteq 0 .. 1

Shown == bank[hw.internal]

\* What is shown is one whole picture, and it has the colours it was drawn
\* with: no bank is written while it is shown, neither by the program nor by
\* the copy, and no palette is, whoever presented last and however late the
\* swap comes.  The palette of a picture that another client left may be
\* overwritten by the first picture of the next.
FrameWhole ==
    hw.valid =>
        /\ Shown[1] = Shown[2]
        /\ hw.indexed /\ Shown[1].n > since =>
               palette[hw.front] = Whole(Shown[1].pal)

\* The picture that is sent is a whole one with its own size and palette, and
\* the GUI sends the one that is shown: a cache that passes the checks of the
\* monitor was saved to its end, wherever a reset cut a save short.
SnipWhole ==
    Answers =>
        /\ Answer.pixels = Whole(Answer.header)
        /\ client = "gui" => Answer.pixels = Shown
=============================================================================

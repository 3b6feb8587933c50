---------------------------- MODULE MCDoomInput ----------------------------
(***************************************************************************)
(* DoomInput with the strokes that differ for the code: a letter, Escape,  *)
(* an arrow, a sequence that is left unfinished, the two requests for a    *)
(* picture and Ctrl-X.  A sequence waits for one unit of time, a key is    *)
(* held for two.                                                           *)
(***************************************************************************)
EXTENDS DoomInput

MCChar == {"w", "esc", "[", "A", "snip", "capability", "ctrlx"}
MCStrokes ==
    {<<"w">>, <<"esc">>, <<"esc", "[", "A">>, <<"esc", "[">>, <<"snip">>,
     <<"capability">>, <<"ctrlx">>}

\* A user who presses nothing but an arrow key.
MCArrows == {<<"esc", "[", "A">>}
=============================================================================

---------------------------- MODULE CaptureFifo ----------------------------
(***************************************************************************)
(* What the console input capture promises: a bounded queue between the    *)
(* serial line and the running program.  A byte is put at the end, or      *)
(* refused and counted when the queue is full; the program takes the       *)
(* oldest byte; clearing empties the queue and restarts the counts.        *)
(***************************************************************************)
EXTENDS Naturals, Sequences

CONSTANTS
    Byte,       \* what the line carries
    Capacity    \* how many bytes the queue holds, at least one

VARIABLES
    queue,      \* bytes accepted and not yet taken, the oldest first
    accepted,   \* bytes accepted since the queue was last cleared
    refused,    \* bytes refused since the queue was last cleared
    out         \* the byte taken last

fifoVars == <<queue, accepted, refused, out>>

Init ==
    /\ queue = <<>>
    /\ accepted = 0
    /\ refused = 0
    /\ out = 0

Put(byte) ==
    /\ Len(queue) < Capacity
    /\ queue' = Append(queue, byte)
    /\ accepted' = accepted + 1
    /\ UNCHANGED <<refused, out>>

Refuse ==
    /\ Len(queue) = Capacity
    /\ refused' = refused + 1
    /\ UNCHANGED <<queue, accepted, out>>

Take ==
    /\ queue # <<>>
    /\ out' = Head(queue)
    /\ queue' = Tail(queue)
    /\ UNCHANGED <<accepted, refused>>

Clear ==
    /\ queue' = <<>>
    /\ accepted' = 0
    /\ refused' = 0
    /\ UNCHANGED out

Next ==
    \/ \E byte \in Byte : Put(byte)
    \/ Refuse
    \/ Take
    \/ Clear

Spec == Init /\ [][Next]_fifoVars
=============================================================================

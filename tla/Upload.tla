------------------------------- MODULE Upload -------------------------------
(***************************************************************************)
(* Uploading an image or an IWAD over the serial line: the scripts         *)
(* src/doom/upload-doom-image.py and upload-wad.py on one side, the prompt *)
(* (src/src/main.c) and the receivers of doom_image_loader.c and           *)
(* doom_wad_loader.c on the other.                                         *)
(*                                                                         *)
(* The script waits for a marker before each part: READY, the header,      *)
(* DATA, the payload, OK or ERROR.  The board waits five seconds for each  *)
(* byte.  While it is not reading, its receive FIFO holds a few bytes and  *)
(* the rest is lost.  A byte or a marker may be lost or damaged, the       *)
(* script may stall, be killed and run again, the board may be reset.      *)
(*                                                                         *)
(* The script waits longer for a marker than the board for a byte.  A      *)
(* header is its magic and the checksum of its payload, which stands for   *)
(* the length too.                                                         *)
(***************************************************************************)
EXTENDS Integers, Sequences

CONSTANTS
    Jobs,           \* what may be uploaded: its kind and its checksum
    Payload(_),     \* the bytes of a job
    Byte,           \* all bytes
    RxDepth,        \* of the receive FIFO of the UART
    MaxFaults       \* bound on the faults

Kind == {"image", "wad"}
None == [kind |-> "none", crc |-> "none"]
CommandOf(kind) == IF kind = "image" THEN "l" ELSE "w"
Magic(kind) == IF kind = "image" THEN "H3I1" ELSE "H3W1"
Header(job) == <<Magic(job.kind), job.crc>>

\* Nothing in the payload looks like the beginning of a header.
Plain(job) ==
    \A i \in 1 .. Len(Payload(job)) :
        \A k \in Kind : Payload(job)[i] # Magic(k)

ASSUME UploadAssumption ==
    /\ Jobs \subseteq [kind : Kind, crc : Byte] /\ None \notin Jobs
    /\ {"l", "w", "v", "H3I1", "H3W1"} \subseteq Byte
    /\ \A j \in Jobs : Payload(j) \in Seq(Byte) /\ Payload(j) # <<>>
    /\ RxDepth \in Nat \ {0} /\ MaxFaults \in Nat

VARIABLES
    stage,          \* what the script waits for; "off" when it does not run
    job,            \* what it uploads
    profile,        \* memory_profile was in the answer to `v`
    outcome,        \* of the last run
    wire,           \* bytes on their way to the board
    rx,             \* the receive FIFO
    board,             \* where the board is
    kind, buf,      \* what it receives, and what it has of it
    announced,      \* the job that the header was for
    answers,        \* markers on their way to the script
    own,            \* history: whether the line holds nothing but what the
                    \* run has to do with; "damaged": but for bytes of its
                    \* payload that came as others
    stored,         \* history: what the last OK was said for
    faults,         \* history: how many, and the runs that failed since
    failed

script == <<stage, job, profile, outcome, own, failed>>
receiver == <<board, kind, buf, announced, stored>>
uploadVars == <<script, wire, rx, receiver, answers, faults>>

Marker(k, text) == [kind |-> k, text |-> text]
Answer == [kind : Kind \cup {"any"},
           text : {"READY", "DATA", "OK", "ERROR", "prompt", "profile"}]
Prompt == Marker("any", "prompt")
Profile == Marker("any", "profile")

UploadInit ==
    /\ stage = "off" /\ job = None /\ profile = FALSE /\ outcome = "none"
    /\ wire = <<>> /\ rx = <<>>
    /\ board = "prompt" /\ kind = "image" /\ buf = <<>> /\ announced = None
    /\ stored = None
    /\ answers = <<>> /\ own = "yes" /\ faults = 0 /\ failed = 0

Prefixes(s) == {SubSeq(s, 1, n) : n \in 0 .. Len(s)}
Suffixes(s) == {SubSeq(s, n, Len(s)) : n \in 1 .. (Len(s) + 1)}

----------------------------------------------------------------------------
(* The script.                                                             *)

Writes(bytes) == wire' = wire \o bytes

Fails ==
    /\ stage' = "off" /\ outcome' = "failed"
    /\ failed' = IF failed = 3 THEN failed ELSE failed + 1

\* The script for an IWAD asks for the memory profile unless it was given.
Begins(sent) ==
    /\ stage = "off"
    /\ job' \in Jobs
    /\ outcome' = "none" /\ profile' = FALSE
    /\ \/ /\ stage' = "READY"
          /\ wire' = Append(sent, CommandOf(job'.kind))
       \/ /\ job'.kind = "wad"
          /\ stage' = "version"
          /\ wire' = Append(sent, "v")

\* What was on its way has come by the time the port is opened, and is
\* dropped; the board is at its prompt or waits for a byte.
Start ==
    /\ wire = <<>> /\ rx = <<>> /\ board \in {"prompt", "header", "payload"}
    /\ Begins(<<>>)
    /\ answers' = <<>> /\ own' = "yes"
    /\ UNCHANGED <<rx, receiver, faults, failed>>

\* read_until_any finds the next marker.
Next1 == Head(answers)
Finds(text) == Next1 = Marker(job.kind, text)

Waits == UNCHANGED <<stage, outcome, failed, wire>>

\* detect_memory_profile
HearVersion ==
    /\ stage = "version"
    /\ profile' = (profile \/ Next1 = Profile)
    /\ CASE Next1 = Prompt /\ profile ->
                /\ stage' = "READY" /\ Writes(<<CommandOf("wad")>>)
                /\ UNCHANGED <<outcome, failed>>
         [] Next1 = Prompt /\ ~profile -> Fails /\ UNCHANGED wire
         [] OTHER -> Waits

\* Fault: the payload follows the header at once.
HearReadyStreams ==
    /\ stage = "READY"
    /\ IF Finds("READY")
       THEN /\ stage' = "OK" /\ Writes(Header(job) \o Payload(job))
            /\ UNCHANGED <<outcome, failed>>
       ELSE Waits
    /\ UNCHANGED profile

HearReady ==
    /\ stage = "READY"
    /\ IF Finds("READY")
       THEN /\ stage' = "DATA" /\ Writes(Header(job))
            /\ UNCHANGED <<outcome, failed>>
       ELSE Waits
    /\ UNCHANGED profile

HearData ==
    /\ stage = "DATA"
    /\ CASE Finds("DATA") ->
                /\ stage' = "OK" /\ Writes(Payload(job))
                /\ UNCHANGED <<outcome, failed>>
         [] Finds("ERROR") -> Fails /\ UNCHANGED wire
         [] OTHER -> Waits
    /\ UNCHANGED profile

HearResult ==
    /\ stage = "OK"
    /\ CASE Finds("OK") ->
                /\ stage' = "off" /\ outcome' = "accepted"
                /\ UNCHANGED <<failed, wire>>
         [] Finds("ERROR") -> Fails /\ UNCHANGED wire
         [] OTHER -> Waits
    /\ UNCHANGED profile

Hear ==
    /\ answers # <<>>
    /\ HearVersion \/ HearReady \/ HearData \/ HearResult
    /\ answers' = Tail(answers)
    /\ UNCHANGED <<job, own, rx, receiver, faults>>

\* read_until_any gives up.  By then the board has answered or given up too.
GiveUp ==
    /\ stage # "off"
    /\ answers = <<>> /\ wire = <<>> /\ rx = <<>> /\ board = "prompt"
    /\ Fails
    /\ UNCHANGED <<job, profile, own, wire, rx, receiver, answers, faults>>

----------------------------------------------------------------------------
(* The board.                                                              *)

Reading == board \in {"prompt", "header", "payload"}

\* Bytes come more slowly than a loop reads them.
Arrive ==
    /\ wire # <<>>
    /\ Reading => Len(rx) < RxDepth
    /\ rx' = IF Len(rx) < RxDepth THEN Append(rx, Head(wire)) ELSE rx
    /\ wire' = Tail(wire)
    /\ UNCHANGED <<script, receiver, answers, faults>>

Goes(to) == board' = to /\ UNCHANGED <<script, wire, faults>>
Says(markers) == answers' = answers \o markers

\* console_poll: the commands that upload, and the one that asks.
Command ==
    /\ board = "prompt" /\ rx # <<>>
    /\ rx' = Tail(rx)
    /\ \/ \E k \in Kind :
            /\ Head(rx) = CommandOf(k)
            /\ kind' = k
            /\ Goes("drain")
            /\ UNCHANGED answers
       \/ /\ Head(rx) = "v"
          /\ Says(<<Profile, Prompt>>)
          /\ Goes("prompt")
          /\ UNCHANGED kind
       \/ /\ Head(rx) \notin {"l", "w", "v"}
          /\ Goes("prompt")
          /\ UNCHANGED <<kind, answers>>
    /\ UNCHANGED <<buf, announced, stored>>

drain_uart_rx ==
    /\ board = "drain"
    /\ rx' = <<>>
    /\ Goes("ready")
    /\ UNCHANGED <<kind, buf, announced, stored, answers>>

SayReady ==
    /\ board = "ready"
    /\ Says(<<Marker(kind, "READY")>>)
    /\ buf' = <<>>
    /\ Goes("header")
    /\ UNCHANGED <<rx, kind, announced, stored>>

Reports(text) == Says(<<Marker(kind, text), Prompt>>)

Got == Append(buf, Head(rx))

\* read_exact, and header_is_valid.
ReadHeader ==
    /\ board = "header" /\ rx # <<>>
    /\ rx' = Tail(rx) /\ buf' = Got
    /\ \/ /\ Len(Got) < 2
          /\ Goes("header")
          /\ UNCHANGED <<announced, answers>>
       \/ \E j \in Jobs :
            /\ j.kind = kind /\ Got = Header(j)
            /\ announced' = j
            /\ Goes("summary")
            /\ UNCHANGED answers
       \/ /\ Len(Got) = 2
          /\ \A j \in Jobs : ~(j.kind = kind /\ Got = Header(j))
          /\ Reports("ERROR")
          /\ Goes("prompt")
          /\ UNCHANGED announced
    /\ UNCHANGED <<kind, stored>>

\* print_header_summary and DATA.
SayData ==
    /\ board = "summary"
    /\ Says(<<Marker(kind, "DATA")>>)
    /\ buf' = <<>>
    /\ Goes("payload")
    /\ UNCHANGED <<rx, kind, announced, stored>>

ReadPayload ==
    /\ board = "payload" /\ rx # <<>>
    /\ rx' = Tail(rx) /\ buf' = Got
    /\ Goes(IF Len(Got) < Len(Payload(announced)) THEN "payload" ELSE "check")
    /\ UNCHANGED <<kind, announced, stored, answers>>

\* Fault: the checksum is not compared.
ChecksumIgnored == TRUE

\* The checksum of what came is that of the header.
ChecksumMatches == buf = Payload(announced)

Check ==
    /\ board = "check"
    /\ IF ChecksumMatches
       THEN /\ stored' = IF buf = Payload(announced) THEN announced ELSE None
            /\ Reports("OK")
       ELSE Reports("ERROR") /\ UNCHANGED stored
    /\ Goes("prompt")
    /\ UNCHANGED <<rx, kind, buf, announced>>

\* The script has nothing to say before it hears more.
Quiet == wire = <<>> /\ (stage = "off" \/ answers = <<>>)

\* Fault: only the header has to come in time.
WaitsForHeader == board = "header" /\ rx = <<>>

WaitsForByte == board \in {"header", "payload"} /\ rx = <<>>

\* read_byte_with_timeout
ByteTimesOut ==
    /\ WaitsForByte
    /\ Quiet
    /\ Reports("ERROR")
    /\ Goes("prompt")
    /\ UNCHANGED <<rx, kind, buf, announced, stored>>

----------------------------------------------------------------------------
(* Faults.                                                                 *)

Fault == faults < MaxFaults /\ faults' = faults + 1 /\ failed' = 0

\* A run follows another one so fast that bytes and markers are still on
\* their way: only some of them are dropped when the port is opened.
HastyStart ==
    /\ Fault
    /\ \E sent \in Prefixes(wire) : Begins(sent)
    /\ answers' \in Suffixes(answers) /\ own' = "no"
    /\ UNCHANGED <<rx, receiver>>

\* The board gives up in the middle of a run; if it is one with a damaged
\* payload, it takes what is left of that for commands.
Interrupts == own' = IF own = "damaged" THEN "no" ELSE own

\* The script stalls for five seconds while the board waits.
Stall ==
    /\ Fault
    /\ WaitsForByte /\ ~Quiet
    /\ Reports("ERROR")
    /\ board' = "prompt" /\ Interrupts
    /\ UNCHANGED <<stage, job, profile, outcome, wire, rx, kind, buf,
                   announced, stored>>

Kill ==
    /\ Fault
    /\ stage # "off"
    /\ stage' = "off" /\ outcome' = "killed"
    /\ wire' \in Prefixes(wire)
    /\ UNCHANGED <<job, profile, own, rx, receiver, answers>>

\* A byte is lost, or comes as another one.
Noise ==
    /\ Fault
    /\ wire # <<>>
    /\ \/ wire' = Tail(wire) /\ UNCHANGED own
       \/ /\ \E b \in Byte \ {Head(wire)} : wire' = <<b>> \o Tail(wire)
          /\ own' = IF own # "no" /\ stage = "OK" /\ board = "payload"
                    THEN "damaged" ELSE "no"
    /\ UNCHANGED <<stage, job, profile, outcome, rx, receiver, answers>>

MarkerLost ==
    /\ Fault
    /\ answers # <<>>
    /\ answers' = Tail(answers)
    /\ UNCHANGED <<stage, job, profile, outcome, own, wire, rx, receiver>>

BoardReset ==
    /\ Fault
    /\ board' = "prompt" /\ rx' = <<>> /\ buf' = <<>>
    /\ Says(<<Prompt>>) /\ Interrupts
    /\ UNCHANGED <<stage, job, profile, outcome, wire, kind, announced,
                   stored>>

UploadNext ==
    \/ Start \/ Hear \/ GiveUp
    \/ Arrive \/ Command \/ drain_uart_rx \/ SayReady \/ ReadHeader
    \/ SayData \/ ReadPayload \/ Check \/ ByteTimesOut
    \/ HastyStart \/ Stall \/ Kill \/ Noise \/ MarkerLost \/ BoardReset

Board ==
    \/ Command \/ drain_uart_rx \/ SayReady \/ ReadHeader \/ SayData
    \/ ReadPayload \/ Check

UploadSpec == UploadInit /\ [][UploadNext]_uploadVars

\* The board and the line go on, and both sides look at their clocks.
UploadFairSpec ==
    /\ UploadSpec
    /\ WF_uploadVars(Board) /\ WF_uploadVars(Arrive)
    /\ WF_uploadVars(ByteTimesOut)
    /\ WF_uploadVars(Hear) /\ WF_uploadVars(GiveUp)

----------------------------------------------------------------------------
UploadTypeOK ==
    /\ stage \in {"off", "version", "READY", "DATA", "OK"}
    /\ outcome \in {"none", "accepted", "failed", "killed"}
    /\ job \in Jobs \cup {None} /\ announced \in Jobs \cup {None}
    /\ stage # "off" => job \in Jobs
    /\ board \in {"summary", "payload", "check"} => announced \in Jobs
    /\ profile \in BOOLEAN /\ kind \in Kind /\ own \in {"yes", "damaged", "no"}
    /\ wire \in Seq(Byte) /\ rx \in Seq(Byte) /\ Len(rx) <= RxDepth
    /\ buf \in Seq(Byte) /\ answers \in Seq(Answer)
    /\ board \in {"prompt", "drain", "ready", "header", "summary", "payload",
               "check"}
    /\ faults \in 0 .. MaxFaults /\ failed \in 0 .. 3

\* When the script says that an upload was accepted, the board has stored this
\* very payload: no marker of an earlier run is taken for one of this run, and
\* no byte of the payload for a command or a header, whatever is lost, stalls,
\* is killed or reset, and a payload that was damaged on the line is found by
\* its checksum.  It needs three things that neither side checks: the run began
\* on a quiet line; a byte came as another one, if ever, only in the payload
\* that the board was reading to its end; and no payload holds the magic of a
\* header.  Without any of them another payload can be accepted.
AcceptedIsStored ==
    [][outcome' = "accepted" /\ outcome # "accepted" /\ own # "no" /\ Plain(job)
           => stored = job]_uploadVars

\* A run without a fault is accepted, with bytes to spare in the receive FIFO;
\* after a fault, what it left behind lets no more than two runs fail.
SoonAccepted == failed <= IF faults = 0 THEN 0 ELSE 2

\* A run ends, and the board returns to its prompt, wherever the other side
\* has stopped.
BothEnd ==
    (stage # "off" \/ board # "prompt") ~> (stage = "off" /\ board = "prompt")
=============================================================================

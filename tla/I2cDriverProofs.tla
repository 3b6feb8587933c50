-------------------------- MODULE I2cDriverProofs --------------------------
(***************************************************************************)
(* Hazard3 leaves the bus after every call, for every device, every set of *)
(* registers and values, and any number of faults.  The invariant follows  *)
(* a call through its commands: what is left of it ends with STOP, the bus *)
(* is taken by its first START only, and a last command that has come to   *)
(* an end, or was rejected, has left the bus.  The second part shows that  *)
(* a call that returned OK did what it says, the third that the values the *)
(* ESP32 reads are of the registers it asks for.  The last part gives the  *)
(* types of the whole system.                                              *)
(***************************************************************************)
EXTENDS I2cDriver, SequenceTheorems, TLAPS

Ops == {"probe", "scan", "write", "read", "recover"}

ACall == [op : Ops, address : Address, reg : Reg, value : Value]

Commands ==
    {START, STOP, READ, RECOVER}
    \cup {AddressWrite(a) : a \in Address} \cup {AddressRead(a) : a \in Address}
    \cup {Byte(b) : b \in Reg \cup Value}

\* The fields of the records that are changed one at a time.
Shaped ==
    /\ bus = [by |-> bus.by, turn |-> bus.turn]
    /\ engine = [cmd |-> engine.cmd, byte |-> engine.byte,
                 done |-> engine.done, ack |-> engine.ack,
                 timeout |-> engine.timeout, rejected |-> engine.rejected,
                 rx |-> engine.rx]
    /\ drv = [call |-> drv.call, script |-> drv.script, rc |-> drv.rc,
              left |-> drv.left, value |-> drv.value, pc |-> drv.pc]

Busy == drv.pc \in {"issue", "wait"}

\* What is left of a call.
ScriptLeft ==
    Busy =>
        /\ drv.call \in ACall /\ drv.left \subseteq Address
        /\ drv.script \in Seq(Commands) /\ drv.script # <<>>
        /\ \/ drv.call.op = "recover" /\ drv.script = <<RECOVER>>
           \/ /\ drv.call.op # "recover"
              /\ Len(drv.script) <= Len(Script(drv.call))
              /\ drv.script[Len(drv.script)] = STOP
              /\ First => Head(drv.script) = START

\* The bridge works on the command that was issued, or has nothing to do.
Engaged ==
    /\ engine.cmd # "none" => drv.pc = "wait"
    /\ engine.cmd \notin {"none", "hung"} => engine.cmd = Head(drv.script)[1]
    /\ drv.pc = "wait" /\ engine.rejected => engine.cmd = "none"

\* When Hazard3 has the bus.
Held ==
    bus.by = "hazard3" =>
        /\ Busy /\ drv.call.op # "recover"
        /\ First => /\ drv.pc = "wait" /\ engine.cmd = "none"
                    /\ ~engine.rejected /\ ~engine.timeout
        /\ Len(drv.script) = 1 /\ drv.pc = "wait" => engine.cmd # "none"

Rate == where = "prompt" => clkdiv = SAO_I2C_HZ

IInv == Shaped /\ ScriptLeft /\ Engaged /\ Held /\ Rate

LEMMA IInvReleases == IInv => BusReleased
BY DEF IInv, Held, Busy, Rate, BusReleased

----------------------------------------------------------------------------
\* Every call but the recovery begins with START and ends with STOP.
LEMMA ScriptShape ==
    ASSUME NEW c \in ACall, c.op # "recover"
    PROVE  /\ Script(c) \in Seq(Commands) /\ Len(Script(c)) >= 3
           /\ Script(c)[Len(Script(c))] = STOP /\ Head(Script(c)) = START
<1>0. /\ AddressWrite(c.address) \in Commands /\ AddressRead(c.address) \in Commands
      /\ Byte(c.reg) \in Commands /\ Byte(c.value) \in Commands
      /\ START \in Commands /\ STOP \in Commands /\ READ \in Commands
    BY DEF ACall, Commands
<1> HIDE DEF Commands
<1>1. CASE c.op \in {"probe", "scan"}
    <2>1. Script(c) = probe(c)
        BY <1>1 DEF Script
    <2> QED BY <1>0, <2>1 DEF probe
<1>2. CASE c.op = "write"
    <2>1. Script(c) = write_reg8(c)
        BY <1>2 DEF Script
    <2> QED BY <1>0, <2>1 DEF write_reg8
<1>3. CASE c.op = "read"
    <2>1. Script(c) = read_reg8(c)
        BY <1>3 DEF Script
    <2> QED BY <1>0, <2>1 DEF read_reg8
<1> QED BY <1>1, <1>2, <1>3 DEF ACall, Ops

\* The commands are told apart by their names.
LEMMA Names ==
    /\ START[1] = "start" /\ STOP[1] = "stop" /\ READ[1] = "read"
    /\ RECOVER[1] = "recover"
BY DEF START, STOP, READ, RECOVER

\* A call that has just begun, with the bus free.
LEMMA BeginsFree ==
    ASSUME drv'.pc = "issue", drv'.call \in ACall, drv'.left \subseteq Address,
           drv'.script = Script(drv'.call), Shaped', Rate',
           bus'.by # "hazard3", engine'.cmd = "none"
    PROVE  IInv'
<1>1. CASE drv'.call.op = "recover"
    <2>1. drv'.script = <<RECOVER>>
        BY <1>1 DEF Script
    <2>2. RECOVER \in Commands
        BY DEF Commands
    <2>3. <<RECOVER>> \in Seq(Commands) /\ <<RECOVER>> # <<>>
        BY <2>2
    <2>4. ScriptLeft'
        BY <1>1, <2>1, <2>3 DEF ScriptLeft
    <2> QED BY <2>4 DEF IInv, Engaged, Held
<1>2. CASE drv'.call.op # "recover"
    <2>1. /\ drv'.script \in Seq(Commands) /\ Len(drv'.script) >= 3
          /\ drv'.script[Len(drv'.script)] = STOP /\ Head(drv'.script) = START
        BY <1>2, ScriptShape
    <2>2. drv'.script # <<>> /\ Len(drv'.script) <= Len(Script(drv'.call))
        BY <2>1
    <2>3. ScriptLeft'
        BY <1>2, <2>1, <2>2 DEF ScriptLeft
    <2> QED BY <2>3 DEF IInv, Engaged, Held
<1> QED BY <1>1, <1>2

\* A call that has ended, with the bus free.
LEMMA EndsFree ==
    ASSUME drv'.pc \in {"idle", "returned"}, Shaped', Rate',
           bus'.by # "hazard3", engine'.cmd = "none"
    PROVE  IInv'
BY DEF IInv, ScriptLeft, Engaged, Held, Busy

----------------------------------------------------------------------------
LEMMA TailShape ==
    ASSUME NEW C, NEW s \in Seq(C), s # <<>>, Len(s) # 1
    PROVE  /\ Tail(s) \in Seq(C) /\ Tail(s) # <<>>
           /\ Len(Tail(s)) < Len(s)
           /\ Tail(s)[Len(Tail(s))] = s[Len(s)]
<1>1. Len(s) \in Nat /\ Len(s) >= 2
    BY EmptySeq
<1>2. Tail(s) \in Seq(C) /\ Len(Tail(s)) = Len(s) - 1
    BY <1>1, HeadTailProperties
<1>3. \A i \in 1 .. Len(Tail(s)) : Tail(s)[i] = s[i + 1]
    BY HeadTailProperties
<1> DEFINE t == Tail(s)
           n == Len(s)
<1>4. n \in Nat /\ n >= 2 /\ Len(t) = n - 1 /\ t \in Seq(C)
    BY <1>1, <1>2
<1>5. t[n - 1] = s[n]
    <2>1. n - 1 \in 1 .. Len(t) /\ (n - 1) + 1 = n
        BY <1>4
    <2>2. t[n - 1] = s[(n - 1) + 1]
        BY <1>3, <2>1
    <2> QED BY <2>1, <2>2
<1>6. t # <<>>
    BY <1>4, EmptySeq
<1> QED BY <1>4, <1>5, <1>6

\* The driver has seen how a command ended: the call ends with the bus free, or
\* what is left still ends with STOP.
LEMMA SeenStep ==
    ASSUME IInv, drv.pc = "wait", NEW outcome, Seen(outcome),
           Shaped', Rate', engine'.cmd = "none",
           bus'.by = "hazard3" => (First => outcome = "OK") /\ Len(drv.script) # 1
    PROVE  IInv'
<1> DEFINE script == drv.script
           first == Head(script)
           rc == IF drv.rc = "OK" THEN outcome ELSE drv.rc
           value == IF first = READ /\ outcome = "OK" THEN engine.rx ELSE drv.value
<1>0. /\ drv.call \in ACall /\ drv.left \subseteq Address
      /\ script \in Seq(Commands) /\ script # <<>>
    BY DEF IInv, ScriptLeft, Busy
<1>d. drv = [call |-> drv.call, script |-> drv.script, rc |-> drv.rc,
             left |-> drv.left, value |-> drv.value, pc |-> drv.pc]
    BY DEF IInv, Shaped
<1>1. CASE EndsCall(outcome) \/ Len(script) = 1
    <2>1. bus'.by # "hazard3"
        BY <1>1 DEF EndsCall
    <2>2. Ends(rc, value)
        BY <1>1 DEF Seen
    <2> HIDE DEF rc, value
    <2>3. CASE drv.left # {}
        <3> DEFINE a == CHOOSE x \in drv.left : TRUE
                   c == [drv.call EXCEPT !.address = a]
        <3>1. a \in Address
            BY <1>0, <2>3
        <3> HIDE DEF a
        <3>2. c \in ACall
            BY <1>0, <3>1 DEF ACall
        <3> HIDE DEF c
        <3>3. drv' = [drv EXCEPT !.call = c, !.script = Script(c),
                                 !.left = @ \ {a}, !.rc = "OK", !.pc = "issue"]
            BY <2>2, <2>3 DEF Ends, a, c
        <3>4. /\ drv'.pc = "issue" /\ drv'.call = c /\ drv'.script = Script(c)
              /\ drv'.left \subseteq Address
            BY <1>0, <1>d, <3>3
        <3> QED BY <2>1, <3>2, <3>4, BeginsFree
    <2>4. CASE drv.left = {}
        <3>1. drv'.pc = "returned"
            BY <1>d, <2>2, <2>4 DEF Ends, Returned
        <3> QED BY <2>1, <3>1, EndsFree
    <2> QED BY <2>3, <2>4
<1>2. CASE ~EndsCall(outcome) /\ Len(script) # 1
    <2>1. drv' = [drv EXCEPT !.rc = rc, !.value = value, !.pc = "issue",
                             !.script = IF rc = "OK" THEN Tail(@) ELSE <<STOP>>]
        BY <1>2 DEF Seen
    <2> HIDE DEF rc, value
    <2>2. /\ drv'.pc = "issue" /\ drv'.call = drv.call /\ drv'.left = drv.left
          /\ drv'.script = IF rc = "OK" THEN Tail(script) ELSE <<STOP>>
        BY <1>d, <2>1
    <2>3. drv.call.op # "recover"
        <3>1. Len(<<RECOVER>>) = 1
            OBVIOUS
        <3> QED BY <1>2, <3>1 DEF IInv, ScriptLeft, Busy
    <2>4. /\ Len(script) <= Len(Script(drv.call))
          /\ script[Len(script)] = STOP
        BY <2>3 DEF IInv, ScriptLeft, Busy
    <2>5. Len(Script(drv.call)) >= 3 /\ Script(drv.call) \in Seq(Commands)
        BY <1>0, <2>3, ScriptShape
    <2>6. /\ drv'.script \in Seq(Commands) /\ drv'.script # <<>>
          /\ Len(drv'.script) < Len(Script(drv.call))
          /\ drv'.script[Len(drv'.script)] = STOP
        <3>1. CASE rc = "OK"
            <4>1. drv'.script = Tail(script)
                BY <2>2, <3>1
            <4>2. /\ Tail(script) \in Seq(Commands) /\ Tail(script) # <<>>
                  /\ Len(Tail(script)) < Len(script)
                  /\ Tail(script)[Len(Tail(script))] = script[Len(script)]
                BY <1>0, <1>2, TailShape
            <4>3. Len(script) \in Nat /\ Len(Tail(script)) \in Nat
                  /\ Len(Script(drv.call)) \in Nat
                BY <1>0, <2>5, <4>2
            <4>4. Len(Tail(script)) < Len(Script(drv.call))
                BY <2>4, <4>2, <4>3
            <4> QED BY <2>4, <4>1, <4>2, <4>4
        <3>2. CASE rc # "OK"
            <4>1. drv'.script = <<STOP>> /\ STOP \in Commands
                BY <2>2, <3>2 DEF Commands
            <4> QED BY <2>5, <4>1
        <3> QED BY <3>1, <3>2
    <2>7. ScriptLeft' /\ ~First'
        <3>1. Len(drv'.script) # Len(Script(drv'.call))
            BY <2>2, <2>5, <2>6
        <3>2. ~First'
            BY <3>1 DEF First
        <3>3. Len(drv'.script) <= Len(Script(drv'.call))
            BY <2>2, <2>5, <2>6
        <3> QED BY <1>0, <2>2, <2>3, <2>6, <3>2, <3>3 DEF ScriptLeft
    <2>8. Held'
        BY <2>2, <2>3, <2>7 DEF Held, Busy
    <2> QED BY <2>7, <2>8 DEF IInv, Engaged
<1> QED BY <1>1, <1>2

LEMMA SeeStep ==
    ASSUME IInv, See, UNCHANGED guiVars PROVE IInv'
<1>0. /\ drv.pc = "wait" /\ Answered /\ Seen(Outcome)
      /\ UNCHANGED <<bus, engine, clkdiv, where>>
    BY DEF See, device, guiVars
<1>1. engine.cmd = "none"
    BY <1>0 DEF Answered, IInv, Engaged
<1>2. ASSUME bus.by = "hazard3" PROVE (First => Outcome = "OK") /\ Len(drv.script) # 1
    <2>1. /\ drv.call.op # "recover" /\ Len(drv.script) # 1
          /\ First => ~engine.rejected /\ ~engine.timeout
        BY <1>0, <1>1, <1>2 DEF IInv, Held
    <2>2. First => Head(drv.script)[1] = "start"
        BY <1>0, <2>1, Names DEF IInv, ScriptLeft, Busy
    <2> QED BY <2>1, <2>2 DEF Outcome
<1>3. Rate'
    BY <1>0 DEF IInv, Rate
<1>4. Shaped'
    <2>1. drv' = [call |-> drv'.call, script |-> drv'.script, rc |-> drv'.rc,
                  left |-> drv'.left, value |-> drv'.value, pc |-> drv'.pc]
        BY <1>0 DEF Seen, Ends, Returned, IInv, Shaped
    <2> QED BY <1>0, <2>1 DEF IInv, Shaped
<1> QED BY <1>0, <1>1, <1>2, <1>3, <1>4, SeenStep

LEMMA SpinsStep ==
    ASSUME IInv, SpinsRunOut, UNCHANGED guiVars PROVE IInv'
<1>0. /\ drv.pc = "wait" /\ Seen("TIMEOUT") /\ UNCHANGED <<clkdiv, where>>
      /\ engine' = [engine EXCEPT !.cmd = "none", !.byte = NoValue, !.done = TRUE]
      /\ IF bus.by = "hazard3" THEN DeviceStop ELSE UNCHANGED bus
    BY DEF SpinsRunOut, guiVars
<1>1. bus'.by # "hazard3" /\ bus' = [by |-> bus'.by, turn |-> bus'.turn]
    BY <1>0 DEF DeviceStop, IInv, Shaped
<1>2. Rate'
    BY <1>0 DEF IInv, Rate
<1>3. /\ engine'.cmd = "none"
      /\ engine' = [cmd |-> engine'.cmd, byte |-> engine'.byte,
                    done |-> engine'.done, ack |-> engine'.ack,
                    timeout |-> engine'.timeout, rejected |-> engine'.rejected,
                    rx |-> engine'.rx]
    BY <1>0 DEF IInv, Shaped
<1>4. Shaped'
    <2>1. drv' = [call |-> drv'.call, script |-> drv'.script, rc |-> drv'.rc,
                  left |-> drv'.left, value |-> drv'.value, pc |-> drv'.pc]
        BY <1>0 DEF Seen, Ends, Returned, IInv, Shaped
    <2> QED BY <1>1, <1>3, <2>1 DEF Shaped
<1> QED BY <1>0, <1>1, <1>2, <1>3, <1>4, SeenStep

----------------------------------------------------------------------------
\* The bridge has a command of the call, and which one it is tells where the
\* call is.
LEMMA AtWork ==
    ASSUME IInv, engine.cmd \notin {"none", "hung"}
    PROVE  /\ drv.pc = "wait" /\ ~engine.rejected
           /\ engine.cmd = "start" => /\ drv.call.op # "recover"
           /\ bus.by = "hazard3" => ~First
           /\ engine.cmd # "stop" =>
                  Len(drv.script) # 1 \/ drv.call.op = "recover"
<1>1. drv.pc = "wait" /\ engine.cmd = Head(drv.script)[1] /\ ~engine.rejected
    BY DEF IInv, Engaged
<1>2. drv.script \in Seq(Commands) /\ drv.script # <<>>
    BY <1>1 DEF IInv, ScriptLeft, Busy
<1>3. CASE drv.call.op = "recover"
    <2>1. Head(drv.script) = RECOVER
        BY <1>1, <1>3 DEF IInv, ScriptLeft, Busy
    <2>2. bus.by # "hazard3"
        BY <1>3 DEF IInv, Held
    <2> QED BY <1>1, <1>3, <2>1, <2>2, Names
<1>4. CASE drv.call.op # "recover"
    <2>1. drv.script[Len(drv.script)] = STOP
        BY <1>1, <1>4 DEF IInv, ScriptLeft, Busy
    <2>2. Len(drv.script) = 1 => engine.cmd = "stop"
        BY <1>1, <1>2, <2>1, Names
    <2>3. bus.by = "hazard3" => ~First
        BY DEF IInv, Held
    <2> QED BY <1>1, <1>4, <2>2, <2>3
<1> QED BY <1>3, <1>4

\* The bridge has done its command: it has left the bus, or it was not the last.
LEMMA DoneStep ==
    ASSUME IInv, engine.cmd \notin {"none", "hung"},
           UNCHANGED <<drv, guiVars>>,
           NEW timeout, NEW ack, NEW rx, Completed(timeout, ack, rx),
           bus' = [by |-> bus'.by, turn |-> bus'.turn],
           \/ bus'.by # "hazard3"
           \/ bus'.by = bus.by /\ engine.cmd # "stop"
           \/ engine.cmd = "start" /\ ~timeout
    PROVE  IInv'
<1>0. /\ drv.pc = "wait" /\ ~engine.rejected
      /\ engine.cmd = "start" => drv.call.op # "recover"
      /\ bus.by = "hazard3" => ~First
      /\ engine.cmd # "stop" => Len(drv.script) # 1 \/ drv.call.op = "recover"
    BY AtWork
<1>1. /\ engine'.cmd = "none" /\ engine'.timeout = timeout
      /\ engine'.rejected = engine.rejected
      /\ engine' = [cmd |-> engine'.cmd, byte |-> engine'.byte,
                    done |-> engine'.done, ack |-> engine'.ack,
                    timeout |-> engine'.timeout, rejected |-> engine'.rejected,
                    rx |-> engine'.rx]
    BY DEF Completed, IInv, Shaped
<1>2. Shaped' /\ Rate'
    BY <1>1 DEF IInv, Shaped, Rate, guiVars
<1>3. ScriptLeft'
    BY DEF IInv, ScriptLeft, Busy, First
<1>4. Engaged'
    BY <1>0, <1>1 DEF Engaged
<1>5. Held'
    <2>1. CASE bus'.by # "hazard3"
        BY <2>1 DEF Held
    <2>2. CASE bus'.by = "hazard3" /\ bus'.by = bus.by /\ engine.cmd # "stop"
        <3>1. drv.call.op # "recover" /\ Busy /\ ~First /\ Len(drv.script) # 1
            BY <1>0, <2>2 DEF IInv, Held
        <3> QED BY <3>1 DEF Held, Busy, First
    <2>3. CASE engine.cmd = "start" /\ ~timeout
        <3>1. drv.call.op # "recover" /\ Busy /\ Len(drv.script) # 1
            BY <1>0, <2>3 DEF Busy
        <3>2. ~engine'.rejected /\ ~engine'.timeout
            BY <1>0, <1>1, <2>3
        <3> QED BY <1>0, <1>1, <3>1, <3>2 DEF Held, Busy, First
    <2> QED BY <2>1, <2>2, <2>3
<1> QED BY <1>2, <1>3, <1>4, <1>5 DEF IInv

LEMMA EngineStep ==
    ASSUME IInv, Engine, UNCHANGED guiVars PROVE IInv'
<1>0. bus = [by |-> bus.by, turn |-> bus.turn]
    BY DEF IInv, Shaped
<1>1. CASE EngineStart
    <2>1. Completed(FALSE, FALSE, NoValue) /\ UNCHANGED drv /\ engine.cmd = "start"
          /\ bus' = [by |-> bus'.by, turn |-> bus'.turn]
        BY <1>1 DEF EngineStart, KeepsCall, DeviceStart
    <2> QED BY <2>1, DoneStep
<1>2. CASE EngineStop
    <2>1. PICK timeout \in BOOLEAN : Completed(timeout, FALSE, NoValue)
        BY <1>2 DEF EngineStop
    <2>2. UNCHANGED drv /\ engine.cmd = "stop" /\ bus'.by # "hazard3"
          /\ bus' = [by |-> bus'.by, turn |-> bus'.turn]
        BY <1>2 DEF EngineStop, KeepsCall, DeviceStop
    <2> QED BY <2>1, <2>2, DoneStep
<1>3. CASE EngineWrite
    <2>1. Completed(FALSE, Acked(engine.byte), NoValue) /\ UNCHANGED drv
          /\ engine.cmd = "write"
        BY <1>3 DEF EngineWrite, KeepsCall
    <2>2. bus'.by = bus.by /\ bus' = [by |-> bus'.by, turn |-> bus'.turn]
        BY <1>0, <1>3 DEF EngineWrite, DeviceTakes, device
    <2> QED BY <2>1, <2>2, DoneStep
<1>4. CASE EngineRead
    <2>1. Completed(FALSE, FALSE, <<ptr, regs[ptr]>>) /\ UNCHANGED drv
          /\ engine.cmd = "read"
        BY <1>4 DEF EngineRead, KeepsCall
    <2>2. bus'.by = bus.by /\ bus' = [by |-> bus'.by, turn |-> bus'.turn]
        BY <1>0, <1>4 DEF EngineRead
    <2> QED BY <2>1, <2>2, DoneStep
<1>5. CASE EngineRecover
    <2>1. PICK recovered \in BOOLEAN : Completed(FALSE, recovered, NoValue)
        BY <1>5 DEF EngineRecover
    <2>2. UNCHANGED <<drv, bus>> /\ engine.cmd = "recover"
        BY <1>5 DEF EngineRecover, KeepsCall, device
    <2> QED BY <1>0, <2>1, <2>2, DoneStep
<1>6. CASE EngineTimesOut
    <2>1. Completed(TRUE, FALSE, NoValue) /\ UNCHANGED <<drv, bus>>
          /\ engine.cmd \in {"start", "write", "read"}
        BY <1>6 DEF EngineTimesOut, KeepsCall, device
    <2> QED BY <1>0, <2>1, DoneStep
<1>7. CASE Hangs
    <2>1. engine.cmd \notin {"none", "hung"} /\ UNCHANGED <<drv, bus>>
          /\ engine' = [engine EXCEPT !.cmd = "hung"]
        BY <1>7 DEF Hangs, device
    <2>2. drv.pc = "wait" /\ ~engine.rejected
        BY <2>1, AtWork
    <2>3. /\ engine'.cmd = "hung" /\ engine'.rejected = engine.rejected
          /\ engine' = [cmd |-> engine'.cmd, byte |-> engine'.byte,
                    done |-> engine'.done, ack |-> engine'.ack,
                    timeout |-> engine'.timeout, rejected |-> engine'.rejected,
                    rx |-> engine'.rx]
        BY <2>1 DEF IInv, Shaped
    <2>4. Shaped' /\ Rate' /\ Engaged'
        BY <2>1, <2>2, <2>3 DEF IInv, Shaped, Rate, Engaged, guiVars
    <2>5. ScriptLeft'
        BY <2>1 DEF IInv, ScriptLeft, Busy, First
    <2>6. Held'
        <3>1. bus.by = "hazard3" => ~First /\ Busy /\ drv.call.op # "recover"
            BY <2>1, AtWork DEF IInv, Held
        <3> QED BY <2>1, <2>3, <3>1 DEF Held, Busy, First
    <2> QED BY <2>4, <2>5, <2>6 DEF IInv
<1> QED BY <1>1, <1>2, <1>3, <1>4, <1>5, <1>6, <1>7 DEF Engine

LEMMA IssueStep ==
    ASSUME IInv, Issue, UNCHANGED guiVars PROVE IInv'
<1>0. /\ drv.pc = "issue" /\ UNCHANGED bus
      /\ Command(Head(drv.script)) /\ drv' = [drv EXCEPT !.pc = "wait"]
    BY DEF Issue, device
<1>1. engine.cmd = "none" /\ (bus.by = "hazard3" => ~First)
    BY <1>0 DEF IInv, Engaged, Held
<1>2. /\ drv'.pc = "wait" /\ drv'.script = drv.script /\ drv'.call = drv.call
      /\ drv'.left = drv.left
      /\ drv' = [call |-> drv'.call, script |-> drv'.script, rc |-> drv'.rc,
                 left |-> drv'.left, value |-> drv'.value, pc |-> drv'.pc]
    BY <1>0 DEF IInv, Shaped
<1>3. ScriptLeft'
    <2>1. First' = First
        BY <1>2 DEF First
    <2> QED BY <1>0, <1>2, <2>1 DEF IInv, ScriptLeft, Busy
<1>4. Rate'
    BY DEF IInv, Rate, guiVars
<1>5. engine' = [cmd |-> engine'.cmd, byte |-> engine'.byte,
                 done |-> engine'.done, ack |-> engine'.ack,
                 timeout |-> engine'.timeout, rejected |-> engine'.rejected,
                 rx |-> engine'.rx]
    BY <1>0 DEF Command, IInv, Shaped
<1>6. Shaped'
    BY <1>0, <1>2, <1>5 DEF IInv, Shaped
<1>7. CASE Wanted /\ bus.by # "hazard3"
    <2>1. engine'.cmd = "none"
        BY <1>0, <1>1, <1>7 DEF Command, IInv, Shaped
    <2> QED BY <1>0, <1>3, <1>4, <1>6, <1>7, <2>1 DEF IInv, Engaged, Held
<1>8. CASE ~(Wanted /\ bus.by # "hazard3")
    <2>1. engine'.cmd = Head(drv.script)[1] /\ ~engine'.rejected
        BY <1>0, <1>8 DEF Command, IInv, Shaped
    <2>2. Engaged'
        BY <1>2, <2>1 DEF Engaged
    <2>3. Held'
        <3> SUFFICES ASSUME bus.by = "hazard3" PROVE Held'
            BY <1>0 DEF Held
        <3>1. drv.call.op # "recover" /\ ~First
            BY <1>1 DEF IInv, Held
        <3>2. /\ drv.script \in Seq(Commands) /\ drv.script # <<>>
              /\ drv.script[Len(drv.script)] = STOP
            BY <1>0, <3>1 DEF IInv, ScriptLeft, Busy
        <3>3. Len(drv.script) = 1 => engine'.cmd = "stop"
            BY <2>1, <3>2, Names
        <3>4. ~First'
            BY <1>2, <3>1 DEF First
        <3> QED BY <1>2, <3>1, <3>3, <3>4 DEF Held, Busy
    <2> QED BY <1>3, <1>4, <1>6, <2>2, <2>3 DEF IInv
<1> QED BY <1>7, <1>8

\* The others take the bus only when it is free, and give it back.
LEMMA OthersStep ==
    ASSUME IInv, UNCHANGED <<engine, drv>>, Rate',
           bus' = [by |-> bus'.by, turn |-> bus'.turn],
           bus'.by # "hazard3" \/ bus' = bus
    PROVE  IInv'
<1>1. Shaped' /\ ScriptLeft' /\ Engaged'
    BY DEF IInv, Shaped, ScriptLeft, Engaged, Busy, First
<1>2. Held'
    BY DEF IInv, Held, Busy, First
<1> QED BY <1>1, <1>2 DEF IInv

LEMMA EspStep ==
    ASSUME IInv, Proxy \/ Client, UNCHANGED guiVars PROVE IInv'
<1>0. bus = [by |-> bus.by, turn |-> bus.turn] /\ Rate'
    BY DEF IInv, Shaped, Rate, guiVars
<1>1. UNCHANGED <<engine, drv>>
    BY DEF Proxy, Client, Receive, Grant, Info, Transact, GrantTimesOut, Lose,
        Reply, transact, receive_response, TimesOut, Restart, hazard3
<1>2. CASE Grant
    <2>1. bus' = [by |-> bus'.by, turn |-> bus'.turn] /\ bus'.by # "hazard3"
        BY <1>0, <1>2 DEF Grant
    <2> QED BY <1>0, <1>1, <2>1, OthersStep
<1>3. CASE Transact
    <2>1. bus' = [by |-> bus'.by, turn |-> bus'.turn] /\ bus'.by # "hazard3"
        BY <1>3 DEF Transact, DeviceStop
    <2> QED BY <1>0, <1>1, <2>1, OthersStep
<1>4. CASE Receive \/ Info \/ GrantTimesOut \/ Lose \/ Client
    <2>1. bus' = bus
        BY <1>4 DEF Client, Receive, Info, GrantTimesOut, Lose, transact,
            receive_response, TimesOut, Restart, device
    <2> QED BY <1>0, <1>1, <2>1, OthersStep
<1> QED BY <1>2, <1>3, <1>4 DEF Proxy

----------------------------------------------------------------------------
LEMMA BeginStep ==
    ASSUME IInv, NEW c \in Calls, Begin(c), Rate' PROVE IInv'
<1>0. drv.pc = "idle" /\ UNCHANGED <<bus, engine>>
    BY DEF Begin, DriverIdle, device
<1>1. bus'.by # "hazard3" /\ engine'.cmd = "none"
    BY <1>0 DEF IInv, Held, Engaged, Busy
<1>2. c \in ACall
    BY SaoAssumption DEF Calls, ACall, Ops, Address
<1>3. CASE c.address = Invalid
    <2>1. Returned(c, "ARGUMENT", NoValue)
        BY <1>3 DEF Begin
    <2>2. /\ drv'.pc = "returned"
          /\ drv' = [call |-> drv'.call, script |-> drv'.script, rc |-> drv'.rc,
                     left |-> drv'.left, value |-> drv'.value, pc |-> drv'.pc]
        BY <2>1 DEF Returned, IInv, Shaped
    <2>3. Shaped'
        BY <1>0, <2>2 DEF IInv, Shaped
    <2> QED BY <1>1, <2>2, <2>3, EndsFree
<1>4. CASE c.address # Invalid
    <2>1. drv' = [call |-> c, script |-> Script(c), rc |-> "OK",
                  left |-> IF c.op = "scan" THEN {Absent} ELSE {},
                  value |-> NoValue, pc |-> "issue"]
        BY <1>4 DEF Begin
    <2>2. /\ drv'.pc = "issue" /\ drv'.call = c /\ drv'.script = Script(c)
          /\ drv'.left \subseteq Address
          /\ drv' = [call |-> drv'.call, script |-> drv'.script, rc |-> drv'.rc,
                     left |-> drv'.left, value |-> drv'.value, pc |-> drv'.pc]
        BY <2>1 DEF Address
    <2>3. Shaped'
        BY <1>0, <2>2 DEF IInv, Shaped
    <2> QED BY <1>1, <1>2, <2>2, <2>3, BeginsFree
<1> QED BY <1>3, <1>4

LEMMA TakenStep ==
    ASSUME IInv, Taken, Rate' PROVE IInv'
<1>0. drv.pc = "returned" /\ UNCHANGED <<bus, engine>>
      /\ drv' = [drv EXCEPT !.pc = "idle"]
    BY DEF Taken, device
<1>1. bus'.by # "hazard3" /\ engine'.cmd = "none"
    BY <1>0 DEF IInv, Held, Engaged, Busy
<1>2. /\ drv'.pc = "idle"
      /\ drv' = [call |-> drv'.call, script |-> drv'.script, rc |-> drv'.rc,
                 left |-> drv'.left, value |-> drv'.value, pc |-> drv'.pc]
    BY <1>0 DEF IInv, Shaped
<1>3. Shaped'
    BY <1>0, <1>2 DEF IInv, Shaped
<1> QED BY <1>1, <1>2, <1>3, EndsFree

\* However the screen is left, it sets the rate back.
LEMMA RateStep ==
    ASSUME Rate, [Next]_vars PROVE Rate'
<1>1. CASE UNCHANGED guiVars
    BY <1>1 DEF Rate, guiVars
<1>2. CASE EnterGui \/ Screen
    BY <1>2 DEF Rate, EnterGui, Screen, Draw, Refresh, Quit, set_speed,
        prompt_begin, Digit, Backspace, Cancel, Incomplete, prompt_execute,
        ScanOrRecover, Performed, Performs, Redraws, Leaves, Closes,
        hazard3_sao_init
<1> QED BY <1>1, <1>2 DEF Next, vars, ConsoleCommand, ConsoleResult

LEMMA IInvStep == IInv /\ [Next]_vars => IInv'
<1> SUFFICES ASSUME IInv, [Next]_vars PROVE IInv'
    OBVIOUS
<1>0. Rate'
    BY RateStep DEF IInv
<1>1. CASE SaoNext /\ UNCHANGED guiVars
    BY <1>1, EngineStep, IssueStep, SeeStep, SpinsStep, EspStep
        DEF SaoNext, Driver
<1>2. CASE ConsoleCommand \/ prompt_execute \/ ScanOrRecover
    <2>1. PICK c \in Calls : Begin(c)
        BY <1>2 DEF ConsoleCommand, prompt_execute, ScanOrRecover, Performs
    <2> QED BY <1>0, <2>1, BeginStep
<1>3. CASE ConsoleResult \/ Performed
    BY <1>0, <1>3, TakenStep DEF ConsoleResult, Performed
<1>4. CASE UNCHANGED saoVars
    <2>1. UNCHANGED <<bus, engine, drv>>
        BY <1>4 DEF saoVars, device, hazard3
    <2>2. bus = [by |-> bus.by, turn |-> bus.turn]
        BY DEF IInv, Shaped
    <2> QED BY <1>0, <2>1, <2>2, OthersStep
<1>5. EnterGui \/ Draw \/ Refresh \/ Quit \/ set_speed \/ prompt_begin \/ Digit
          \/ Backspace \/ Cancel \/ Incomplete \/ UNCHANGED vars
      => UNCHANGED saoVars
    BY DEF EnterGui, Draw, Refresh, Quit, set_speed, prompt_begin, Digit,
        Backspace, Cancel, Incomplete, Redraws, vars
<1> QED BY <1>1, <1>2, <1>3, <1>4, <1>5 DEF Next, Screen

LEMMA InitIInv == Init => IInv
<1> SUFFICES ASSUME Init PROVE IInv
    OBVIOUS
<1>1. Shaped
    BY DEF Init, SaoInit, Shaped
<1>2. drv.pc = "idle" /\ engine.cmd = "none" /\ bus.by = "none"
      /\ ~engine.rejected
    BY DEF Init, SaoInit
<1>3. ScriptLeft /\ Engaged /\ Held
    BY <1>2 DEF ScriptLeft, Engaged, Held, Busy
<1>4. Rate
    BY DEF Init, Rate
<1> QED BY <1>1, <1>3, <1>4 DEF IInv

\* Between two calls Hazard3 is off the bus, after any NACK, timeout, rejection
\* or hang (hazard3_sao.c), and the screen restores the bus rate when it is left
\* (i2cdriver_hdmi.c).
THEOREM BusReleasedCorrect == Spec => []BusReleased
<1>1. Spec => []IInv
    BY InitIInv, IInvStep, PTL DEF Spec
<1> QED BY <1>1, IInvReleases, PTL

----------------------------------------------------------------------------
(***************************************************************************)
(* What a call that returned OK did.  Reached says what a call has done    *)
(* by the commands that are left of it; the bus is Hazard3's from START to *)
(* STOP (Granted: the proxy waits for it), so neither the turn of the      *)
(* device nor its register pointer changes in between.                     *)
(***************************************************************************)
OnBus(b, turn) == b.by = "hazard3" /\ b.turn = turn

\* What the call c has done, if all went well, when the commands s are left of
\* it and it has read v; the bus is b, the pointer p, and the device took a.
Reached(c, s, v, b, p, a) ==
    /\ c.op \in {"probe", "scan"} =>
        \/ s = probe(c)
        \/ s = <<AddressWrite(c.address), STOP>> /\ OnBus(b, "address")
        \/ s \in {<<STOP>>, <<>>} /\ c.address = Device
    /\ c.op = "write" =>
        \/ s = write_reg8(c) /\ a = <<>>
        \/ /\ s = <<AddressWrite(c.address), Byte(c.reg), Byte(c.value), STOP>>
           /\ OnBus(b, "address") /\ a = <<>>
        \/ s = <<Byte(c.reg), Byte(c.value), STOP>> /\ OnBus(b, "reg") /\ a = <<>>
        \/ /\ s = <<Byte(c.value), STOP>>
           /\ OnBus(b, "data") /\ p = c.reg /\ a = <<>>
        \/ s \in {<<STOP>>, <<>>} /\ a = <<<<c.reg, c.value>>>>
    /\ c.op = "read" =>
        /\ a = <<>>
        /\ \/ s = read_reg8(c)
           \/ /\ s = <<AddressWrite(c.address), Byte(c.reg),
                       START, AddressRead(c.address), READ, STOP>>
              /\ OnBus(b, "address")
           \/ /\ s = <<Byte(c.reg), START, AddressRead(c.address), READ, STOP>>
              /\ OnBus(b, "reg")
           \/ /\ s = <<START, AddressRead(c.address), READ, STOP>>
              /\ OnBus(b, "data") /\ p = c.reg
           \/ /\ s = <<AddressRead(c.address), READ, STOP>>
              /\ OnBus(b, "address") /\ p = c.reg
           \/ s = <<READ, STOP>> /\ OnBus(b, "read") /\ p = c.reg
           \/ s \in {<<STOP>>, <<>>} /\ v[1] = c.reg

ValueSeen == IF Head(drv.script) = READ THEN engine.rx ELSE drv.value

Granted ==
    /\ proxy = [state |-> proxy.state, request |-> proxy.request]
    /\ proxy.state = "owns" => bus.by = "esp" /\ engine.cmd = "none"

Course ==
    /\ engine.cmd \notin {"none", "hung"} => engine.byte = Head(drv.script)[2]
    /\ Busy /\ drv.left # {} => drv.call.op = "scan"
    /\ Busy /\ drv.rc = "OK" /\ (drv.pc = "issue" \/ engine.cmd # "none") =>
           Reached(drv.call, drv.script, drv.value, bus, ptr, acted)
    /\ drv.pc = "wait" /\ engine.cmd = "none" /\ drv.rc = "OK" /\ Outcome = "OK" =>
           Reached(drv.call, Tail(drv.script), ValueSeen, bus, ptr, acted)
    /\ drv.pc = "idle" => acted = <<>>
    /\ drv.pc = "returned" /\ ret.rc = "OK" =>
           Reached(ret.call, <<>>, ret.value, bus, ptr, acted)

RInv == IInv /\ Granted /\ Course

LEMMA CourseResult == Course => ResultTrue
<1> SUFFICES ASSUME Course, drv.pc = "returned", ret.rc = "OK"
             PROVE  /\ ret.call.op = "read" => ret.value[1] = ret.call.reg /\ acted = <<>>
                    /\ ret.call.op = "write" =>
                           acted = <<<<ret.call.reg, ret.call.value>>>>
                    /\ ret.call.op = "probe" => ret.call.address = Device
    BY DEF ResultTrue
<1>1. Reached(ret.call, <<>>, ret.value, bus, ptr, acted)
    BY DEF Course
<1>2. \A x : <<>> # <<x>>
    OBVIOUS
<1> QED BY <1>1 DEF Reached, probe, write_reg8, read_reg8

\* While Hazard3 has the bus, only its own commands count.
LEMMA ReachedFrame ==
    ASSUME NEW c, NEW s, NEW v, NEW b, NEW p, NEW a, NEW b2, NEW p2,
           Reached(c, s, v, b, p, a), b.by = "hazard3" => b2 = b /\ p2 = p
    PROVE  Reached(c, s, v, b2, p2, a)
BY DEF Reached, OnBus

\* The steps that are not about a call.
LEMMA CourseFrame ==
    ASSUME Course, UNCHANGED <<engine, drv, ret, acted>>,
           bus.by = "hazard3" => bus' = bus /\ ptr' = ptr
    PROVE  Course'
<1>1. ASSUME NEW c, NEW s, NEW v, Reached(c, s, v, bus, ptr, acted)
      PROVE  Reached(c, s, v, bus', ptr', acted')
    BY <1>1, ReachedFrame
<1>2. ValueSeen' = ValueSeen /\ Outcome' = Outcome /\ Busy' = Busy
    BY DEF ValueSeen, Outcome, Busy
<1> QED BY <1>1, <1>2 DEF Course

LEMMA StepKinds ==
    ASSUME [Next]_vars
    PROVE  SaoNext \/ (\E c \in Calls : Begin(c)) \/ Taken \/ UNCHANGED saoVars
<1>1. ConsoleCommand \/ prompt_execute \/ ScanOrRecover => \E c \in Calls : Begin(c)
    BY DEF ConsoleCommand, prompt_execute, ScanOrRecover, Performs
<1>2. ConsoleResult \/ Performed => Taken
    BY DEF ConsoleResult, Performed
<1>3. EnterGui \/ Draw \/ Refresh \/ Quit \/ set_speed \/ prompt_begin \/ Digit
          \/ Backspace \/ Cancel \/ Incomplete \/ UNCHANGED vars
      => UNCHANGED saoVars
    BY DEF EnterGui, Draw, Refresh, Quit, set_speed, prompt_begin, Digit,
        Backspace, Cancel, Incomplete, Redraws, vars
<1> QED BY <1>1, <1>2, <1>3 DEF Next, Screen

LEMMA GrantedStep == ASSUME IInv, Granted, [Next]_vars PROVE Granted'
<1>0. /\ bus = [by |-> bus.by, turn |-> bus.turn]
      /\ engine = [cmd |-> engine.cmd, byte |-> engine.byte,
                 done |-> engine.done, ack |-> engine.ack,
                 timeout |-> engine.timeout, rejected |-> engine.rejected,
                 rx |-> engine.rx]
      /\ proxy = [state |-> proxy.state, request |-> proxy.request]
    BY DEF IInv, Shaped, Granted
<1>1. CASE Engine
    <2>1. engine.cmd # "none" /\ proxy' = proxy
        BY <1>1 DEF Engine, EngineStart, EngineStop, EngineWrite, EngineRead,
            EngineRecover, EngineTimesOut, Hangs, KeepsCall, espVars
    <2> QED BY <2>1 DEF Granted
<1>2. CASE Issue
    <2>1. proxy' = proxy /\ bus' = bus /\ Command(Head(drv.script))
        BY <1>2 DEF Issue, espVars, device
    <2>2. proxy.state = "owns" => engine'.cmd = engine.cmd
        BY <1>0, <2>1 DEF Command, Wanted, Granted
    <2> QED BY <2>1, <2>2 DEF Granted
<1>3. CASE SpinsRunOut
    <2>1. proxy' = proxy /\ engine.cmd = "hung"
        BY <1>3 DEF SpinsRunOut, espVars
    <2> QED BY <2>1 DEF Granted
<1>4. CASE Receive \/ Info \/ Transact \/ GrantTimesOut
    <2>1. CASE Receive
        <3>1. proxy'.state # "owns"
              /\ proxy' = [state |-> proxy'.state, request |-> proxy'.request]
            BY <2>1 DEF Receive
        <3> QED BY <3>1 DEF Granted
    <2>2. CASE Info \/ Transact \/ GrantTimesOut
        <3>1. proxy' = [proxy EXCEPT !.state = "idle"]
            BY <2>2 DEF Info, Transact, GrantTimesOut, Reply
        <3>2. proxy'.state = "idle"
              /\ proxy' = [state |-> proxy'.state, request |-> proxy'.request]
            BY <1>0, <3>1
        <3> QED BY <3>2 DEF Granted
    <2> QED BY <1>4, <2>1, <2>2
<1>5. CASE Grant
    <2>1. /\ engine.cmd = "none" /\ engine' = engine
          /\ proxy' = [proxy EXCEPT !.state = "owns"]
          /\ bus' = [bus EXCEPT !.by = "esp"]
        BY <1>5 DEF Grant, hazard3
    <2>2. bus'.by = "esp"
          /\ proxy' = [state |-> proxy'.state, request |-> proxy'.request]
        BY <1>0, <2>1
    <2> QED BY <2>1, <2>2 DEF Granted
<1>6. CASE See \/ Lose \/ Client
    <2>1. UNCHANGED <<proxy, bus, engine>>
        BY <1>6 DEF See, Lose, Client, transact, receive_response, TimesOut,
            Restart, device, hazard3, espVars
    <2> QED BY <2>1 DEF Granted
<1>7. CASE \E c \in Calls : Begin(c)
    <2>1. UNCHANGED <<proxy, bus, engine>>
        BY <1>7 DEF Begin, device, espVars
    <2> QED BY <2>1 DEF Granted
<1>8. CASE Taken
    <2>1. UNCHANGED <<proxy, bus, engine>>
        BY <1>8 DEF Taken, device, espVars
    <2> QED BY <2>1 DEF Granted
<1>9. CASE UNCHANGED saoVars
    <2>1. UNCHANGED <<proxy, bus, engine>>
        BY <1>9 DEF saoVars, device, hazard3, espVars
    <2> QED BY <2>1 DEF Granted
<1> QED BY <1>1, <1>2, <1>3, <1>4, <1>5, <1>6, <1>7, <1>8, <1>9, StepKinds
        DEF SaoNext, Driver, Proxy

----------------------------------------------------------------------------
\* The bridge has done a command of the call.
LEMMA CourseDone ==
    ASSUME IInv, Course, engine.cmd \notin {"none", "hung"}, UNCHANGED <<drv, ret>>,
           NEW timeout, NEW ack, NEW rx, Completed(timeout, ack, rx),
           drv.rc = "OK" /\ ~timeout /\ (Head(drv.script)[1] = "write" => ack) =>
               Reached(drv.call, Tail(drv.script),
                       IF Head(drv.script) = READ THEN rx ELSE drv.value,
                       bus', ptr', acted')
    PROVE  Course'
<1>1. drv.pc = "wait" /\ ~engine.rejected
    BY AtWork
<1>2. /\ engine'.cmd = "none" /\ engine'.timeout = timeout /\ engine'.ack = ack
      /\ engine'.rejected = engine.rejected /\ engine'.rx = rx
    BY DEF Completed, IInv, Shaped
<1>3. Outcome' = "OK" => ~timeout /\ (Head(drv.script)[1] = "write" => ack)
    BY <1>1, <1>2 DEF Outcome
<1>4. ValueSeen' = IF Head(drv.script) = READ THEN rx ELSE drv.value
    BY <1>2 DEF ValueSeen
<1> QED BY <1>1, <1>2, <1>3, <1>4 DEF Course, Busy

\* Where the call is when the bridge works for it.
LEMMA AtCourse ==
    ASSUME IInv, Course, engine.cmd \notin {"none", "hung"}
    PROVE  /\ drv.rc = "OK" =>
                  Reached(drv.call, drv.script, drv.value, bus, ptr, acted)
           /\ engine.cmd = Head(drv.script)[1]
           /\ engine.byte = Head(drv.script)[2]
           /\ drv.call \in ACall /\ drv.script # <<>>
<1>1. drv.pc = "wait" /\ engine.cmd = Head(drv.script)[1]
    BY DEF IInv, Engaged
<1> QED BY <1>1 DEF Course, Busy, IInv, ScriptLeft

LEMMA CourseStart ==
    ASSUME IInv, Course, EngineStart PROVE Course'
<1>1. /\ engine.cmd = "start" /\ Completed(FALSE, FALSE, NoValue)
      /\ bus' = [by |-> "hazard3", turn |-> "address"]
      /\ UNCHANGED <<drv, ret, ptr, acted>>
    BY DEF EngineStart, DeviceStart, KeepsCall
<1> DEFINE c == drv.call
           s == drv.script
           v == IF Head(s) = READ THEN NoValue ELSE drv.value
<1>2. ASSUME drv.rc = "OK" PROVE Reached(c, Tail(s), v, bus', ptr', acted')
    <2>1. Reached(c, s, drv.value, bus, ptr, acted) /\ Head(s)[1] = "start"
          /\ s # <<>>
        BY <1>1, <1>2, AtCourse
    <2>2. OnBus(bus', "address")
        BY <1>1 DEF OnBus
    <2> HIDE DEF c, s, v
    <2>3. CASE c.op \in {"probe", "scan"}
        <3>1. s = probe(c)
            BY <2>1, <2>3 DEF Reached, AddressWrite, STOP
        <3>2. Tail(s) = <<AddressWrite(c.address), STOP>>
            BY <3>1 DEF probe
        <3> QED BY <2>2, <2>3, <3>2 DEF Reached
    <2>4. CASE c.op = "write"
        <3>1. s = write_reg8(c) /\ acted = <<>>
            BY <2>1, <2>4 DEF Reached, AddressWrite, Byte, STOP
        <3>2. Tail(s) = <<AddressWrite(c.address), Byte(c.reg), Byte(c.value), STOP>>
            BY <3>1 DEF write_reg8
        <3> QED BY <1>1, <2>2, <2>4, <3>1, <3>2 DEF Reached
    <2>5. CASE c.op = "read"
        <3>1. /\ acted = <<>>
              /\ \/ s = read_reg8(c)
                 \/ s = <<START, AddressRead(c.address), READ, STOP>> /\ ptr = c.reg
            BY <2>1, <2>5 DEF Reached, AddressWrite, AddressRead, Byte, READ, STOP
        <3>2. CASE s = read_reg8(c)
            <4>1. Tail(s) = <<AddressWrite(c.address), Byte(c.reg),
                              START, AddressRead(c.address), READ, STOP>>
                BY <3>2 DEF read_reg8
            <4> QED BY <1>1, <2>2, <2>5, <3>1, <4>1 DEF Reached
        <3>3. CASE s = <<START, AddressRead(c.address), READ, STOP>> /\ ptr = c.reg
            <4>1. Tail(s) = <<AddressRead(c.address), READ, STOP>>
                BY <3>3
            <4> QED BY <1>1, <2>2, <2>5, <3>1, <3>3, <4>1 DEF Reached
        <3> QED BY <3>1, <3>2, <3>3
    <2> QED BY <2>3, <2>4, <2>5 DEF Reached
<1> QED BY <1>1, <1>2, CourseDone

LEMMA CourseStop ==
    ASSUME IInv, Course, EngineStop PROVE Course'
<1>1. PICK timeout \in BOOLEAN : Completed(timeout, FALSE, NoValue)
    BY DEF EngineStop
<1>2. engine.cmd = "stop" /\ UNCHANGED <<drv, ret, ptr, acted>>
    BY DEF EngineStop, KeepsCall
<1> DEFINE c == drv.call
           s == drv.script
           v == IF Head(s) = READ THEN NoValue ELSE drv.value
<1>3. ASSUME drv.rc = "OK" PROVE Reached(c, Tail(s), v, bus', ptr', acted')
    <2>1. Reached(c, s, drv.value, bus, ptr, acted) /\ Head(s)[1] = "stop"
          /\ s # <<>>
        BY <1>2, <1>3, AtCourse
    <2> HIDE DEF c, s
    <2>2. c.op \in {"probe", "scan"} => s = <<STOP>> /\ c.address = Device
        BY <2>1 DEF Reached, probe, AddressWrite, START
    <2>3. c.op = "write" => s = <<STOP>> /\ acted = <<<<c.reg, c.value>>>>
        BY <2>1 DEF Reached, write_reg8, AddressWrite, Byte, START
    <2>4. c.op = "read" => s = <<STOP>> /\ acted = <<>> /\ drv.value[1] = c.reg
        BY <2>1 DEF Reached, read_reg8, AddressWrite, AddressRead, Byte, START, READ
    <2>5. s = <<STOP>> => Tail(s) = <<>> /\ v = drv.value
        BY DEF STOP, READ
    <2> HIDE DEF v
    <2> QED BY <1>2, <2>2, <2>3, <2>4, <2>5 DEF Reached
<1> QED BY <1>1, <1>2, <1>3, CourseDone

\* What a byte that is acknowledged does to the device, by its turn.
LEMMA DeviceTurns ==
    ASSUME IInv, NEW byte, DeviceTakes(byte), Acked(byte), bus.by = "hazard3"
    PROVE  /\ bus.turn = "address" =>
                  /\ byte[1] = Device /\ OnBus(bus', byte[2])
                  /\ ptr' = ptr /\ acted' = acted
           /\ bus.turn = "reg" =>
                  OnBus(bus', "data") /\ ptr' = byte[1] /\ acted' = acted
           /\ bus.turn = "data" => acted' = Append(acted, <<ptr, byte[1]>>)
<1>0. bus = [by |-> bus.by, turn |-> bus.turn]
    BY DEF IInv, Shaped
<1>1. CASE bus.turn = "address"
    <2>1. byte[1] = Device
        BY <1>1 DEF Acked
    <2>2. bus' = [bus EXCEPT !.turn = byte[2]] /\ ptr' = ptr /\ acted' = acted
        BY <1>1, <2>1 DEF DeviceTakes
    <2> QED BY <1>0, <1>1, <2>1, <2>2 DEF OnBus
<1>2. CASE bus.turn = "reg"
    <2>1. bus' = [bus EXCEPT !.turn = "data"] /\ ptr' = byte[1] /\ acted' = acted
        BY <1>2 DEF DeviceTakes
    <2> QED BY <1>0, <1>2, <2>1 DEF OnBus
<1>3. CASE bus.turn = "data"
    BY <1>3 DEF DeviceTakes
<1> QED BY <1>1, <1>2, <1>3

LEMMA CourseWrite ==
    ASSUME IInv, Course, EngineWrite PROVE Course'
<1>1. /\ engine.cmd = "write" /\ Completed(FALSE, Acked(engine.byte), NoValue)
      /\ DeviceTakes(engine.byte) /\ UNCHANGED <<drv, ret>>
    BY DEF EngineWrite, KeepsCall
<1> DEFINE c == drv.call
           s == drv.script
           v == IF Head(s) = READ THEN NoValue ELSE drv.value
           byte == engine.byte
<1>2. ASSUME drv.rc = "OK", Acked(byte)
      PROVE  Reached(c, Tail(s), v, bus', ptr', acted')
    <2>1. /\ Reached(c, s, drv.value, bus, ptr, acted) /\ Head(s)[1] = "write"
          /\ s # <<>> /\ byte = Head(s)[2]
        BY <1>1, <1>2, AtCourse
    <2>2. bus.by = "hazard3" =>
              /\ bus.turn = "address" =>
                  /\ byte[1] = Device /\ OnBus(bus', byte[2])
                  /\ ptr' = ptr /\ acted' = acted
              /\ bus.turn = "reg" =>
                  OnBus(bus', "data") /\ ptr' = byte[1] /\ acted' = acted
              /\ bus.turn = "data" => acted' = Append(acted, <<ptr, byte[1]>>)
        BY <1>1, <1>2, DeviceTurns
    <2> HIDE DEF c, s, v, byte
    <2>3. CASE c.op \in {"probe", "scan"}
        <3>1. s = <<AddressWrite(c.address), STOP>> /\ OnBus(bus, "address")
            BY <2>1, <2>3 DEF Reached, probe, START, STOP
        <3>2. Tail(s) = <<STOP>> /\ byte = <<c.address, "reg">>
            BY <2>1, <3>1 DEF AddressWrite
        <3>3. c.address = Device
            BY <2>2, <3>1, <3>2 DEF OnBus
        <3> QED BY <2>3, <3>2, <3>3 DEF Reached
    <2>4. CASE c.op = "write"
        <3>1. /\ acted = <<>>
              /\ \/ /\ s = <<AddressWrite(c.address), Byte(c.reg), Byte(c.value), STOP>>
                    /\ OnBus(bus, "address")
                 \/ s = <<Byte(c.reg), Byte(c.value), STOP>> /\ OnBus(bus, "reg")
                 \/ /\ s = <<Byte(c.value), STOP>>
                    /\ OnBus(bus, "data") /\ ptr = c.reg
            BY <2>1, <2>4 DEF Reached, write_reg8, START, STOP
        <3>2. CASE /\ s = <<AddressWrite(c.address), Byte(c.reg), Byte(c.value), STOP>>
                   /\ OnBus(bus, "address")
            <4>1. byte = <<c.address, "reg">>
                  /\ Tail(s) = <<Byte(c.reg), Byte(c.value), STOP>>
                BY <2>1, <3>2 DEF AddressWrite
            <4>2. OnBus(bus', "reg") /\ acted' = acted
                BY <2>2, <3>2, <4>1 DEF OnBus
            <4> QED BY <2>4, <3>1, <4>1, <4>2 DEF Reached
        <3>3. CASE s = <<Byte(c.reg), Byte(c.value), STOP>> /\ OnBus(bus, "reg")
            <4>1. byte = <<c.reg, "byte">> /\ Tail(s) = <<Byte(c.value), STOP>>
                BY <2>1, <3>3 DEF Byte
            <4>2. OnBus(bus', "data") /\ ptr' = c.reg /\ acted' = acted
                BY <2>2, <3>3, <4>1 DEF OnBus
            <4> QED BY <2>4, <3>1, <4>1, <4>2 DEF Reached
        <3>4. CASE /\ s = <<Byte(c.value), STOP>>
                   /\ OnBus(bus, "data") /\ ptr = c.reg
            <4>1. byte = <<c.value, "byte">> /\ Tail(s) = <<STOP>>
                BY <2>1, <3>4 DEF Byte
            <4>2. acted' = Append(acted, <<ptr, c.value>>)
                BY <2>2, <3>4, <4>1 DEF OnBus
            <4>3. acted' = <<<<c.reg, c.value>>>>
                BY <3>1, <3>4, <4>2
            <4> QED BY <2>4, <4>1, <4>3 DEF Reached
        <3> QED BY <3>1, <3>2, <3>3, <3>4
    <2>5. CASE c.op = "read"
        <3>1. /\ acted = <<>>
              /\ \/ /\ s = <<AddressWrite(c.address), Byte(c.reg),
                             START, AddressRead(c.address), READ, STOP>>
                    /\ OnBus(bus, "address")
                 \/ /\ s = <<Byte(c.reg), START, AddressRead(c.address), READ, STOP>>
                    /\ OnBus(bus, "reg")
                 \/ /\ s = <<AddressRead(c.address), READ, STOP>>
                    /\ OnBus(bus, "address") /\ ptr = c.reg
            BY <2>1, <2>5 DEF Reached, read_reg8, START, READ, STOP
        <3>2. CASE /\ s = <<AddressWrite(c.address), Byte(c.reg),
                            START, AddressRead(c.address), READ, STOP>>
                   /\ OnBus(bus, "address")
            <4>1. byte = <<c.address, "reg">>
                  /\ Tail(s) = <<Byte(c.reg), START, AddressRead(c.address), READ, STOP>>
                BY <2>1, <3>2 DEF AddressWrite
            <4>2. OnBus(bus', "reg") /\ acted' = acted
                BY <2>2, <3>2, <4>1 DEF OnBus
            <4> QED BY <2>5, <3>1, <4>1, <4>2 DEF Reached
        <3>3. CASE /\ s = <<Byte(c.reg), START, AddressRead(c.address), READ, STOP>>
                   /\ OnBus(bus, "reg")
            <4>1. byte = <<c.reg, "byte">>
                  /\ Tail(s) = <<START, AddressRead(c.address), READ, STOP>>
                BY <2>1, <3>3 DEF Byte
            <4>2. OnBus(bus', "data") /\ ptr' = c.reg /\ acted' = acted
                BY <2>2, <3>3, <4>1 DEF OnBus
            <4> QED BY <2>5, <3>1, <4>1, <4>2 DEF Reached
        <3>4. CASE /\ s = <<AddressRead(c.address), READ, STOP>>
                   /\ OnBus(bus, "address") /\ ptr = c.reg
            <4>1. byte = <<c.address, "read">> /\ Tail(s) = <<READ, STOP>>
                BY <2>1, <3>4 DEF AddressRead
            <4>2. OnBus(bus', "read") /\ ptr' = ptr /\ acted' = acted
                BY <2>2, <3>4, <4>1 DEF OnBus
            <4> QED BY <2>5, <3>1, <3>4, <4>1, <4>2 DEF Reached
        <3> QED BY <3>1, <3>2, <3>3, <3>4
    <2> QED BY <2>3, <2>4, <2>5 DEF Reached
<1>3. Head(s)[1] = "write"
    BY <1>1, AtCourse
<1> QED BY <1>1, <1>2, <1>3, CourseDone

LEMMA CourseRead ==
    ASSUME IInv, Course, EngineRead PROVE Course'
<1>1. /\ engine.cmd = "read" /\ Completed(FALSE, FALSE, <<ptr, regs[ptr]>>)
      /\ UNCHANGED <<drv, ret, acted>>
    BY DEF EngineRead, KeepsCall
<1> DEFINE c == drv.call
           s == drv.script
           rx == <<ptr, regs[ptr]>>
           v == IF Head(s) = READ THEN rx ELSE drv.value
<1>2. ASSUME drv.rc = "OK" PROVE Reached(c, Tail(s), v, bus', ptr', acted')
    <2>1. /\ Reached(c, s, drv.value, bus, ptr, acted) /\ Head(s)[1] = "read"
          /\ s # <<>>
        BY <1>1, <1>2, AtCourse
    <2>2. rx[1] = ptr
        OBVIOUS
    <2> HIDE DEF c, s, rx
    <2>3. c.op \notin {"probe", "scan"}
        BY <2>1 DEF Reached, probe, AddressWrite, START, STOP
    <2>4. c.op # "write"
        BY <2>1 DEF Reached, write_reg8, AddressWrite, Byte, START, STOP
    <2>5. CASE c.op = "read"
        <3>1. s = <<READ, STOP>> /\ ptr = c.reg /\ acted = <<>>
            BY <2>1, <2>5 DEF Reached, read_reg8, AddressWrite, AddressRead, Byte,
                START, STOP
        <3>2. Tail(s) = <<STOP>> /\ v = rx
            BY <3>1
        <3>3. v[1] = c.reg
            BY <2>2, <3>1, <3>2
        <3> HIDE DEF v
        <3> QED BY <1>1, <2>5, <3>1, <3>2, <3>3 DEF Reached
    <2> QED BY <2>3, <2>4, <2>5 DEF Reached
<1> QED BY <1>1, <1>2, CourseDone

LEMMA CourseRecover ==
    ASSUME IInv, Course, EngineRecover PROVE Course'
<1>1. PICK recovered \in BOOLEAN : Completed(FALSE, recovered, NoValue)
    BY DEF EngineRecover
<1>2. engine.cmd = "recover" /\ UNCHANGED <<drv, ret>>
    BY DEF EngineRecover, KeepsCall
<1> DEFINE c == drv.call
           s == drv.script
           v == IF Head(s) = READ THEN NoValue ELSE drv.value
<1>3. ASSUME drv.rc = "OK" PROVE Reached(c, Tail(s), v, bus', ptr', acted')
    <2>1. /\ Reached(c, s, drv.value, bus, ptr, acted) /\ Head(s)[1] = "recover"
          /\ s # <<>>
        BY <1>2, <1>3, AtCourse
    <2> HIDE DEF c, s, v
    <2>2. c.op \notin {"probe", "scan"}
        BY <2>1 DEF Reached, probe, AddressWrite, START, STOP
    <2>3. c.op # "write"
        BY <2>1 DEF Reached, write_reg8, AddressWrite, Byte, START, STOP
    <2>4. c.op # "read"
        BY <2>1 DEF Reached, read_reg8, AddressWrite, AddressRead, Byte, START,
            READ, STOP
    <2> QED BY <2>2, <2>3, <2>4 DEF Reached
<1> QED BY <1>1, <1>2, <1>3, CourseDone

LEMMA CourseEngine ==
    ASSUME IInv, Course, Engine PROVE Course'
<1>1. CASE EngineTimesOut
    <2>1. /\ engine.cmd \in {"start", "write", "read"}
          /\ Completed(TRUE, FALSE, NoValue) /\ UNCHANGED <<drv, ret>>
        BY <1>1 DEF EngineTimesOut, KeepsCall
    <2> QED BY <2>1, CourseDone
<1>2. CASE Hangs
    <2>1. /\ engine.cmd \notin {"none", "hung"} /\ UNCHANGED <<bus, ptr, acted, drv, ret>>
          /\ engine' = [engine EXCEPT !.cmd = "hung"]
        BY <1>2 DEF Hangs, device
    <2>2. engine'.cmd = "hung" /\ drv.pc = "wait"
        BY <2>1, AtWork DEF IInv, Shaped
    <2> QED BY <2>1, <2>2 DEF Course, Busy
<1> QED BY <1>1, <1>2, CourseStart, CourseStop, CourseWrite, CourseRead, CourseRecover
        DEF Engine

----------------------------------------------------------------------------
LEMMA CourseIssue ==
    ASSUME IInv, Course, Issue PROVE Course'
<1>0. /\ drv.pc = "issue" /\ UNCHANGED <<bus, ptr, acted>>
      /\ Command(Head(drv.script)) /\ drv' = [drv EXCEPT !.pc = "wait"]
    BY DEF Issue, device
<1>1. engine.cmd = "none" /\ drv.script \in Seq(Commands) /\ drv.script # <<>>
    BY <1>0 DEF IInv, Engaged, ScriptLeft, Busy
<1>2. /\ drv'.pc = "wait" /\ drv'.script = drv.script /\ drv'.call = drv.call
      /\ drv'.left = drv.left /\ drv'.rc = drv.rc /\ drv'.value = drv.value
    BY <1>0 DEF IInv, Shaped
<1>3. CASE Wanted /\ bus.by # "hazard3"
    <2>1. engine'.cmd = "none" /\ engine'.rejected
        BY <1>0, <1>1, <1>3 DEF Command, IInv, Shaped
    <2>2. Outcome' # "OK"
        BY <2>1 DEF Outcome
    <2> QED BY <1>0, <1>2, <2>1, <2>2 DEF Course, Busy
<1>4. CASE ~(Wanted /\ bus.by # "hazard3")
    <2>1. engine'.cmd = Head(drv.script)[1] /\ engine'.byte = Head(drv.script)[2]
        BY <1>0, <1>4 DEF Command, IInv, Shaped
    <2>2. Head(drv.script) \in Commands
        BY <1>1
    <2>3. Head(drv.script)[1] # "none"
        BY <2>2 DEF Commands, START, STOP, READ, RECOVER, AddressWrite,
            AddressRead, Byte
    <2> QED BY <1>0, <1>2, <2>1, <2>3 DEF Course, Busy
<1> QED BY <1>3, <1>4

\* The beginning of a call, that has nothing done yet.
LEMMA ReachedBegin ==
    ASSUME NEW c, NEW v, NEW b, NEW p, NEW a, a = <<>> \/ c.op = "scan"
    PROVE  Reached(c, Script(c), v, b, p, a)
BY DEF Reached, Script

LEMMA CourseSeen ==
    ASSUME IInv, Course, drv.pc = "wait", NEW outcome, Seen(outcome),
           engine'.cmd = "none", acted' = acted,
           bus.by = "hazard3" /\ outcome = "OK" => bus' = bus /\ ptr' = ptr,
           outcome = "OK" => engine.cmd = "none" /\ Outcome = "OK"
    PROVE  Course'
<1> DEFINE script == drv.script
           rc == IF drv.rc = "OK" THEN outcome ELSE drv.rc
           value == IF Head(script) = READ /\ outcome = "OK" THEN engine.rx
                    ELSE drv.value
<1>d. drv = [call |-> drv.call, script |-> drv.script, rc |-> drv.rc,
             left |-> drv.left, value |-> drv.value, pc |-> drv.pc]
    BY DEF IInv, Shaped
<1>0. script \in Seq(Commands) /\ script # <<>> /\ drv.call \in ACall
    BY DEF IInv, ScriptLeft, Busy
<1>1. ASSUME rc = "OK" PROVE Reached(drv.call, Tail(script), value, bus', ptr', acted')
    <2>1. outcome = "OK" /\ drv.rc = "OK"
        BY <1>1
    <2>2. Reached(drv.call, Tail(script), ValueSeen, bus, ptr, acted)
        BY <2>1 DEF Course
    <2>3. value = ValueSeen
        BY <2>1 DEF ValueSeen
    <2> HIDE DEF value
    <2>4. Reached(drv.call, Tail(script), value, bus, ptr, acted)
        BY <2>2, <2>3
    <2>5. bus.by = "hazard3" => bus' = bus /\ ptr' = ptr
        BY <2>1
    <2>6. Reached(drv.call, Tail(script), value, bus', ptr', acted)
        BY <2>4, <2>5, ReachedFrame
    <2> QED BY <2>6
<1>2. EndsCall(outcome) => rc # "OK"
    BY DEF EndsCall
<1>3. drv.left # {} => drv.call.op = "scan"
    BY DEF Course, Busy
<1>4. Seen(outcome) <=>
          IF EndsCall(outcome) \/ Len(script) = 1
          THEN Ends(rc, value)
          ELSE /\ drv' = [drv EXCEPT !.rc = rc, !.value = value, !.pc = "issue",
                           !.script = IF rc = "OK" THEN Tail(@) ELSE <<STOP>>]
               /\ UNCHANGED ret
    BY DEF Seen
<1> HIDE DEF rc, value
<1>5. CASE (EndsCall(outcome) \/ Len(script) = 1) /\ drv.left # {}
    <2> DEFINE a == CHOOSE x \in drv.left : TRUE
               c == [drv.call EXCEPT !.address = a]
    <2>1. drv' = [drv EXCEPT !.call = c, !.script = Script(c),
                             !.left = @ \ {a}, !.rc = "OK", !.pc = "issue"]
        BY <1>4, <1>5 DEF Ends
    <2>2. c.op = "scan"
        BY <1>0, <1>3, <1>5 DEF ACall
    <2> HIDE DEF c, a
    <2>3. /\ drv'.pc = "issue" /\ drv'.call = c /\ drv'.script = Script(c)
        BY <1>d, <2>1
    <2>4. Reached(drv'.call, drv'.script, drv'.value, bus', ptr', acted')
        BY <2>2, <2>3, ReachedBegin
    <2> QED BY <2>2, <2>3, <2>4 DEF Course
<1>6. CASE (EndsCall(outcome) \/ Len(script) = 1) /\ drv.left = {}
    <2>1. Returned(drv.call, rc, value)
        BY <1>4, <1>6 DEF Ends
    <2>2. drv'.pc = "returned" /\ ret' = [call |-> drv.call, rc |-> rc, value |-> value]
        BY <1>d, <2>1 DEF Returned
    <2>3. rc = "OK" => Tail(script) = <<>>
        <3> SUFFICES ASSUME rc = "OK" PROVE Tail(script) = <<>>
            OBVIOUS
        <3>1. Len(script) = 1
            BY <1>2, <1>6
        <3>2. Tail(script) \in Seq(Commands) /\ Len(Tail(script)) = 0
            BY <1>0, <3>1, HeadTailProperties
        <3> QED BY <3>2, EmptySeq
    <2>4. ret'.rc = "OK" => Reached(ret'.call, <<>>, ret'.value, bus', ptr', acted')
        BY <1>1, <2>2, <2>3
    <2> QED BY <2>2, <2>4 DEF Course, Busy
<1>7. CASE ~(EndsCall(outcome) \/ Len(script) = 1)
    <2>1. drv' = [drv EXCEPT !.rc = rc, !.value = value, !.pc = "issue",
                           !.script = IF rc = "OK" THEN Tail(@) ELSE <<STOP>>]
        BY <1>4, <1>7
    <2>2. /\ drv'.pc = "issue" /\ drv'.call = drv.call /\ drv'.left = drv.left
          /\ drv'.rc = rc /\ drv'.value = value
          /\ rc = "OK" => drv'.script = Tail(script)
        BY <1>d, <2>1
    <2>3. drv'.rc = "OK" =>
              Reached(drv'.call, drv'.script, drv'.value, bus', ptr', acted')
        BY <1>1, <2>2
    <2> QED BY <1>3, <2>2, <2>3 DEF Course
<1> QED BY <1>5, <1>6, <1>7

LEMMA CourseBegin ==
    ASSUME IInv, Course, NEW c \in Calls, Begin(c) PROVE Course'
<1>0. drv.pc = "idle" /\ UNCHANGED <<bus, ptr, engine, acted>>
    BY DEF Begin, DriverIdle, device
<1>1. engine.cmd = "none" /\ acted = <<>>
    BY <1>0 DEF IInv, Engaged, Course
<1>2. CASE c.address = Invalid
    <2>1. Returned(c, "ARGUMENT", NoValue)
        BY <1>2 DEF Begin
    <2>2. drv'.pc = "returned" /\ ret'.rc = "ARGUMENT"
        BY <2>1 DEF Returned, IInv, Shaped
    <2> QED BY <1>0, <1>1, <2>2 DEF Course, Busy
<1>3. CASE c.address # Invalid
    <2>1. drv' = [call |-> c, script |-> Script(c), rc |-> "OK",
                  left |-> IF c.op = "scan" THEN {Absent} ELSE {},
                  value |-> NoValue, pc |-> "issue"]
        BY <1>3 DEF Begin
    <2>2. /\ drv'.pc = "issue" /\ drv'.call = c /\ drv'.script = Script(c)
          /\ drv'.left # {} => c.op = "scan"
        BY <2>1
    <2>3. Reached(drv'.call, drv'.script, drv'.value, bus', ptr', acted')
        BY <1>0, <1>1, <2>2, ReachedBegin
    <2> QED BY <1>0, <1>1, <2>2, <2>3 DEF Course
<1> QED BY <1>2, <1>3

LEMMA CourseStep ==
    ASSUME IInv, Granted, Course, [Next]_vars PROVE Course'
<1>1. CASE See
    <2>1. /\ drv.pc = "wait" /\ Answered /\ Seen(Outcome)
          /\ UNCHANGED <<bus, ptr, engine, acted>>
        BY <1>1 DEF See, device
    <2>2. engine.cmd = "none"
        BY <2>1 DEF Answered, IInv, Engaged
    <2> QED BY <2>1, <2>2, CourseSeen
<1>2. CASE SpinsRunOut
    <2>1. /\ drv.pc = "wait" /\ Seen("TIMEOUT") /\ acted' = acted
          /\ engine' = [engine EXCEPT !.cmd = "none", !.byte = NoValue, !.done = TRUE]
        BY <1>2 DEF SpinsRunOut
    <2>2. engine'.cmd = "none"
        BY <2>1 DEF IInv, Shaped
    <2> QED BY <2>1, <2>2, CourseSeen
<1>3. CASE Taken
    <2>1. /\ drv.pc = "returned" /\ UNCHANGED engine /\ acted' = <<>>
          /\ drv' = [drv EXCEPT !.pc = "idle"]
        BY <1>3 DEF Taken
    <2>2. drv'.pc = "idle" /\ engine.cmd = "none"
        BY <2>1 DEF IInv, Shaped, Engaged
    <2> QED BY <2>1, <2>2 DEF Course, Busy
<1>4. CASE Grant \/ Transact
    <2>1. UNCHANGED <<engine, drv, ret, acted>> /\ bus.by # "hazard3"
        BY <1>4 DEF Grant, Transact, Reply, hazard3, Granted
    <2> QED BY <2>1, CourseFrame
<1>5. CASE Receive \/ Info \/ GrantTimesOut \/ Lose \/ Client
    <2>1. UNCHANGED <<bus, ptr, engine, drv, ret, acted>>
        BY <1>5 DEF Receive, Info, GrantTimesOut, Lose, Reply, Client, transact,
            receive_response, TimesOut, Restart, device, hazard3
    <2> QED BY <2>1, CourseFrame
<1>6. CASE UNCHANGED saoVars
    <2>1. UNCHANGED <<bus, ptr, engine, drv, ret, acted>>
        BY <1>6 DEF saoVars, device, hazard3
    <2> QED BY <2>1, CourseFrame
<1> QED BY <1>1, <1>2, <1>3, <1>4, <1>5, <1>6, StepKinds, CourseEngine, CourseIssue,
        CourseBegin
        DEF SaoNext, Driver, Proxy

LEMMA InitRInv == Init => RInv
<1> SUFFICES ASSUME Init PROVE RInv
    OBVIOUS
<1>1. Granted
    BY DEF Init, SaoInit, Granted
<1>2. drv.pc = "idle" /\ engine.cmd = "none" /\ acted = <<>>
    BY DEF Init, SaoInit
<1>3. Course
    BY <1>2 DEF Course, Busy
<1> QED BY <1>1, <1>3, InitIInv DEF RInv

\* A call that returned OK did what it says (hazard3_sao.c): the value read is
\* that of the register asked for, the value written went there and nowhere else,
\* the device probed is there, whatever the ESP32 does to the register pointer
\* between two calls.
THEOREM ResultTrueCorrect == Spec => []ResultTrue
<1>1. RInv /\ [Next]_vars => RInv'
    BY IInvStep, GrantedStep, CourseStep DEF RInv
<1>2. Spec => []RInv
    BY <1>1, InitRInv, PTL DEF Spec
<1>3. RInv => ResultTrue
    BY CourseResult DEF RInv
<1> QED BY <1>2, <1>3, PTL
----------------------------------------------------------------------------
(***************************************************************************)
(* What a value the client has is the value of.  The requests and answers  *)
(* between the client and the proxy are on one line, the oldest answer     *)
(* first; an item keeps its place, whether it is a request on the way, the *)
(* request in the proxy, or the answer to it.  Apart says where on that    *)
(* line an item of an earlier step of the plan, or of the run before the   *)
(* restart, can be.  Items only disappear from it and lose their value,    *)
(* and the client adds one at its end.                                     *)
(***************************************************************************)
Requests == {EspPlan[i] : i \in 1 .. 8}

ProxyStates == {"idle", "pending", "owns", "answer"}

\* What an item is, as far as it can be taken for another.
RequestTag(r) ==
    CASE r.cmd = "read" -> IF r.reg = Position THEN "position" ELSE "led"
      [] r.cmd = "write" -> "write"
      [] r.cmd = "info" -> "info"
      [] OTHER -> "other"

AnswerTag(a) ==
    CASE a.cmd = "read" ->
           IF a.status # "OK" THEN "other"
           ELSE IF a.value[1] = Position THEN "position" ELSE "led"
      [] a.cmd = "write" -> "write"
      [] a.cmd = "info" -> "info"
      [] OTHER -> "other"

AValue(a) == a.cmd = "read" /\ a.status = "OK" => a.value[1] \in {Position, Led}

EspType ==
    /\ esp \in [step : 1 .. 9, waiting : BOOLEAN]
    /\ esp.waiting => esp.step # 9
    /\ proxy \in [state : ProxyStates, request : Requests]
    /\ proxy.state = "answer" => proxy.request.cmd = "info"
    /\ toProxy \in Seq(Requests)
    /\ \E S : toEsp \in Seq(S)
    /\ \A i \in 1 .. Len(toEsp) : AValue(toEsp[i])
    /\ restarts \in Nat

InProxy == IF proxy.state = "idle" THEN 0 ELSE 1
Between == Len(toEsp) + InProxy
OnLine == Between + Len(toProxy)

At(i) ==
    IF i <= Len(toEsp) THEN AnswerTag(toEsp[i])
    ELSE IF i <= Between THEN RequestTag(proxy.request)
    ELSE RequestTag(toProxy[i - Between])

Without(t) == \A i \in 1 .. OnLine : At(i) # t
Last(t) == \A i, j \in 1 .. OnLine : i < j => At(i) # t
NotAfterInfo(t) ==
    \A i, j \in 1 .. OnLine : i < j /\ At(i) = "info" => At(j) # t

Apart ==
    /\ restarts = 0 \/ (restarts = 1 /\ esp.step = 1) =>
           NotAfterInfo("write") /\ NotAfterInfo("led")
    /\ restarts = 0 /\ esp.step \in 6 .. 8 => Without("info")
    /\ (restarts = 0 /\ esp.step <= 5) \/ (restarts = 1 /\ esp.step \in 2 .. 5) =>
           Without("write") /\ Without("led")
    /\ restarts = 0 /\ (esp.step <= 4 \/ (esp.step = 5 /\ ~esp.waiting)) =>
           Without("position")
    /\ restarts = 0 /\ esp.step = 5 => Last("position")
    /\ restarts <= 1 /\ esp.step = 6 =>
           /\ Last("write") /\ Without("led")
           /\ ~esp.waiting => Without("write")
    /\ restarts <= 1 /\ esp.step = 7 =>
           /\ OnLine <= (IF esp.waiting THEN 1 ELSE 0)
           /\ Without("position")

EInv == EspType /\ Apart /\ EspValueTrue

\* Items disappear, or lose their value.
Shrinks ==
    /\ OnLine' \in Nat /\ OnLine' <= OnLine
    /\ \E g \in [1 .. OnLine' -> 1 .. OnLine] :
          /\ \A i, j \in 1 .. OnLine' : i < j => g[i] < g[j]
          /\ \A i \in 1 .. OnLine' : At(i)' \in {At(g[i]), "other"}

\* One is added at the end.
Adds(t) ==
    /\ OnLine' = OnLine + 1
    /\ \A i \in 1 .. OnLine + 1 : At(i)' = IF i <= OnLine THEN At(i) ELSE t

LEMMA Kept ==
    ASSUME Shrinks, OnLine \in Nat
    PROVE  \A t \in {"info", "write", "position", "led"} :
              /\ Without(t) => Without(t)'
              /\ Last(t) => Last(t)'
              /\ NotAfterInfo(t) => NotAfterInfo(t)'
<1>1. PICK g \in [1 .. OnLine' -> 1 .. OnLine] :
          /\ \A i, j \in 1 .. OnLine' : i < j => g[i] < g[j]
          /\ \A i \in 1 .. OnLine' : At(i)' \in {At(g[i]), "other"}
    BY DEF Shrinks
<1>2. TAKE t \in {"info", "write", "position", "led"}
<1>3. \A i \in 1 .. OnLine' : At(i)' = t => At(g[i]) = t
    BY <1>1
<1>4. \A i \in 1 .. OnLine' : At(i)' = "info" => At(g[i]) = "info"
    BY <1>1
<1>5. \A i, j \in 1 .. OnLine' :
          /\ g[i] \in 1 .. OnLine /\ g[j] \in 1 .. OnLine
          /\ i < j => g[i] < g[j]
    BY <1>1
<1>6. ASSUME Without(t) PROVE Without(t)'
    BY <1>3, <1>5, <1>6 DEF Without
<1>7. ASSUME Last(t) PROVE Last(t)'
    BY <1>3, <1>5, <1>7 DEF Last
<1>8. ASSUME NotAfterInfo(t) PROVE NotAfterInfo(t)'
    BY <1>3, <1>4, <1>5, <1>8 DEF NotAfterInfo
<1> QED BY <1>6, <1>7, <1>8

\* A step that leaves the client where it is.
LEMMA ApartKept ==
    ASSUME Apart, Shrinks, OnLine \in Nat, UNCHANGED <<esp, restarts>>
    PROVE  Apart'
<1>1. \A t \in {"info", "write", "position", "led"} :
          /\ Without(t) => Without(t)'
          /\ Last(t) => Last(t)'
          /\ NotAfterInfo(t) => NotAfterInfo(t)'
    BY Kept
<1>2. OnLine' \in Nat /\ OnLine' <= OnLine
    BY DEF Shrinks
<1>3. OnLine <= (IF esp.waiting THEN 1 ELSE 0)
      => OnLine' <= (IF esp'.waiting THEN 1 ELSE 0)
    BY <1>2
<1> QED BY <1>1, <1>3 DEF Apart
----------------------------------------------------------------------------
LEMMA Plan ==
    /\ Len(EspPlan) = 8 /\ Ended = 9
    /\ EspPlan[1].cmd = "info"
    /\ EspPlan[2].cmd = "recover"
    /\ EspPlan[3].cmd = "probe" /\ EspPlan[4].cmd = "probe"
    /\ EspPlan[5].cmd = "read" /\ EspPlan[5].reg = Position
    /\ EspPlan[6].cmd = "write" /\ EspPlan[6].value = 1
    /\ EspPlan[7].cmd = "read" /\ EspPlan[7].reg = Led
    /\ EspPlan[8].cmd = "write" /\ EspPlan[8].value = 0
BY DEF EspPlan, Ended

LEMMA PlanTags ==
    /\ RequestTag(EspPlan[1]) = "info"
    /\ RequestTag(EspPlan[2]) = "other" /\ RequestTag(EspPlan[3]) = "other"
    /\ RequestTag(EspPlan[4]) = "other"
    /\ RequestTag(EspPlan[5]) = "position"
    /\ RequestTag(EspPlan[6]) = "write" /\ RequestTag(EspPlan[8]) = "write"
    /\ RequestTag(EspPlan[7]) = "led"
BY Plan, SaoAssumption DEF RequestTag

\* Every read of the plan is of one of the two registers.
LEMMA PlanReads ==
    ASSUME NEW r \in Requests, r.cmd = "read"
    PROVE  r.reg \in {Position, Led}
<1>1. PICK i \in 1 .. 8 : r = EspPlan[i]
    BY DEF Requests
<1> QED BY <1>1, Plan

LEMMA Following ==
    ASSUME NEW rc
    PROVE  /\ esp.step = 1 => FollowingStep(rc) = IF rc = "OK" THEN 2 ELSE 1
           /\ esp.step \in {2, 3, 4} => FollowingStep(rc) = esp.step + 1
           /\ esp.step = 5 => FollowingStep(rc) = IF rc = "OK" THEN 6 ELSE 9
           /\ esp.step = 6 => FollowingStep(rc) = IF rc = "OK" THEN 7 ELSE 8
           /\ esp.step \in {7, 8} => FollowingStep(rc) = esp.step + 1
<1>1. esp.step \in {1, 2, 3, 4, 8} => Request.cmd # "read"
    BY Plan DEF Request
<1>2. CASE esp.step \in {1, 2, 3, 4}
    <2>1. Request.cmd # "read" /\ Request.cmd # "write"
        BY <1>2, Plan DEF Request
    <2>2. Request.cmd = "info" <=> esp.step = 1
        BY <1>2, Plan DEF Request
    <2> QED BY <1>2, <2>1, <2>2 DEF FollowingStep
<1>3. CASE esp.step = 5
    <2>1. Request.cmd = "read" /\ Request.reg = Position
        BY <1>3, Plan DEF Request
    <2> QED BY <1>3, <2>1, Plan DEF FollowingStep
<1>4. CASE esp.step = 6
    <2>1. Request.cmd = "write" /\ Request.value = 1
        BY <1>4, Plan DEF Request
    <2> QED BY <1>4, <2>1 DEF FollowingStep
<1>5. CASE esp.step = 7
    <2>1. Request.cmd = "read" /\ Request.reg # Position
        BY <1>5, Plan, SaoAssumption DEF Request
    <2> QED BY <1>5, <2>1 DEF FollowingStep
<1>6. CASE esp.step = 8
    <2>1. Request.cmd = "write" /\ Request.value # 1
        BY <1>6, Plan DEF Request
    <2> QED BY <1>6, <2>1 DEF FollowingStep
<1> QED BY <1>2, <1>3, <1>4, <1>5, <1>6

LEMMA RequestTyped ==
    ASSUME EspType, esp.step # 9
    PROVE  esp.step \in 1 .. 8 /\ Request \in Requests
<1>1. esp.step \in 1 .. 8
    BY DEF EspType
<1> QED BY <1>1 DEF Request, Requests

LEMMA LineTyped ==
    ASSUME EspType
    PROVE  /\ Len(toEsp) \in Nat /\ Len(toProxy) \in Nat
           /\ InProxy \in {0, 1}
           /\ Between \in Nat /\ OnLine \in Nat
           /\ Between = Len(toEsp) + InProxy /\ OnLine = Between + Len(toProxy)
<1>1. PICK S : toEsp \in Seq(S)
    BY DEF EspType
<1>2. Len(toEsp) \in Nat /\ Len(toProxy) \in Nat
    BY <1>1, LenProperties DEF EspType
<1> QED BY <1>2 DEF InProxy, Between, OnLine

----------------------------------------------------------------------------
\* Every item stays in its place.
LEMMA SameItems ==
    ASSUME EspType, OnLine' = OnLine,
           \A i \in 1 .. OnLine : At(i)' \in {At(i), "other"}
    PROVE  Shrinks
<1>0. OnLine \in Nat
    BY LineTyped
<1> DEFINE g == [i \in 1 .. OnLine' |-> i]
<1>1. g \in [1 .. OnLine' -> 1 .. OnLine]
    BY <1>0
<1>2. \A i, j \in 1 .. OnLine' : i < j => g[i] < g[j]
    BY <1>0
<1>3. \A i \in 1 .. OnLine' : At(i)' \in {At(g[i]), "other"}
    BY <1>0
<1> HIDE DEF g
<1>4. OnLine' \in Nat /\ OnLine' <= OnLine
    BY <1>0
<1> QED BY <1>1, <1>2, <1>3, <1>4 DEF Shrinks

LEMMA SameLine ==
    ASSUME EspType, UNCHANGED <<proxy, line>> PROVE Shrinks
<1>1. OnLine' = OnLine /\ \A i \in 1 .. OnLine : At(i)' = At(i)
    BY DEF OnLine, Between, InProxy, At, line
<1> QED BY <1>1, SameItems

\* One of the items disappears.
LEMMA DropOne ==
    ASSUME EspType, NEW k \in 1 .. OnLine,
           OnLine' = OnLine - 1,
           \A i \in 1 .. OnLine - 1 :
               At(i)' \in {At(IF i < k THEN i ELSE i + 1), "other"}
    PROVE  Shrinks
<1>0. OnLine \in Nat
    BY LineTyped
<1> DEFINE g == [i \in 1 .. OnLine' |-> IF i < k THEN i ELSE i + 1]
<1>1. OnLine' \in Nat /\ OnLine' <= OnLine
    BY <1>0
<1>2. g \in [1 .. OnLine' -> 1 .. OnLine]
    BY <1>0
<1>3. \A i, j \in 1 .. OnLine' : i < j => g[i] < g[j]
    BY <1>0
<1>4. \A i \in 1 .. OnLine' : At(i)' \in {At(g[i]), "other"}
    BY <1>0
<1> HIDE DEF g
<1> QED BY <1>1, <1>2, <1>3, <1>4 DEF Shrinks

\* The oldest request goes to the proxy.
LEMMA ReceiveLine ==
    ASSUME EspType, Receive PROVE Shrinks
<1> USE LineTyped
<1>1. /\ proxy.state = "idle" /\ toProxy # <<>> /\ toProxy' = Tail(toProxy)
      /\ toEsp' = toEsp
      /\ proxy'.state # "idle" /\ proxy'.request = Head(toProxy)
    BY DEF Receive
<1>2. /\ Len(toProxy) > 0 /\ Len(toProxy') = Len(toProxy) - 1
      /\ \A i \in 1 .. Len(toProxy) - 1 : toProxy'[i] = toProxy[i + 1]
      /\ Head(toProxy) = toProxy[1]
    BY <1>1, HeadTailProperties, EmptySeq DEF EspType
<1>3. InProxy = 0 /\ InProxy' = 1 /\ Len(toEsp)' = Len(toEsp)
    BY <1>1 DEF InProxy
<1>4. Between = Len(toEsp) /\ Between' = Between + 1 /\ OnLine' = OnLine
    BY <1>1, <1>2, <1>3 DEF Between, OnLine
<1>5. \A i \in 1 .. OnLine : At(i)' = At(i)
    <2>1. TAKE i \in 1 .. OnLine
    <2>2. CASE i <= Len(toEsp)
        BY <1>1, <2>2 DEF At
    <2>3. CASE i = Between + 1
        BY <1>1, <1>2, <1>3, <1>4, <2>3 DEF At
    <2>4. CASE i > Between + 1
        <3>1. i - Between' \in 1 .. Len(toProxy) - 1
              /\ (i - Between') + 1 = i - Between
            BY <1>2, <1>4, <2>4 DEF OnLine
        <3>2. toProxy'[i - Between'] = toProxy[i - Between]
            BY <1>2, <3>1
        <3> QED BY <1>3, <1>4, <2>4, <3>2 DEF At
    <2> QED BY <1>4, <2>2, <2>3, <2>4
<1> QED BY <1>4, <1>5, SameItems

\* The request in the proxy becomes its answer.
LEMMA AnswerLine ==
    ASSUME EspType, proxy.state # "idle", NEW a,
           toEsp' = Append(toEsp, a), toProxy' = toProxy,
           proxy'.state = "idle",
           AnswerTag(a) \in {RequestTag(proxy.request), "other"}
    PROVE  Shrinks
<1> USE LineTyped
<1>1. PICK S : toEsp \in Seq(S)
    BY DEF EspType
<1>2. toEsp \in Seq(S \cup {a})
    BY <1>1, SeqMonotonic
<1>3. /\ Len(toEsp') = Len(toEsp) + 1
      /\ \A i \in 1 .. Len(toEsp) : toEsp'[i] = toEsp[i]
      /\ toEsp'[Len(toEsp) + 1] = a
    BY <1>2, AppendProperties
<1>4. InProxy = 1 /\ InProxy' = 0
    BY DEF InProxy
<1>5. Between' = Between /\ Between = Len(toEsp) + 1 /\ OnLine' = OnLine
    BY <1>3, <1>4 DEF Between, OnLine
<1>6. \A i \in 1 .. OnLine : At(i)' \in {At(i), "other"}
    <2>1. TAKE i \in 1 .. OnLine
    <2>2. CASE i <= Len(toEsp)
        <3>1. toEsp'[i] = toEsp[i]
            BY <1>3, <2>2
        <3> QED BY <1>3, <2>2, <3>1 DEF At
    <2>3. CASE i = Between
        <3>1. toEsp'[i] = a /\ i <= Len(toEsp')
            BY <1>3, <1>5, <2>3
        <3>2. ~(i <= Len(toEsp)) /\ i <= Between
            BY <1>5, <2>3
        <3> QED BY <3>1, <3>2 DEF At
    <2>4. CASE i > Between
        BY <1>3, <1>5, <2>4 DEF At
    <2> QED BY <1>5, <2>2, <2>3, <2>4
<1> QED BY <1>5, <1>6, SameItems

\* A frame with a request is lost.
LEMMA RequestLost ==
    ASSUME EspType, toProxy # <<>>, toProxy' = Tail(toProxy),
           UNCHANGED <<toEsp, proxy>>
    PROVE  Shrinks
<1> USE LineTyped
<1>1. /\ Len(toProxy) > 0 /\ Len(toProxy') = Len(toProxy) - 1
      /\ \A i \in 1 .. Len(toProxy) - 1 : toProxy'[i] = toProxy[i + 1]
    BY HeadTailProperties, EmptySeq DEF EspType
<1>2. /\ Between' = Between /\ OnLine' = OnLine - 1 /\ Len(toEsp)' = Len(toEsp)
      /\ InProxy' = InProxy
    BY <1>1 DEF Between, OnLine, InProxy
<1>3. Between + 1 \in 1 .. OnLine
    BY <1>1 DEF OnLine
<1>4. \A i \in 1 .. OnLine - 1 :
          At(i)' = At(IF i < Between + 1 THEN i ELSE i + 1)
    <2>1. TAKE i \in 1 .. OnLine - 1
    <2>2. CASE i <= Between
        BY <1>2, <2>2 DEF At
    <2>3. CASE i > Between
        <3>1. i - Between \in 1 .. Len(toProxy) - 1
              /\ (i - Between) + 1 = (i + 1) - Between
            BY <2>3 DEF OnLine
        <3>2. toProxy'[i - Between] = toProxy[(i + 1) - Between]
            BY <1>1, <3>1
        <3>3. At(i)' = RequestTag(toProxy'[i - Between])
            BY SMTT(30), <1>2, <2>3 DEF At
        <3>4. At(i + 1) = RequestTag(toProxy[(i + 1) - Between])
            BY <2>3 DEF At
        <3> QED BY <2>3, <3>2, <3>3, <3>4
    <2> QED BY <2>2, <2>3
<1> QED BY <1>2, <1>3, <1>4, DropOne

\* The oldest answer is taken, or its frame is lost.
LEMMA AnswerGone ==
    ASSUME EspType, toEsp # <<>>, toEsp' = Tail(toEsp),
           UNCHANGED <<toProxy, proxy>>
    PROVE  /\ Shrinks
           /\ OnLine > 0 /\ OnLine' = OnLine - 1
           /\ \A i \in 1 .. OnLine - 1 : At(i)' = At(i + 1)
           /\ 1 \in 1 .. Len(toEsp) /\ Head(toEsp) = toEsp[1]
           /\ At(1) = AnswerTag(Head(toEsp))
<1> USE LineTyped
<1>1. PICK S : toEsp \in Seq(S)
    BY DEF EspType
<1>2. /\ Len(toEsp) > 0 /\ Len(toEsp') = Len(toEsp) - 1
      /\ \A i \in 1 .. Len(toEsp) - 1 : toEsp'[i] = toEsp[i + 1]
      /\ Head(toEsp) = toEsp[1]
    BY <1>1, HeadTailProperties, EmptySeq
<1>3. /\ Between' = Between - 1 /\ OnLine' = OnLine - 1
      /\ InProxy' = InProxy /\ OnLine > 0
    BY <1>2 DEF Between, OnLine, InProxy
<1>4. \A i \in 1 .. OnLine - 1 : At(i)' = At(i + 1)
    <2>1. TAKE i \in 1 .. OnLine - 1
    <2>2. CASE i < Len(toEsp)
        <3>1. toEsp'[i] = toEsp[i + 1]
            BY <1>2, <2>2
        <3> QED BY <1>2, <2>2, <3>1 DEF At
    <2>3. CASE i >= Len(toEsp) /\ i < Between
        BY <1>2, <1>3, <2>3 DEF At
    <2>4. CASE i >= Between
        <3>1. i - Between' = (i + 1) - Between
            BY <1>3
        <3> QED BY <1>2, <1>3, <2>4, <3>1 DEF At
    <2> QED BY <2>2, <2>3, <2>4
<1>5. Shrinks
    <2>1. 1 \in 1 .. OnLine
        BY <1>3
    <2>2. \A i \in 1 .. OnLine - 1 :
              At(i)' \in {At(IF i < 1 THEN i ELSE i + 1), "other"}
        BY <1>4
    <2> QED BY <1>3, <2>1, <2>2, DropOne
<1>6. At(1) = AnswerTag(Head(toEsp))
    BY <1>2 DEF At
<1> QED BY <1>2, <1>3, <1>4, <1>5, <1>6

\* What has arrived is flushed.
LEMMA Flushed ==
    ASSUME EspType, toEsp' = <<>>, UNCHANGED <<toProxy, proxy>>
    PROVE  Shrinks
<1> USE LineTyped
<1> DEFINE n == Len(toEsp)
           g == [i \in 1 .. OnLine' |-> i + n]
<1>1. Len(toEsp') = 0
    OBVIOUS
<1>2. /\ Between' = Between - n /\ OnLine' = OnLine - n /\ n \in Nat
      /\ OnLine' \in Nat /\ OnLine \in Nat /\ Between \in Nat /\ n <= Between
      /\ InProxy' = InProxy
    BY <1>1 DEF Between, OnLine, InProxy
<1>3. \A i \in 1 .. OnLine' : At(i)' = At(i + n)
    <2>1. TAKE i \in 1 .. OnLine'
    <2>2. i \in Nat /\ i > 0
        BY <1>2, <2>1
    <2>3. ~(i <= Len(toEsp')) /\ ~(i + n <= Len(toEsp))
        BY ONLY <1>1, <1>2, <2>2
    <2>4. CASE i <= Between'
        <3>1. i + n <= Between
            BY ONLY <1>2, <2>2, <2>4
        <3>2. At(i)' = RequestTag(proxy'.request)
            BY ONLY <2>3, <2>4 DEF At
        <3>3. At(i + n) = RequestTag(proxy.request)
            BY ONLY <2>3, <3>1 DEF At
        <3> QED BY <3>2, <3>3
    <2>5. CASE ~(i <= Between')
        <3>1. ~(i + n <= Between) /\ i - Between' = (i + n) - Between
            BY ONLY <1>2, <2>2, <2>5
        <3>2. At(i)' = RequestTag(toProxy'[i - Between'])
            BY ONLY <2>3, <2>5 DEF At
        <3>3. At(i + n) = RequestTag(toProxy[(i + n) - Between])
            BY ONLY <2>3, <3>1 DEF At
        <3> QED BY <3>1, <3>2, <3>3
    <2> QED BY <2>4, <2>5
<1>4. g \in [1 .. OnLine' -> 1 .. OnLine]
    BY ONLY <1>2
<1>5. \A i, j \in 1 .. OnLine' : i < j => g[i] < g[j]
    BY ONLY <1>2
<1>6. \A i \in 1 .. OnLine' : At(i)' \in {At(g[i]), "other"}
    BY <1>2, <1>3
<1>7. OnLine' \in Nat /\ OnLine' <= OnLine
    BY ONLY <1>2
<1> HIDE DEF g, n
<1> QED BY <1>4, <1>5, <1>6, <1>7 DEF Shrinks

\* A request is sent.
LEMMA RequestSent ==
    ASSUME EspType, NEW r \in Requests, toProxy' = Append(toProxy, r),
           UNCHANGED <<toEsp, proxy>>
    PROVE  Adds(RequestTag(r))
<1> USE LineTyped
<1>1. /\ Len(toProxy') = Len(toProxy) + 1
      /\ \A i \in 1 .. Len(toProxy) : toProxy'[i] = toProxy[i]
      /\ toProxy'[Len(toProxy) + 1] = r
    BY AppendProperties DEF EspType
<1>2. Len(toEsp)' = Len(toEsp) /\ InProxy' = InProxy
    BY DEF InProxy
<1>3. Between' = Between
    BY <1>2 DEF Between
<1>4. OnLine' = OnLine + 1
    BY <1>1, <1>3 DEF OnLine
<1>5. \A i \in 1 .. OnLine + 1 :
          At(i)' = IF i <= OnLine THEN At(i) ELSE RequestTag(r)
    <2>1. TAKE i \in 1 .. OnLine + 1
    <2>2. CASE i <= Between
        BY <1>2, <1>3, <2>2 DEF At
    <2>3. CASE i > Between /\ i <= OnLine
        <3>1. toProxy'[i - Between] = toProxy[i - Between]
            BY <1>1, <2>3
        <3> QED BY <1>2, <1>3, <2>3, <3>1 DEF At
    <2>4. CASE i = OnLine + 1
        <3>1. i - Between = Len(toProxy) + 1
            BY <2>4
        <3>2. At(i)' = RequestTag(toProxy'[i - Between])
            BY <1>2, <1>3, <2>4 DEF At
        <3> QED BY <1>1, <2>4, <3>1, <3>2
    <2> QED BY <2>2, <2>3, <2>4
<1> QED BY <1>4, <1>5 DEF Adds

----------------------------------------------------------------------------
LEMMA EmptyLine ==
    ASSUME OnLine = 0
    PROVE  \A t : Without(t) /\ Last(t) /\ NotAfterInfo(t)
BY DEF Without, Last, NotAfterInfo

LEMMA WithoutIsLast ==
    \A t : Without(t) => Last(t) /\ NotAfterInfo(t)
BY DEF Without, Last, NotAfterInfo

\* What is taken from the line when a step succeeds.
TakesFirst ==
    /\ OnLine > 0 /\ OnLine' = OnLine - 1
    /\ \A i \in 1 .. OnLine - 1 : At(i)' = At(i + 1)
    /\ esp.step = 1 => At(1) = "info"
    /\ esp.step = 5 => At(1) = "position"
    /\ esp.step = 6 => At(1) = "write"

\* After the last item of a kind nothing is left.
LEMMA LastTaken ==
    ASSUME OnLine \in Nat, TakesFirst, NEW t, Last(t), At(1) = t
    PROVE  OnLine' = 0
<1>1. ~(1 < OnLine)
    BY DEF Last, TakesFirst
<1> QED BY <1>1 DEF TakesFirst

LEMMA InfoTaken ==
    ASSUME OnLine \in Nat, TakesFirst, NEW t, NotAfterInfo(t), At(1) = "info"
    PROVE  Without(t)'
<1>1. \A i \in 1 .. OnLine - 1 : At(i + 1) # t
    BY DEF NotAfterInfo, TakesFirst
<1>2. \A i \in 1 .. OnLine' : At(i)' # t
    BY <1>1 DEF TakesFirst
<1> QED BY <1>2 DEF Without

\* The client goes on to the following step of its plan, which it skips or ends
\* when the step failed.
LEMMA ApartGoesOn ==
    ASSUME EspType, Apart, Shrinks, esp.waiting, NEW rc,
           esp' = [step |-> FollowingStep(rc), waiting |-> FALSE],
           restarts' = restarts, rc = "OK" => TakesFirst
    PROVE  Apart'
<1> DEFINE n == FollowingStep(rc)
<1>1. /\ esp'.step = n /\ ~esp'.waiting /\ esp.step \in 1 .. 8
      /\ OnLine \in Nat /\ OnLine' \in Nat /\ restarts \in Nat
    BY LineTyped DEF EspType, Shrinks
<1>2. /\ \A t \in {"info", "write", "position", "led"} :
             /\ Without(t) => Without(t)'
             /\ Last(t) => Last(t)'
             /\ NotAfterInfo(t) => NotAfterInfo(t)'
    BY <1>1, Kept
<1>3. \A t : /\ Without(t)' => Last(t)' /\ NotAfterInfo(t)'
             /\ OnLine' = 0 => Without(t)'
    BY DEF Without, Last, NotAfterInfo
<1>4. CASE esp.step = 1
    <2>1. n = IF rc = "OK" THEN 2 ELSE 1
        BY <1>4, Following
    <2>2. CASE rc # "OK"
        BY <1>1, <1>2, <1>4, <2>1, <2>2 DEF Apart
    <2>3. CASE rc = "OK"
        <3>1. At(1) = "info" /\ TakesFirst
            BY <1>4, <2>3 DEF TakesFirst
        <3>2. NotAfterInfo("write") => Without("write")'
            BY <1>1, <3>1, InfoTaken
        <3>3. NotAfterInfo("led") => Without("led")'
            BY <1>1, <3>1, InfoTaken
        <3> QED BY <1>1, <1>2, <1>4, <2>1, <2>3, <3>2, <3>3 DEF Apart
    <2> QED BY <2>2, <2>3
<1>5. CASE esp.step \in {2, 3, 4}
    <2>1. n = esp.step + 1
        BY <1>5, Following
    <2> QED BY <1>1, <1>2, <1>3, <1>5, <2>1 DEF Apart
<1>6. CASE esp.step = 5
    <2>1. n = IF rc = "OK" THEN 6 ELSE 9
        BY <1>6, Following
    <2>2. CASE rc # "OK"
        BY <1>1, <1>2, <1>6, <2>1, <2>2 DEF Apart
    <2>3. CASE rc = "OK"
        <3>1. At(1) = "position" /\ TakesFirst
            BY <1>6, <2>3 DEF TakesFirst
        <3>2. restarts = 0 => OnLine' = 0
            <4> SUFFICES ASSUME restarts = 0 PROVE OnLine' = 0
                OBVIOUS
            <4>1. Last("position")
                BY <1>6 DEF Apart
            <4> QED BY <1>1, <3>1, <4>1, LastTaken
        <3> QED BY <1>1, <1>2, <1>3, <1>6, <2>1, <2>3, <3>2 DEF Apart
    <2> QED BY <2>2, <2>3
<1>7. CASE esp.step = 6
    <2>1. n = IF rc = "OK" THEN 7 ELSE 8
        BY <1>7, Following
    <2>2. CASE rc # "OK"
        BY <1>1, <1>2, <1>7, <2>1, <2>2 DEF Apart
    <2>3. CASE rc = "OK"
        <3>1. At(1) = "write" /\ TakesFirst
            BY <1>7, <2>3 DEF TakesFirst
        <3>2. restarts <= 1 => OnLine' = 0
            <4> SUFFICES ASSUME restarts <= 1 PROVE OnLine' = 0
                OBVIOUS
            <4>1. Last("write")
                BY <1>7 DEF Apart
            <4> QED BY <1>1, <3>1, <4>1, LastTaken
        <3> QED BY <1>1, <1>2, <1>3, <1>7, <2>1, <2>3, <3>2 DEF Apart
    <2> QED BY <2>2, <2>3
<1>8. CASE esp.step \in {7, 8}
    <2>1. n = esp.step + 1
        BY <1>8, Following
    <2> QED BY <1>1, <1>2, <1>8, <2>1 DEF Apart
<1> QED BY <1>1, <1>4, <1>5, <1>6, <1>7, <1>8

\* It sends the request of its step.
LEMMA WithoutAdded ==
    ASSUME OnLine \in Nat, NEW u, Adds(u), NEW t, t # u
    PROVE  /\ Without(t) => Without(t)'
           /\ NotAfterInfo(t) => NotAfterInfo(t)'
<1>1. \A i \in 1 .. OnLine' : At(i)' = t => i <= OnLine /\ At(i) = t
    BY DEF Adds
<1>2. \A i \in 1 .. OnLine : At(i)' = At(i)
    BY DEF Adds
<1>3. \A i, j \in 1 .. OnLine' : i < j => i <= OnLine
    BY DEF Adds
<1>4. OnLine' = OnLine + 1
    BY DEF Adds
<1> QED BY <1>1, <1>2, <1>3, <1>4 DEF Without, NotAfterInfo

LEMMA LastAdded ==
    ASSUME OnLine \in Nat, NEW t, Adds(t)
    PROVE  /\ Without(t) => Last(t)'
           /\ Without("info") => NotAfterInfo(t)'
<1>1. \A i, j \in 1 .. OnLine' : i < j => i \in 1 .. OnLine /\ At(i)' = At(i)
    BY DEF Adds
<1> QED BY <1>1 DEF Without, Last, NotAfterInfo

LEMMA ApartSends ==
    ASSUME EspType, Apart, ~esp.waiting, esp.step # 9,
           esp' = [esp EXCEPT !.waiting = TRUE], restarts' = restarts,
           NEW u, u = RequestTag(Request), Adds(u)
    PROVE  Apart'
<1>1. /\ esp'.step = esp.step /\ esp'.waiting /\ esp.step \in 1 .. 8
      /\ OnLine \in Nat /\ OnLine' = OnLine + 1 /\ restarts \in Nat
    BY LineTyped DEF EspType, Adds
<1>2. \A t \in {"info", "write", "position", "led"} : t # u =>
          /\ Without(t) => Without(t)'
          /\ NotAfterInfo(t) => NotAfterInfo(t)'
    BY <1>1, WithoutAdded
<1>3. /\ Without(u) => Last(u)'
      /\ Without("info") => NotAfterInfo(u)'
    BY <1>1, LastAdded
<1>4. \A t : Without(t)' => Last(t)'
    BY DEF Without, Last
<1>5. CASE esp.step = 1
    <2>1. u = "info"
        BY <1>5, PlanTags DEF Request
    <2> QED BY <1>1, <1>2, <1>5, <2>1 DEF Apart
<1>6. CASE esp.step \in {2, 3, 4}
    <2>1. u = "other"
        BY <1>6, PlanTags DEF Request
    <2> QED BY <1>1, <1>2, <1>6, <2>1 DEF Apart
<1>7. CASE esp.step = 5
    <2>1. u = "position"
        BY <1>7, PlanTags DEF Request
    <2> QED BY <1>1, <1>2, <1>3, <1>7, <2>1 DEF Apart
<1>8. CASE esp.step = 6
    <2>1. u = "write"
        BY <1>8, PlanTags DEF Request
    <2> QED BY <1>1, <1>2, <1>3, <1>8, <2>1 DEF Apart
<1>9. CASE esp.step = 7
    <2>1. u = "led"
        BY <1>9, PlanTags DEF Request
    <2> QED BY <1>1, <1>2, <1>3, <1>9, <2>1 DEF Apart
<1>10. CASE esp.step = 8
    <2>1. u = "write"
        BY <1>10, PlanTags DEF Request
    <2> QED BY <1>1, <1>2, <1>3, <1>10, <2>1 DEF Apart
<1> QED BY <1>1, <1>5, <1>6, <1>7, <1>8, <1>9, <1>10

\* It restarts: nothing of the plan is on the line after an info, or there is
\* no info.
LEMMA ApartRestarts ==
    ASSUME EspType, Apart, Shrinks,
           esp' = [step |-> 1, waiting |-> FALSE], restarts' = restarts + 1
    PROVE  Apart'
<1>1. /\ esp'.step = 1 /\ restarts \in Nat /\ OnLine \in Nat
    BY LineTyped DEF EspType
<1>2. \A t \in {"write", "led"} : NotAfterInfo(t) => NotAfterInfo(t)'
    BY <1>1, Kept
<1>3. restarts' # 0
    BY <1>1
<1> QED BY <1>1, <1>2, <1>3 DEF Apart

----------------------------------------------------------------------------
\* A step of the proxy or the line.
LEMMA PipeStep ==
    ASSUME EInv, Shrinks, EspType', UNCHANGED <<esp, got, restarts>>
    PROVE  EInv'
<1>1. Apart'
    BY LineTyped, ApartKept DEF EInv
<1> QED BY <1>1 DEF EInv, EspValueTrue

LEMMA QuietStep ==
    ASSUME EInv, UNCHANGED <<proxy, line, esp, got, restarts>> PROVE EInv'
<1>1. EspType'
    BY DEF EInv, EspType, line
<1>2. Shrinks
    BY SameLine DEF EInv
<1> QED BY <1>1, <1>2, PipeStep

LEMMA ReceiveStep ==
    ASSUME EInv, Receive PROVE EInv'
<1>1. Shrinks
    BY ReceiveLine DEF EInv
<1>2. /\ toProxy # <<>> /\ toProxy' = Tail(toProxy)
      /\ proxy' = [state |-> IF Head(toProxy).cmd = "info" THEN "answer"
                             ELSE "pending",
                   request |-> Head(toProxy)]
      /\ UNCHANGED <<toEsp, esp, got, restarts>>
    BY DEF Receive
<1>3. Head(toProxy) \in Requests /\ Tail(toProxy) \in Seq(Requests)
    BY <1>2, HeadTailProperties DEF EInv, EspType
<1>4. proxy' \in [state : ProxyStates, request : Requests]
    BY <1>2, <1>3 DEF ProxyStates
<1>5. EspType'
    BY <1>2, <1>3, <1>4 DEF EInv, EspType
<1> QED BY <1>1, <1>2, <1>5, PipeStep

LEMMA GrantStep ==
    ASSUME EInv, Grant PROVE EInv'
<1>1. /\ proxy.state = "pending" /\ proxy' = [proxy EXCEPT !.state = "owns"]
      /\ UNCHANGED <<toProxy, toEsp, esp, got, restarts>>
    BY DEF Grant, line
<1>2. /\ proxy'.state = "owns" /\ proxy'.request = proxy.request
      /\ proxy' \in [state : ProxyStates, request : Requests]
    BY <1>1 DEF EInv, EspType, ProxyStates
<1>3. EspType'
    BY <1>1, <1>2 DEF EInv, EspType
<1>4. OnLine' = OnLine /\ \A i \in 1 .. OnLine : At(i)' = At(i)
    BY <1>1, <1>2 DEF OnLine, Between, InProxy, At
<1>5. Shrinks
    BY <1>4, SameItems DEF EInv
<1> QED BY <1>1, <1>3, <1>5, PipeStep

\* An answer names the command it answers, and its value is of the register that
\* was asked for.
LEMMA ReplyStep ==
    ASSUME EInv, proxy.state # "idle", NEW status, NEW value, Reply(status, value),
           proxy.request.cmd = "read" /\ status = "OK" =>
               value[1] = proxy.request.reg
    PROVE  EInv'
<1> DEFINE r == proxy.request
           a == [status |-> status, cmd |-> r.cmd, address |-> r.address,
                 value |-> value]
<1>1. /\ toEsp' = Append(toEsp, a) /\ proxy' = [proxy EXCEPT !.state = "idle"]
      /\ UNCHANGED <<toProxy, esp, got, restarts>>
    BY DEF Reply
<1>2. /\ proxy'.state = "idle"
      /\ proxy' \in [state : ProxyStates, request : Requests]
    BY <1>1 DEF EInv, EspType, ProxyStates
<1>3. r \in Requests
    BY DEF EInv, EspType
<1>4. r.cmd = "read" => r.reg \in {Position, Led}
    BY <1>3, PlanReads
<1>5. a.cmd = r.cmd /\ a.status = status /\ a.value = value
    OBVIOUS
<1> HIDE DEF a, r
<1>6. AValue(a)
    BY <1>4, <1>5 DEF AValue, r
<1>7. AnswerTag(a) \in {RequestTag(r), "other"}
    BY <1>4, <1>5, SaoAssumption DEF AnswerTag, RequestTag, r
<1>8. Shrinks
    <2>1. EspType /\ toProxy' = toProxy
        BY <1>1 DEF EInv
    <2>2. AnswerTag(a) \in {RequestTag(proxy.request), "other"}
        BY <1>7 DEF r
    <2> QED BY <1>1, <1>2, <2>1, <2>2, AnswerLine
<1>9. EspType'
    <2>1. PICK S : toEsp \in Seq(S)
        BY DEF EInv, EspType
    <2>2. toEsp \in Seq(S \cup {a})
        BY <2>1, SeqMonotonic
    <2>3. /\ toEsp' \in Seq(S \cup {a}) /\ Len(toEsp') = Len(toEsp) + 1
          /\ \A i \in 1 .. Len(toEsp) : toEsp'[i] = toEsp[i]
          /\ toEsp'[Len(toEsp) + 1] = a
        BY <1>1, <2>2, AppendProperties
    <2>4. \A i \in 1 .. Len(toEsp) : AValue(toEsp[i])
        BY DEF EInv, EspType
    <2>5. Len(toEsp) \in Nat
        BY LineTyped DEF EInv
    <2>6. \A i \in 1 .. Len(toEsp') : AValue(toEsp'[i])
        BY <1>6, <2>3, <2>4, <2>5
    <2>7. \E T : toEsp' \in Seq(T)
        BY <2>3
    <2> QED BY <1>1, <1>2, <2>6, <2>7 DEF EInv, EspType
<1> QED BY <1>1, <1>8, <1>9, PipeStep

LEMMA TransactStep ==
    ASSUME EInv, Transact PROVE EInv'
<1> DEFINE r == proxy.request
<1>0. proxy.state # "idle"
    BY DEF Transact
<1>1. CASE \/ Reply("NACK", NoValue) \/ Reply("TIMEOUT", NoValue)
    BY <1>0, <1>1, ReplyStep
<1>2. CASE r.cmd = "read" /\ Reply("OK", <<r.reg, regs[r.reg]>>)
    <2>1. <<r.reg, regs[r.reg]>>[1] = r.reg
        OBVIOUS
    <2> QED BY <1>0, <1>2, <2>1, ReplyStep
<1>3. CASE r.cmd # "read" /\ Reply("OK", NoValue)
    BY <1>0, <1>3, ReplyStep
<1>4. CASE r.cmd = "write" /\ Reply("OK", NoValue)
    BY <1>3, <1>4
<1>5. \/ Reply("NACK", NoValue) \/ Reply("TIMEOUT", NoValue)
      \/ r.cmd = "read" /\ Reply("OK", <<r.reg, regs[r.reg]>>)
      \/ r.cmd # "read" /\ Reply("OK", NoValue)
    BY DEF Transact
<1> QED BY <1>1, <1>2, <1>3, <1>5

LEMMA AnswersLeft ==
    ASSUME EspType, toEsp # <<>>, toEsp' = Tail(toEsp)
    PROVE  /\ \E S : toEsp' \in Seq(S)
           /\ \A i \in 1 .. Len(toEsp') : AValue(toEsp'[i])
<1>1. PICK S : toEsp \in Seq(S)
    BY DEF EspType
<1>2. /\ toEsp' \in Seq(S) /\ Len(toEsp') = Len(toEsp) - 1
      /\ \A i \in 1 .. Len(toEsp') : toEsp'[i] = toEsp[i + 1]
    BY <1>1, HeadTailProperties
<1>3. \A i \in 1 .. Len(toEsp) : AValue(toEsp[i])
    BY DEF EspType
<1>4. Len(toEsp) \in Nat
    BY LineTyped
<1>5. \A i \in 1 .. Len(toEsp') : AValue(toEsp'[i])
    BY <1>2, <1>3, <1>4
<1> QED BY <1>2, <1>5

LEMMA LoseStep ==
    ASSUME EInv, Lose PROVE EInv'
<1>0. UNCHANGED <<proxy, esp, got, restarts>> /\ EspType
    BY DEF Lose, EInv
<1>1. CASE toProxy # <<>> /\ toProxy' = Tail(toProxy) /\ UNCHANGED toEsp
    <2>1. Tail(toProxy) \in Seq(Requests)
        BY <1>1, HeadTailProperties DEF EInv, EspType
    <2>2. EspType'
        BY <1>0, <1>1, <2>1 DEF EspType
    <2>3. Shrinks
        BY <1>0, <1>1, RequestLost
    <2> QED BY <1>0, <2>2, <2>3, PipeStep
<1>2. CASE toEsp # <<>> /\ toEsp' = Tail(toEsp) /\ UNCHANGED toProxy
    <2>1. Shrinks
        BY <1>0, <1>2, AnswerGone
    <2>2. EspType'
        BY <1>0, <1>2, AnswersLeft DEF EspType
    <2> QED BY <1>0, <2>1, <2>2, PipeStep
<1> QED BY <1>1, <1>2 DEF Lose

----------------------------------------------------------------------------
LEMMA SendStep ==
    ASSUME EInv, transact PROVE EInv'
<1>0. EspType /\ Apart /\ ~esp.waiting /\ esp.step # 9
    <2>1. esp.step <= 8
        BY Plan DEF transact, EspRunning
    <2> QED BY <2>1 DEF EInv, transact
<1>1. /\ toProxy' = Append(toProxy, Request) /\ esp' = [esp EXCEPT !.waiting = TRUE]
      /\ got' = NotYet /\ UNCHANGED <<proxy, toEsp, restarts>>
    BY DEF transact
<1>2. Request \in Requests
    BY <1>0, RequestTyped
<1>3. PICK r \in Requests : r = Request
    BY <1>2
<1>4. Adds(RequestTag(r))
    BY <1>0, <1>1, <1>3, RequestSent
<1>5. PICK u : u = RequestTag(r)
    OBVIOUS
<1>6. Apart'
    BY <1>0, <1>1, <1>3, <1>4, <1>5, ApartSends
<1>7. EspType'
    <2>1. toProxy' \in Seq(Requests)
        BY <1>0, <1>1, <1>2, AppendProperties DEF EspType
    <2>2. esp' \in [step : 1 .. 9, waiting : BOOLEAN] /\ esp'.step # 9
        BY <1>0, <1>1 DEF EspType
    <2> QED BY <1>0, <1>1, <2>1, <2>2 DEF EspType
<1>8. got'.rc # "OK"
    BY <1>1 DEF NotYet
<1> QED BY <1>6, <1>7, <1>8 DEF EInv, EspValueTrue

LEMMA GoesOnTyped ==
    ASSUME EspType, esp.waiting, NEW rc,
           esp' = [step |-> FollowingStep(rc), waiting |-> FALSE]
    PROVE  /\ esp' \in [step : 1 .. 9, waiting : BOOLEAN]
           /\ ~esp'.waiting
<1>1. esp.step \in 1 .. 8
    BY DEF EspType
<1>2. FollowingStep(rc) \in 1 .. 9
    BY <1>1, Following
<1> QED BY <1>2

\* The answer to the request of a step is taken for one only when it is one, as
\* far as the steps tell them apart.
LEMMA AnswerStep ==
    ASSUME EInv, receive_response PROVE EInv'
<1> DEFINE answer == Head(toEsp)
           rc == Result(answer)
<1>0. EspType /\ Apart
    BY DEF EInv
<1>1. /\ esp.waiting /\ toEsp # <<>> /\ toEsp' = Tail(toEsp)
      /\ UNCHANGED <<proxy, toProxy, restarts>>
      /\ GoesOn(rc, answer.value)
    BY DEF receive_response
<1>2. /\ Shrinks
      /\ OnLine > 0 /\ OnLine' = OnLine - 1
      /\ \A i \in 1 .. OnLine - 1 : At(i)' = At(i + 1)
      /\ 1 \in 1 .. Len(toEsp) /\ answer = toEsp[1]
      /\ At(1) = AnswerTag(answer)
    BY <1>0, <1>1, AnswerGone
<1>3. esp.step \in 1 .. 8
    BY <1>0, <1>1 DEF EspType
<1>4. AValue(answer)
    BY <1>0, <1>2 DEF EspType
<1>5. rc = "OK" => answer.status = "OK" /\ answer.cmd = Request.cmd
    BY DEF Result
<1>6. PICK rd : rd = rc
    OBVIOUS
<1>7. /\ esp' = [step |-> FollowingStep(rd), waiting |-> FALSE]
      /\ got' = [rc |-> rd, request |-> Request, value |-> answer.value]
    BY <1>1, <1>6 DEF GoesOn
<1>8. 1 \in 1 .. OnLine
    BY <1>0, <1>2, LineTyped
<1>9. rd = "OK" /\ esp.step = 5 => (restarts <= 1 => At(1) = "position")
    <2> SUFFICES ASSUME rd = "OK", esp.step = 5, restarts <= 1
                 PROVE  At(1) = "position"
        OBVIOUS
    <2>1. answer.cmd = "read" /\ answer.status = "OK"
        BY <1>5, <1>6, Plan DEF Request
    <2>2. AnswerTag(answer) \in {"position", "led"}
        BY <2>1 DEF AnswerTag
    <2>3. restarts = 0 \/ restarts = 1
        BY <1>0 DEF EspType
    <2>4. Without("led")
        BY <1>0, <2>3 DEF Apart
    <2> QED BY <1>2, <1>8, <2>2, <2>4 DEF Without
<1>10. rd = "OK" /\ restarts <= 1 => TakesFirst
    <2> SUFFICES ASSUME rd = "OK", restarts <= 1 PROVE TakesFirst
        OBVIOUS
    <2>1. esp.step = 1 => At(1) = "info"
        <3> SUFFICES ASSUME esp.step = 1 PROVE At(1) = "info"
            OBVIOUS
        <3>1. answer.cmd = "info"
            BY <1>5, <1>6, Plan DEF Request
        <3> QED BY <1>2, <3>1 DEF AnswerTag
    <2>2. esp.step = 6 => At(1) = "write"
        <3> SUFFICES ASSUME esp.step = 6 PROVE At(1) = "write"
            OBVIOUS
        <3>1. answer.cmd = "write"
            BY <1>5, <1>6, Plan DEF Request
        <3> QED BY <1>2, <3>1 DEF AnswerTag
    <2> QED BY <1>2, <1>9, <2>1, <2>2 DEF TakesFirst
<1>11. Apart'
    <2>1. CASE restarts <= 1
        BY <1>0, <1>1, <1>2, <1>7, <1>10, <2>1, ApartGoesOn
    <2>2. CASE ~(restarts <= 1)
        BY <1>0, <1>1, <2>2 DEF Apart, EspType
    <2> QED BY <2>1, <2>2
<1>12. EspType'
    <2>1. /\ \E S : toEsp' \in Seq(S)
          /\ \A i \in 1 .. Len(toEsp') : AValue(toEsp'[i])
        BY <1>0, <1>1, AnswersLeft
    <2>2. esp' \in [step : 1 .. 9, waiting : BOOLEAN] /\ ~esp'.waiting
        BY <1>0, <1>1, <1>7, GoesOnTyped
    <2> QED BY <1>0, <1>1, <2>1, <2>2 DEF EspType
<1>13. EspValueTrue'
    <2> SUFFICES ASSUME restarts <= 1, rd = "OK", Request.cmd = "read"
                 PROVE  answer.value[1] = Request.reg
        BY <1>1, <1>7 DEF EspValueTrue
    <2>1. esp.step \in {5, 7}
        BY <1>3, Plan DEF Request
    <2>2. answer.cmd = "read" /\ answer.status = "OK"
        BY <1>5, <1>6
    <2>3. answer.value[1] \in {Position, Led}
        BY <1>4, <2>2 DEF AValue
    <2>4. AnswerTag(answer) = IF answer.value[1] = Position THEN "position" ELSE "led"
        BY <2>2 DEF AnswerTag
    <2>5. CASE esp.step = 5
        <3>1. At(1) = "position"
            BY <1>6, <1>9, <2>5
        <3> QED BY <1>2, <2>4, <2>5, <3>1, Plan DEF Request
    <2>6. CASE esp.step = 7
        <3>1. Without("position")
            BY <1>0, <2>6 DEF Apart
        <3>2. At(1) # "position"
            BY <1>8, <3>1 DEF Without
        <3> QED BY <1>2, <2>3, <2>4, <2>6, <3>2, Plan DEF Request
    <2> QED BY <2>1, <2>5, <2>6
<1> QED BY <1>11, <1>12, <1>13 DEF EInv

LEMMA TimesOutStep ==
    ASSUME EInv, TimesOut PROVE EInv'
<1>0. EspType /\ Apart
    BY DEF EInv
<1>1. /\ esp.waiting /\ UNCHANGED <<proxy, toProxy, toEsp, restarts>>
      /\ esp' = [step |-> FollowingStep("UART"), waiting |-> FALSE]
      /\ got'.rc = "UART"
    BY DEF TimesOut, GoesOn, line
<1>2. Shrinks
    BY <1>0, <1>1, SameLine DEF line
<1>3. Apart'
    BY <1>0, <1>1, <1>2, ApartGoesOn
<1>4. esp' \in [step : 1 .. 9, waiting : BOOLEAN] /\ ~esp'.waiting
    BY <1>0, <1>1, GoesOnTyped
<1>5. EspType'
    BY <1>0, <1>1, <1>4 DEF EspType
<1> QED BY <1>1, <1>3, <1>5 DEF EInv, EspValueTrue

LEMMA RestartStep ==
    ASSUME EInv, Restart PROVE EInv'
<1>0. EspType /\ Apart
    BY DEF EInv
<1>1. /\ esp' = [step |-> 1, waiting |-> FALSE] /\ toEsp' = <<>>
      /\ got' = NotYet /\ restarts' = restarts + 1
      /\ UNCHANGED <<proxy, toProxy>>
    BY DEF Restart
<1>2. Shrinks
    BY <1>0, <1>1, Flushed
<1>3. Apart'
    BY <1>0, <1>1, <1>2, ApartRestarts
<1>4. EspType'
    <2>1. toEsp' \in Seq({}) /\ Len(toEsp') = 0
        BY <1>1, EmptySeq
    <2>2. \E S : toEsp' \in Seq(S)
        BY <2>1
    <2>3. \A i \in 1 .. Len(toEsp') : AValue(toEsp'[i])
        BY <2>1
    <2>4. restarts' \in Nat
        BY <1>0, <1>1 DEF EspType
    <2>5. esp' \in [step : 1 .. 9, waiting : BOOLEAN] /\ ~esp'.waiting
        BY <1>1
    <2> QED BY <1>0, <1>1, <2>2, <2>3, <2>4, <2>5 DEF EspType
<1>5. got'.rc # "OK"
    BY <1>1 DEF NotYet
<1> QED BY <1>3, <1>4, <1>5 DEF EInv, EspValueTrue

LEMMA EInvStep ==
    ASSUME EInv, [Next]_vars PROVE EInv'
<1>1. CASE Receive \/ Grant \/ Transact \/ Lose
    BY <1>1, ReceiveStep, GrantStep, TransactStep, LoseStep
<1>2. CASE Info
    <2>1. /\ Reply("OK", NoValue) /\ proxy.state = "answer"
        BY <1>2 DEF Info
    <2>2. proxy.request.cmd # "read"
        BY <2>1 DEF EInv, EspType
    <2> QED BY <2>1, <2>2, ReplyStep
<1>3. CASE GrantTimesOut
    <2>1. Reply("BUSY", NoValue) /\ proxy.state # "idle"
        BY <1>3 DEF GrantTimesOut
    <2> QED BY <2>1, ReplyStep
<1>4. CASE Client
    BY <1>4, SendStep, AnswerStep, TimesOutStep, RestartStep DEF Client
<1>5. CASE Engine \/ Driver \/ (\E c \in Calls : Begin(c)) \/ Taken
           \/ UNCHANGED saoVars
    <2>1. UNCHANGED <<proxy, line, esp, got, restarts>>
        BY <1>5 DEF Engine, EngineStart, EngineStop, EngineWrite, EngineRead,
            EngineRecover, EngineTimesOut, Hangs, KeepsCall, Driver, Issue, See,
            SpinsRunOut, Begin, Taken, saoVars, espVars, line
    <2> QED BY <2>1, QuietStep
<1> QED BY <1>1, <1>2, <1>3, <1>4, <1>5, StepKinds DEF SaoNext, Proxy

LEMMA InitEInv == Init => EInv
<1> SUFFICES ASSUME Init PROVE EInv
    OBVIOUS
<1>1. /\ proxy = [state |-> "idle", request |-> NoRequest]
      /\ toProxy = <<>> /\ toEsp = <<>> /\ esp = [step |-> 1, waiting |-> FALSE]
      /\ got = NotYet /\ restarts = 0
    BY DEF Init, SaoInit
<1>2. NoRequest \in Requests
    BY DEF NoRequest, Requests
<1>3. /\ toProxy \in Seq(Requests) /\ toEsp \in Seq({}) /\ Len(toEsp) = 0
      /\ Len(toProxy) = 0
    BY <1>1, EmptySeq
<1>4. EspType
    <2>1. \E S : toEsp \in Seq(S)
        BY <1>3
    <2>2. \A i \in 1 .. Len(toEsp) : AValue(toEsp[i])
        BY <1>3
    <2> QED BY <1>1, <1>2, <1>3, <2>1, <2>2 DEF EspType, ProxyStates
<1>5. InProxy = 0
    BY <1>1 DEF InProxy
<1>6. OnLine = 0
    BY <1>3, <1>5 DEF OnLine, Between
<1>7. Apart
    BY <1>1, <1>6, EmptyLine DEF Apart
<1>8. got.rc # "OK"
    BY <1>1 DEF NotYet
<1> QED BY <1>4, <1>7, <1>8 DEF EInv, EspValueTrue

\* The value of a read the client on the ESP32 has (main.c and the bridge client
\* of src/examples/esp32-sao-shared) is that of the register it asked for, after
\* any number of lost frames, late answers, hung commands and failed
\* transactions, as long as the ESP32 restarted at most once.
THEOREM EspValueTrueCorrect == Spec => []EspValueTrue
<1>1. Spec => []EInv
    BY InitEInv, EInvStep, PTL DEF Spec
<1>2. EInv => EspValueTrue
    BY DEF EInv
<1> QED BY <1>1, <1>2, PTL

-----------------------------------------------------------------------------
(***************************************************************************)
(* The types of the whole system.  Only a value is ever written to a       *)
(* register of the device, and its pointer is always that of a register:   *)
(* Reached says which byte of a call meets which turn of the device, and   *)
(* after a failure nothing is left of a call but its STOP.                 *)
(***************************************************************************)
DeviceTyped ==
    /\ bus.by \in {"none", "hazard3", "esp"}
    /\ bus.turn \in {"idle", "address", "reg", "data", "read", "deaf"}
    /\ regs \in [Reg -> Value] /\ ptr \in Reg

CallTyped ==
    /\ drv.pc \in {"idle", "issue", "wait", "returned"}
    /\ drv.call.address \in {Device, Absent}
    /\ drv.left \subseteq {Absent}
    /\ Busy /\ drv.rc # "OK" => drv.script = <<STOP>>

ScreenTyped ==
    /\ where \in {"prompt", "draw", "key", "call"}
    /\ mode \in {"none", "probe", "read", "write"} /\ length \in 0 .. 6
    /\ clkdiv \in {100, 400}

TInv == RInv /\ EInv /\ DeviceTyped /\ CallTyped /\ ScreenTyped

LEMMA FollowingRegister == \A r \in Reg : Next1(r) \in Reg
<1> SUFFICES ASSUME NEW r \in Reg PROVE Next1(r) \in Reg
    OBVIOUS
<1>1. \E n \in Reg : n # r \/ Reg = {r}
    OBVIOUS
<1> QED BY <1>1 DEF Next1

\* The byte that the bridge sends in a turn of the device.
LEMMA ByteTyped ==
    ASSUME IInv, Course, CallTyped, engine.cmd = "write"
    PROVE  /\ bus.turn = "address" => engine.byte[2] \in {"reg", "read"}
           /\ bus.turn = "reg" => engine.byte[1] \in Reg
           /\ bus.turn = "data" => engine.byte[1] \in Value
<1> DEFINE c == drv.call
           s == drv.script
<1>1. /\ drv.rc = "OK" => Reached(c, s, drv.value, bus, ptr, acted)
      /\ Head(s)[1] = "write" /\ engine.byte = Head(s)[2]
      /\ c \in ACall /\ s # <<>>
    BY AtCourse
<1>2. Busy
    BY DEF IInv, Engaged, Busy
<1>3. drv.rc = "OK"
    <2>1. Head(<<STOP>>) = STOP
        OBVIOUS
    <2> QED BY <1>1, <1>2, <2>1, Names DEF CallTyped
<1>4. c.op # "recover"
    <2>1. Head(<<RECOVER>>) = RECOVER
        OBVIOUS
    <2> QED BY <1>1, <1>2, <2>1, Names DEF IInv, ScriptLeft
<1>5. c.reg \in Reg /\ c.value \in Value /\ c.op \in Ops
    BY <1>1 DEF ACall
<1>6. Reached(c, s, drv.value, bus, ptr, acted)
    BY <1>1, <1>3
<1> HIDE DEF c, s
<1>7. CASE c.op \in {"probe", "scan"}
    <2>1. s = <<AddressWrite(c.address), STOP>> /\ OnBus(bus, "address")
        BY <1>1, <1>6, <1>7 DEF Reached, probe, START, STOP
    <2> QED BY <1>1, <2>1 DEF OnBus, AddressWrite
<1>8. CASE c.op = "write"
    <2>1. \/ Head(s) = AddressWrite(c.address) /\ OnBus(bus, "address")
          \/ Head(s) = Byte(c.reg) /\ OnBus(bus, "reg")
          \/ Head(s) = Byte(c.value) /\ OnBus(bus, "data")
        BY <1>1, <1>6, <1>8 DEF Reached, write_reg8, START, STOP
    <2> QED BY <1>1, <1>5, <2>1 DEF OnBus, AddressWrite, Byte
<1>9. CASE c.op = "read"
    <2>1. \/ Head(s) = AddressWrite(c.address) /\ OnBus(bus, "address")
          \/ Head(s) = Byte(c.reg) /\ OnBus(bus, "reg")
          \/ Head(s) = AddressRead(c.address) /\ OnBus(bus, "address")
        BY <1>1, <1>6, <1>9 DEF Reached, read_reg8, START, READ, STOP
    <2> QED BY <1>1, <1>5, <2>1 DEF OnBus, AddressWrite, AddressRead, Byte
<1> QED BY <1>4, <1>5, <1>7, <1>8, <1>9 DEF Ops

LEMMA WriteTyped ==
    ASSUME IInv, Course, CallTyped, DeviceTyped, EngineWrite PROVE DeviceTyped'
<1>1. engine.cmd = "write" /\ DeviceTakes(engine.byte)
    BY DEF EngineWrite
<1>2. bus = [by |-> bus.by, turn |-> bus.turn]
    BY DEF IInv, Shaped
<1>3. CASE bus.turn = "address"
    <2>1. \E t \in {"deaf", engine.byte[2]} : bus' = [bus EXCEPT !.turn = t]
        BY <1>1, <1>3 DEF DeviceTakes
    <2>2. regs' = regs /\ ptr' = ptr
        BY <1>1, <1>3 DEF DeviceTakes
    <2>3. engine.byte[2] \in {"reg", "read"}
        BY <1>1, <1>3, ByteTyped
    <2> QED BY <1>2, <2>1, <2>2, <2>3 DEF DeviceTyped
<1>4. CASE bus.turn = "reg"
    <2>1. bus' = [bus EXCEPT !.turn = "data"] /\ ptr' = engine.byte[1] /\ regs' = regs
        BY <1>1, <1>4 DEF DeviceTakes
    <2>2. engine.byte[1] \in Reg
        BY <1>1, <1>4, ByteTyped
    <2> QED BY <1>2, <2>1, <2>2 DEF DeviceTyped
<1>5. CASE bus.turn = "data"
    <2>1. /\ regs' = [regs EXCEPT ![ptr] = IF ptr = Position THEN regs[ptr]
                                           ELSE engine.byte[1]]
          /\ ptr' = Next1(ptr) /\ bus' = bus
        BY <1>1, <1>5 DEF DeviceTakes
    <2>2. engine.byte[1] \in Value
        BY <1>1, <1>5, ByteTyped
    <2>3. ptr' \in Reg /\ regs' \in [Reg -> Value]
        BY <2>1, <2>2, FollowingRegister DEF DeviceTyped
    <2> QED BY <2>1, <2>3 DEF DeviceTyped
<1>6. CASE bus.turn \notin {"address", "reg", "data"}
    <2>1. UNCHANGED <<bus, regs, ptr>>
        BY <1>1, <1>6 DEF DeviceTakes, device
    <2> QED BY <2>1 DEF DeviceTyped
<1> QED BY <1>3, <1>4, <1>5, <1>6

LEMMA EngineTyped ==
    ASSUME IInv, Course, CallTyped, DeviceTyped, Engine PROVE DeviceTyped'
<1>1. bus = [by |-> bus.by, turn |-> bus.turn]
    BY DEF IInv, Shaped
<1>2. CASE EngineStart \/ EngineStop
    <2>1. bus' \in {[by |-> "hazard3", turn |-> "address"],
                    [by |-> "none", turn |-> "idle"]} /\ UNCHANGED <<regs, ptr>>
        BY <1>2 DEF EngineStart, EngineStop, DeviceStart, DeviceStop
    <2> QED BY <2>1 DEF DeviceTyped
<1>3. CASE EngineRead
    <2>1. /\ ptr' = Next1(ptr) /\ bus' = [bus EXCEPT !.turn = "deaf"]
          /\ regs' = regs
        BY <1>3 DEF EngineRead
    <2>2. ptr' \in Reg
        BY <2>1, FollowingRegister DEF DeviceTyped
    <2> QED BY <1>1, <2>1, <2>2 DEF DeviceTyped
<1>4. CASE EngineRecover \/ EngineTimesOut \/ Hangs
    <2>1. UNCHANGED <<bus, regs, ptr>>
        BY <1>4 DEF EngineRecover, EngineTimesOut, Hangs, device
    <2> QED BY <2>1 DEF DeviceTyped
<1> QED BY <1>2, <1>3, <1>4, WriteTyped DEF Engine

\* The transactions of the client: what it writes are values too.
LEMMA TransactTyped ==
    ASSUME EspType, DeviceTyped, Transact PROVE DeviceTyped'
<1> DEFINE r == proxy.request
<1>1. r \in Requests
    BY DEF EspType
<1>2. r.reg \in Reg /\ r.value \in Value
    BY <1>1, SaoAssumption DEF Requests, EspPlan
<1>3. bus' = [by |-> "none", turn |-> "idle"]
    BY DEF Transact, DeviceStop
<1> HIDE DEF r
<1>4. /\ regs' \in {regs, [regs EXCEPT ![r.reg] = r.value]}
      /\ ptr' \in {ptr, r.reg, Next1(r.reg)}
    BY DEF Transact, r
<1>5. regs' \in [Reg -> Value]
    BY <1>2, <1>4 DEF DeviceTyped
<1>6. ptr' \in Reg
    BY <1>2, <1>4, FollowingRegister DEF DeviceTyped
<1> QED BY <1>3, <1>5, <1>6 DEF DeviceTyped

LEMMA DeviceTypedStep ==
    ASSUME IInv, Course, EspType, CallTyped, DeviceTyped, [Next]_vars
    PROVE  DeviceTyped'
<1>1. bus = [by |-> bus.by, turn |-> bus.turn]
    BY DEF IInv, Shaped
<1>2. CASE Grant
    <2>1. bus' = [bus EXCEPT !.by = "esp"] /\ UNCHANGED <<regs, ptr>>
        BY <1>2 DEF Grant
    <2> QED BY <1>1, <2>1 DEF DeviceTyped
<1>3. CASE SpinsRunOut
    <2>1. bus' \in {bus, [by |-> "none", turn |-> "idle"]} /\ UNCHANGED <<regs, ptr>>
        BY <1>3 DEF SpinsRunOut, DeviceStop
    <2> QED BY <2>1 DEF DeviceTyped
<1>4. CASE \/ Issue \/ See \/ Taken \/ \E c \in Calls : Begin(c)
           \/ Receive \/ Info \/ GrantTimesOut \/ Lose \/ Client
           \/ UNCHANGED saoVars
    <2>1. UNCHANGED device
        BY <1>4 DEF Issue, See, Taken, Begin, Receive, Info, GrantTimesOut, Lose,
            Client, transact, receive_response, TimesOut, Restart, saoVars
    <2> QED BY <2>1 DEF DeviceTyped, device
<1> QED BY <1>2, <1>3, <1>4, EngineTyped, TransactTyped, StepKinds
        DEF SaoNext, Driver, Proxy

----------------------------------------------------------------------------
LEMMA SeenTyped ==
    ASSUME IInv, CallTyped, drv.pc = "wait", NEW outcome, Seen(outcome)
    PROVE  CallTyped'
<1> DEFINE script == drv.script
           rc == IF drv.rc = "OK" THEN outcome ELSE drv.rc
           value == IF Head(script) = READ /\ outcome = "OK" THEN engine.rx
                    ELSE drv.value
<1>d. drv = [call |-> drv.call, script |-> drv.script, rc |-> drv.rc,
             left |-> drv.left, value |-> drv.value, pc |-> drv.pc]
    BY DEF IInv, Shaped
<1>0. drv.call \in ACall
    BY DEF IInv, ScriptLeft, Busy
<1>1. \/ Ends(rc, value)
      \/ drv' = [drv EXCEPT !.rc = rc, !.value = value, !.pc = "issue",
                            !.script = IF rc = "OK" THEN Tail(@) ELSE <<STOP>>]
    BY DEF Seen
<1> HIDE DEF rc, value
<1>2. CASE Ends(rc, value) /\ drv.left # {}
    <2> DEFINE a == CHOOSE x \in drv.left : TRUE
               c == [drv.call EXCEPT !.address = a]
    <2>1. a = Absent
        BY <1>2 DEF CallTyped
    <2>2. drv' = [drv EXCEPT !.call = c, !.script = Script(c),
                             !.left = @ \ {a}, !.rc = "OK", !.pc = "issue"]
        BY <1>2 DEF Ends
    <2>3. c.address = a
        BY <1>0 DEF ACall
    <2> HIDE DEF c, a
    <2>4. /\ drv'.pc = "issue" /\ drv'.call = c /\ drv'.left = drv.left \ {a}
          /\ drv'.rc = "OK"
        BY <1>d, <2>2
    <2> QED BY <2>1, <2>3, <2>4 DEF CallTyped
<1>3. CASE Ends(rc, value) /\ drv.left = {}
    <2>1. drv' = [drv EXCEPT !.pc = "returned", !.call = NoCall, !.script = <<>>,
                             !.rc = "OK", !.left = {}, !.value = NoValue]
        BY <1>3 DEF Ends, Returned
    <2>2. drv'.pc = "returned" /\ drv'.call = NoCall /\ drv'.left = {}
        BY <1>d, <2>1
    <2> QED BY <2>2 DEF CallTyped, NoCall, Busy
<1>4. CASE drv' = [drv EXCEPT !.rc = rc, !.value = value, !.pc = "issue",
                            !.script = IF rc = "OK" THEN Tail(@) ELSE <<STOP>>]
    <2>1. /\ drv'.pc = "issue" /\ drv'.call = drv.call /\ drv'.left = drv.left
          /\ drv'.rc = rc /\ (rc # "OK" => drv'.script = <<STOP>>)
        BY <1>d, <1>4
    <2> QED BY <2>1 DEF CallTyped
<1> QED BY <1>1, <1>2, <1>3, <1>4

LEMMA CallTypedStep ==
    ASSUME IInv, CallTyped, [Next]_vars PROVE CallTyped'
<1>d. drv = [call |-> drv.call, script |-> drv.script, rc |-> drv.rc,
             left |-> drv.left, value |-> drv.value, pc |-> drv.pc]
    BY DEF IInv, Shaped
<1>1. CASE See \/ SpinsRunOut
    BY <1>1, SeenTyped DEF See, SpinsRunOut
<1>2. CASE Issue
    <2>1. drv.pc = "issue" /\ drv' = [drv EXCEPT !.pc = "wait"]
        BY <1>2 DEF Issue
    <2>2. /\ drv'.pc = "wait" /\ drv'.call = drv.call /\ drv'.left = drv.left
          /\ drv'.rc = drv.rc /\ drv'.script = drv.script
        BY <1>d, <2>1
    <2> QED BY <2>1, <2>2 DEF CallTyped, Busy
<1>3. CASE Taken
    <2>1. drv' = [drv EXCEPT !.pc = "idle"]
        BY <1>3 DEF Taken
    <2>2. drv'.pc = "idle" /\ drv'.call = drv.call /\ drv'.left = drv.left
        BY <1>d, <2>1
    <2> QED BY <2>2 DEF CallTyped, Busy
<1>4. ASSUME NEW c \in Calls, Begin(c) PROVE CallTyped'
    <2>1. CASE c.address = Invalid
        <3>1. drv' = [drv EXCEPT !.pc = "returned", !.call = NoCall, !.script = <<>>,
                                 !.rc = "OK", !.left = {}, !.value = NoValue]
            BY <1>4, <2>1 DEF Begin, Returned
        <3>2. drv'.pc = "returned" /\ drv'.call = NoCall /\ drv'.left = {}
            BY <1>d, <3>1
        <3> QED BY <3>2 DEF CallTyped, NoCall, Busy
    <2>2. CASE c.address # Invalid
        <3>1. drv' = [call |-> c, script |-> Script(c), rc |-> "OK",
                      left |-> IF c.op = "scan" THEN {Absent} ELSE {},
                      value |-> NoValue, pc |-> "issue"]
            BY <1>4, <2>2 DEF Begin
        <3>2. c.address \in {Device, Absent}
            BY <2>2 DEF Calls, Address
        <3>3. /\ drv'.pc = "issue" /\ drv'.call = c /\ drv'.left \subseteq {Absent}
              /\ drv'.rc = "OK"
            BY <3>1
        <3> QED BY <3>2, <3>3 DEF CallTyped
    <2> QED BY <2>1, <2>2
<1>5. CASE Engine \/ Proxy \/ Client \/ UNCHANGED saoVars
    <2>1. drv' = drv
        BY <1>5 DEF Engine, EngineStart, EngineStop, EngineWrite, EngineRead,
            EngineRecover, EngineTimesOut, Hangs, KeepsCall, Proxy, Receive, Grant,
            Info, Transact, GrantTimesOut, Lose, Reply, Client, transact,
            receive_response, TimesOut, Restart, saoVars, hazard3
    <2> QED BY <2>1 DEF CallTyped, Busy
<1> QED BY <1>1, <1>2, <1>3, <1>4, <1>5, StepKinds DEF SaoNext, Driver

LEMMA ScreenTypedStep ==
    ASSUME ScreenTyped, [Next]_vars PROVE ScreenTyped'
<1> USE DEF hazard3_sao_init, SAO_I2C_HZ, Leaves, Closes, Redraws, guiVars
<1>1. CASE \/ ConsoleCommand \/ ConsoleResult \/ UNCHANGED guiVars
    BY <1>1 DEF ConsoleCommand, ConsoleResult, ScreenTyped
<1>2. CASE EnterGui \/ Draw \/ Refresh \/ Quit \/ set_speed \/ prompt_begin
           \/ Cancel \/ Incomplete
    BY <1>2 DEF EnterGui, Draw, Refresh, Quit, set_speed, prompt_begin, Cancel,
        Incomplete, ScreenTyped
<1>3. CASE Digit \/ Backspace
    BY <1>3 DEF Digit, Backspace, prompt_required, ScreenTyped
<1>4. CASE prompt_execute \/ ScanOrRecover \/ Performed
    BY <1>4 DEF prompt_execute, ScanOrRecover, Performed, Performs, ScreenTyped
<1> QED BY <1>1, <1>2, <1>3, <1>4 DEF Next, Screen, vars

LEMMA InitTInv == ASSUME Init PROVE TInv
<1>1. /\ bus = [by |-> "none", turn |-> "idle"]
      /\ regs = [r \in Reg |-> 0] /\ ptr = Position
    BY DEF Init, SaoInit
<1>2. 0 \in Value /\ Position \in Reg
    BY SaoAssumption
<1>3. DeviceTyped
    BY <1>1, <1>2 DEF DeviceTyped
<1>4. drv.pc = "idle" /\ drv.call = NoCall /\ drv.left = {}
    BY DEF Init, SaoInit
<1>5. CallTyped
    BY <1>4 DEF CallTyped, NoCall, Busy
<1>6. ScreenTyped
    BY DEF Init, ScreenTyped, SAO_I2C_HZ
<1> QED BY <1>3, <1>5, <1>6, InitRInv, InitEInv DEF TInv

\* The device, the driver, the proxy, the client and the screen keep their
\* types: nothing but a value gets into a register, whichever of the two
\* masters writes it and whatever fails (hazard3_sao.c, sao_fpga_bridge.c).
THEOREM BusTypeCorrect == Spec => []TypeOK
<1>1. TInv /\ [Next]_vars => TInv'
    BY IInvStep, GrantedStep, CourseStep, EInvStep, DeviceTypedStep,
        CallTypedStep, ScreenTypedStep DEF TInv, RInv, EInv
<1>2. ASSUME TInv PROVE TypeOK
    <2>1. proxy.state \in ProxyStates
        BY <1>2 DEF TInv, EInv, EspType
    <2>2. esp.step \in 1 .. 9 /\ esp.waiting \in BOOLEAN
        BY <1>2 DEF TInv, EInv, EspType
    <2>3. Ended = 9
        BY DEF Ended, EspPlan
    <2> QED BY <1>2, <2>1, <2>2, <2>3
            DEF TInv, DeviceTyped, CallTyped, ScreenTyped, ProxyStates, TypeOK
<1> QED BY <1>1, <1>2, InitTInv, PTL DEF Spec

=============================================================================

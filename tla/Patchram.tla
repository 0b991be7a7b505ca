------------------------------ MODULE Patchram ------------------------------
(***************************************************************************)
(* packages/net/brcm-patchram-plus: the program that loads the firmware    *)
(* into a Bluetooth controller over a serial line.                         *)
(*                                                                         *)
(* It sends commands one by one and reads an answer after each, taking     *)
(* whatever bytes come for the answer.  Only the reset has a timer: it is  *)
(* sent again every four seconds until bytes come, because a controller    *)
(* that is starting hears nothing.  Program and controller change their    *)
(* speed each on its own, and hear nothing right while they differ.        *)
(*                                                                         *)
(* The controller is not part of the repository.  It is modelled by what   *)
(* the program relies on: it answers each command it hears, in order, at   *)
(* the speed it was sent with; it changes its speed after the answer; when *)
(* it starts the firmware it is deaf for a while and back to 115200 baud.  *)
(***************************************************************************)
EXTENDS Naturals, Sequences

CONSTANTS
    CommandLines,  \* sequences of options [option, arg]
    Files,         \* the names that end in .hcd and can be opened
    Records,       \* the commands of such a file
    Confirmation,  \* the two bytes of an older controller, or <<>>
    MaxPending     \* bound: the reset is not sent again while more bytes than this
                   \* are due; nor, after one that was too much, while any are

\* A file ends with the command that starts the firmware: the program goes back to
\* 115200 baud after its last record (proc_patchram).
ASSUME PatchramAssumption ==
    /\ Records \in Seq({"write_ram", "launch_ram"}) /\ Records # <<>>
    /\ \A i \in 1 .. Len(Records) : Records[i] = "launch_ram" <=> i = Len(Records)
    /\ Confirmation \in Seq(0 .. 255) /\ Len(Confirmation) \in {0, 2}
    /\ MaxPending \in Nat

VARIABLES
    args,     \* the options left to parse
    options,  \* what has been parsed
    pc,       \* "parse", "go", "answer", "rest", "two", "exit", "serve"
    code,     \* the exit code
    steps,    \* what is left to do
    alarm,    \* the timer of the reset is running
    wanted,   \* the bytes that read_event or read still waits for
    got,      \* bytes of the header
    speed,    \* of the program's side of the line
    line,     \* commands on their way: <<command, speed>>
    wire,     \* bytes on their way back: <<byte, speed>>
    queue,    \* bytes in the kernel
    chip,     \* the controller: [awake, speed]
    twice,    \* (history) a reset was repeated that the controller had heard
    short     \* (history) the read of two bytes returned with one

program == <<args, options, pc, code, steps, alarm, wanted, got, speed>>
history == <<twice, short>>
vars == <<program, line, wire, queue, chip, history>>

Default == 115200
Rates == {115200, 230400, 460800, 500000, 576000, 921600, 1000000, 1152000,
          1500000, 2000000, 2500000, 3000000, 3500000, 4000000}

Init ==
    /\ args \in CommandLines
    /\ options = [file |-> FALSE, rate |-> 0, port |-> FALSE, flags |-> {}]
    /\ pc = "parse" /\ code = 0 /\ steps = <<>> /\ alarm = FALSE
    /\ wanted = 0 /\ got = <<>> /\ speed = Default
    /\ line = <<>> /\ wire = <<>> /\ queue = <<>>
    /\ chip = [awake |-> FALSE, speed |-> Default]
    /\ twice = FALSE /\ short = FALSE

----------------------------------------------------------------------------
\* The command line.
Exit(n) == pc' = "exit" /\ code' = n

ParsePatchram(a) ==
    IF a \in Files
    THEN options' = [options EXCEPT !.file = TRUE] /\ UNCHANGED <<pc, code>>
    ELSE \E n \in 3 .. 5 : Exit(n) /\ UNCHANGED options

\* A rate that is not in the table ends the program.
ParseBaudrate(a) ==
    IF a \in Rates
    THEN options' = [options EXCEPT !.rate = a] /\ UNCHANGED <<pc, code>>
    ELSE Exit(1) /\ UNCHANGED options

\* sscanf finds all the numbers.
ParseNumbers(flag, ok) ==
    IF ok
    THEN options' = [options EXCEPT !.flags = @ \cup {flag}] /\ UNCHANGED <<pc, code>>
    ELSE Exit(1) /\ UNCHANGED options

ParseFlag(flag) ==
    options' = [options EXCEPT !.flags = @ \cup {flag}] /\ UNCHANGED <<pc, code>>

ParseOption ==
    /\ pc = "parse" /\ args # <<>>
    /\ args' = Tail(args)
    /\ LET o == Head(args) IN
       CASE o.option = "patchram" -> ParsePatchram(o.arg)
         [] o.option = "baudrate" -> ParseBaudrate(o.arg)
         [] o.option \in {"scopcm", "i2s", "tosleep"} -> ParseNumbers(o.option, o.arg)
         [] o.option = "port" ->
                options' = [options EXCEPT !.port = o.arg] /\ UNCHANGED <<pc, code>>
         [] OTHER -> ParseFlag(o.option)
    /\ UNCHANGED <<steps, alarm, wanted, got, speed, line, wire, queue, chip, history>>

----------------------------------------------------------------------------
\* What the program does, as a sequence of steps.
Send(command) == <<[do |-> "send", command |-> command]>>
TwoBytes == <<[do |-> "two"]>>
SetSpeed(rate) == <<[do |-> "speed", rate |-> rate]>>
If(condition, s) == IF condition THEN s ELSE <<>>

ProcReset == Send("reset")

ProcPatchram(o) ==
    Send("minidriver")
    \o If("no2bytes" \notin o.flags, TwoBytes)
    \o [i \in 1 .. Len(Records) |-> Send(Records[i])[1]]
    \o If("use_baudrate_for_download" \in o.flags, SetSpeed(Default))
    \o ProcReset

ProcBaudrate(o) ==
    If(o.rate > 3000000, Send("clock")) \o Send("baud") \o SetSpeed(o.rate)

ProcBdaddr == Send("bd_addr")
ProcEnableLpm == Send("sleep_mode")
ProcI2s == Send("i2spcm")
ProcScopcm == Send("sco_pcm_int") \o Send("pcm_data_format")

Steps(o) ==
    ProcReset
    \o If("use_baudrate_for_download" \in o.flags /\ o.rate # 0, ProcBaudrate(o))
    \o If(o.file, ProcPatchram(o))
    \o If(o.rate # 0, ProcBaudrate(o))
    \o If("bd_addr" \in o.flags, ProcBdaddr)
    \o If("enable_lpm" \in o.flags, ProcEnableLpm)
    \o If("scopcm" \in o.flags, ProcScopcm)
    \o If("i2s" \in o.flags, ProcI2s)

\* init_uart flushes what the kernel has.
InitUart ==
    /\ pc = "parse" /\ args = <<>>
    /\ IF options.port
       THEN pc' = "go" /\ steps' = Steps(options) /\ speed' = Default /\ UNCHANGED code
       ELSE Exit(2) /\ UNCHANGED <<steps, speed>>
    /\ queue' = <<>>
    /\ UNCHANGED <<args, options, alarm, wanted, got, line, wire, chip, history>>

Doing(what) == pc = "go" /\ steps # <<>> /\ Head(steps).do = what

NoAlarm ==   \* Mutant: alarm is not called.
    /\ Doing("send")
    /\ line' = Append(line, <<Head(steps).command, speed>>)
    /\ pc' = "answer" /\ wanted' = 3 /\ got' = <<>>
    /\ UNCHANGED <<args, options, code, steps, alarm, speed, wire, queue, chip, history>>

\* hci_send_cmd, and for a reset alarm(4); read_event begins with three bytes.
HciSendCmd ==
    /\ Doing("send")
    /\ line' = Append(line, <<Head(steps).command, speed>>)
    /\ alarm' = (Head(steps).command = "reset")
    /\ pc' = "answer" /\ wanted' = 3 /\ got' = <<>>
    /\ UNCHANGED <<args, options, code, steps, speed, wire, queue, chip, history>>

\* read gives what there is, if it is not more than it is asked for.
ReadSome ==
    /\ pc \in {"answer", "rest"} /\ wanted > 0 /\ queue # <<>>
    /\ LET n == IF Len(queue) < wanted THEN Len(queue) ELSE wanted IN
        /\ wanted' = wanted - n
        /\ queue' = SubSeq(queue, n + 1, Len(queue))
        /\ got' = IF pc = "answer" THEN got \o SubSeq(queue, 1, n) ELSE got
    /\ UNCHANGED <<args, options, pc, code, steps, alarm, speed, line, wire, chip, history>>

FixedLength ==   \* Mutant: every answer is thought to have three bytes more.
    /\ pc = "answer" /\ wanted = 0
    /\ pc' = "rest" /\ wanted' = 3
    /\ UNCHANGED <<args, options, code, steps, alarm, got, speed, line, wire, queue, chip, history>>

\* The third byte tells how many follow.
ReadEventRest ==
    /\ pc = "answer" /\ wanted = 0
    /\ pc' = "rest" /\ wanted' = got[3]
    /\ UNCHANGED <<args, options, code, steps, alarm, got, speed, line, wire, queue, chip, history>>

AlarmLeft ==   \* Mutant: no alarm(0).
    /\ pc = "rest" /\ wanted = 0
    /\ pc' = "go" /\ steps' = Tail(steps) /\ got' = <<>>
    /\ UNCHANGED <<args, options, code, alarm, wanted, speed, line, wire, queue, chip, history>>

\* The end of read_event, and alarm(0).
ReadEventEnd ==
    /\ pc = "rest" /\ wanted = 0
    /\ pc' = "go" /\ steps' = Tail(steps) /\ alarm' = FALSE /\ got' = <<>>
    /\ UNCHANGED <<args, options, code, wanted, speed, line, wire, queue, chip, history>>

\* The bytes that an older controller sends when it is ready.
ReadTwo ==
    /\ Doing("two")
    /\ pc' = "two"
    /\ UNCHANGED <<args, options, code, steps, alarm, wanted, got, speed, line, wire, queue, chip, history>>

\* One call of read, which returns with what there is.
ReadTwoEnd ==
    /\ pc = "two" /\ queue # <<>>
    /\ LET n == IF Len(queue) = 1 THEN 1 ELSE 2 IN
       queue' = SubSeq(queue, n + 1, Len(queue)) /\ short' = (short \/ n = 1)
    /\ pc' = "go" /\ steps' = Tail(steps)
    /\ UNCHANGED <<args, options, code, alarm, wanted, got, speed, line, wire, chip, twice>>

\* tcsetattr takes effect at once.
TcSetAttr ==
    /\ Doing("speed")
    /\ speed' = Head(steps).rate /\ steps' = Tail(steps)
    /\ UNCHANGED <<args, options, pc, code, alarm, wanted, got, line, wire, queue, chip, history>>

Finish ==
    /\ pc = "go" /\ steps = <<>>
    /\ pc' = IF "enable_hci" \in options.flags THEN "serve" ELSE "exit"
    /\ UNCHANGED <<args, options, code, steps, alarm, wanted, got, speed, line, wire, queue,
                   chip, history>>

EventLength == 7

Pending == Len(line) * EventLength + Len(wire) + Len(queue)

\* The alarm: expired sends the reset again, while read goes on waiting.
Expired ==
    /\ alarm /\ pc \in {"answer", "rest"}
    /\ Pending <= IF twice THEN 0 ELSE MaxPending
    /\ line' = Append(line, <<"reset", speed>>)
    /\ twice' = (twice \/ Pending > 0 \/ got # <<>>)
    /\ UNCHANGED <<program, wire, queue, chip, short>>

----------------------------------------------------------------------------
\* The controller and the line.
Opcode(c) ==
    CASE c = "reset" -> <<3, 12>> [] c = "minidriver" -> <<46, 252>>
      [] c = "baud" -> <<24, 252>> [] c = "clock" -> <<69, 252>>
      [] c = "bd_addr" -> <<1, 252>> [] c = "sleep_mode" -> <<39, 252>>
      [] c = "sco_pcm_int" -> <<28, 252>> [] c = "pcm_data_format" -> <<30, 252>>
      [] c = "i2spcm" -> <<109, 252>> [] c = "write_ram" -> <<76, 252>>
      [] c = "launch_ram" -> <<78, 252>>

Bytes(s, rate) == [i \in 1 .. Len(s) |-> <<s[i], rate>>]

\* Command Complete: the third byte is the number of those that follow.
Answer(c) ==
    <<4, 14, 4, 1, Opcode(c)[1], Opcode(c)[2], 0>>
    \o If(c = "minidriver", Confirmation)

Hear ==
    /\ line # <<>>
    /\ LET c == Head(line)[1] IN
       IF chip.awake /\ Head(line)[2] = chip.speed
       THEN /\ wire' = wire \o Bytes(Answer(c), chip.speed)
            /\ chip' = CASE c = "baud" -> [chip EXCEPT !.speed = options.rate]
                         [] c = "launch_ram" -> [awake |-> FALSE, speed |-> Default]
                         [] OTHER -> chip
       ELSE UNCHANGED <<wire, chip>>
    /\ line' = Tail(line)
    /\ UNCHANGED <<program, queue, history>>

Wake ==
    /\ ~chip.awake
    /\ chip' = [chip EXCEPT !.awake = TRUE]
    /\ UNCHANGED <<program, line, wire, queue, history>>

\* At another speed a byte is not recognised, or received as zero.
Arrive ==
    /\ wire # <<>>
    /\ wire' = Tail(wire)
    /\ queue' \in IF Head(wire)[2] = speed THEN {Append(queue, Head(wire)[1])}
                                           ELSE {queue, Append(queue, 0)}
    /\ UNCHANGED <<program, line, chip, history>>

Host ==
    \/ ParseOption \/ InitUart \/ HciSendCmd \/ ReadSome \/ ReadEventRest \/ ReadEventEnd
    \/ ReadTwo \/ ReadTwoEnd \/ TcSetAttr \/ Finish

Next == Host \/ Expired \/ Hear \/ Wake \/ Arrive

\* The program runs, the timer expires, the controller gets ready and hears, and
\* bytes arrive.
Spec ==
    /\ Init /\ [][Next]_vars
    /\ WF_vars(Host) /\ WF_vars(Expired) /\ WF_vars(Hear) /\ WF_vars(Wake) /\ WF_vars(Arrive)

----------------------------------------------------------------------------
\* Every variable has its type, and the timer runs only during a reset.
TypeOK ==
    /\ pc \in {"parse", "go", "answer", "rest", "two", "exit", "serve"}
    /\ code \in 0 .. 5 /\ (pc # "exit" => code = 0)
    /\ options.rate \in Rates \cup {0} /\ speed \in Rates /\ chip.speed \in Rates
    /\ wanted \in 0 .. 255 /\ Len(got) <= 3
    /\ alarm => steps # <<>> /\ Head(steps) = ProcReset[1]
    /\ twice \in BOOLEAN /\ short \in BOOLEAN

\* The two-byte option fits the controller.
Fits == ("no2bytes" \in options.flags) = (Confirmation = <<>>)

\* As long as no reset was repeated that the controller had heard, and the two bytes
\* came together, program and
\* controller are in step: before a command is sent the answers to all earlier
\* ones have been read to the last byte and both sides have the same speed, through
\* the download, the restart of the controller and every change of speed.
InStep ==
    Doing("send") /\ Fits /\ ~twice /\ ~short =>
        /\ line = <<>> /\ wire = <<>> /\ queue = <<>>
        /\ speed = chip.speed

\* The program ends, or serves, as long as no reset is repeated that the controller
\* had heard and the two bytes come together: a controller that is deaf when the
\* reset comes does not stop it.
Returns == []((Fits /\ ~twice /\ ~short) \/ pc = "parse") => <>(pc \in {"exit", "serve"})

=============================================================================

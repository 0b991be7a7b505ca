--------------------------- MODULE Patchram_proofs ---------------------------
(***************************************************************************)
(* Proofs about Patchram, for every command line, every firmware file that *)
(* ends with the command that starts the firmware, either controller, and  *)
(* any number of bytes that may be due when the reset is repeated.         *)
(*                                                                         *)
(* First what the program does, as a sequence: which step follows which.   *)
(* Then the types.  Then that program and controller stay in step: before  *)
(* an answer is read it is known how many bytes of it are still to come,   *)
(* at which speed, and what speed the controller will have.                *)
(***************************************************************************)
EXTENDS Patchram, SequenceTheorems, TLAPS

Byte == 0 .. 255

Commands == {"reset", "minidriver", "baud", "clock", "bd_addr", "sleep_mode", "sco_pcm_int",
             "pcm_data_format", "i2spcm", "write_ram", "launch_ram"}

\* What the program can have to do.
StepSet == [do : {"send"}, command : Commands] \cup [do : {"two"}] \cup [do : {"speed"}, rate : Rates]

\* What parsing leaves of the command line.
IsOptions(o) ==
    /\ DOMAIN o = {"file", "rate", "port", "flags"}
    /\ o.file \in BOOLEAN /\ o.rate \in Rates \cup {0}

----------------------------------------------------------------------------
\* The steps of the program

SendAt(s, i, c) == s[i].do = "send" /\ s[i].command = c
SpeedAt(s, i, rate) == s[i].do = "speed" /\ s[i].rate = rate

\* The program changes its speed after the commands that make the controller do so.
SpeedAfter(s, i, o) ==
    \/ SendAt(s, i, "baud") /\ s[i + 1].rate = o.rate
    \/ SendAt(s, i, "launch_ram") /\ s[i + 1].rate = Default

\* What has to follow a command, and what only follows one.
Followed(s, i, o) ==
    /\ s[i].do = "two" => "no2bytes" \notin o.flags
    /\ SendAt(s, i, "baud") => i < Len(s) /\ SpeedAt(s, i + 1, o.rate) /\ o.rate # 0
    /\ SendAt(s, i, "minidriver") /\ "no2bytes" \notin o.flags => i < Len(s) /\ s[i + 1].do = "two"
    /\ SendAt(s, i, "launch_ram") /\ "use_baudrate_for_download" \in o.flags
         => i < Len(s) /\ SpeedAt(s, i + 1, Default)
Follows(s, i, o) ==
    /\ s[i + 1].do = "speed" => SpeedAfter(s, i, o)
    /\ s[i + 1].do = "two" => SendAt(s, i, "minidriver")

\* Parts of the program that leave nothing open.
Closed(s, o) ==
    /\ \A i \in 1 .. Len(s) : Followed(s, i, o)
    /\ \A i \in 1 .. (Len(s) - 1) : Follows(s, i, o)
    /\ s # <<>> => s[1].do = "send"

NoSpeed(s) == \A i \in 1 .. Len(s) : s[i].do # "speed"
NoLaunch(s) == \A i \in 1 .. Len(s) : ~SendAt(s, i, "launch_ram")

\* Without use_baudrate_for_download the speed is not changed before the download ends.
LaunchFirst(s, o) ==
    "use_baudrate_for_download" \notin o.flags =>
        \A i \in 1 .. Len(s) : SendAt(s, i, "launch_ram") => \A j \in 1 .. i : s[j].do # "speed"

\* Of what is left, all but what has to come before the first step.
Paired(s, o) ==
    /\ \A i \in 1 .. Len(s) : Followed(s, i, o)
    /\ \A i \in 1 .. (Len(s) - 1) : Follows(s, i, o)
    /\ LaunchFirst(s, o)

\* The table of rates.
LEMMA RatesAre == Default \in Rates /\ Rates \subseteq Nat /\ 0 \notin Rates
BY SMT DEF Default, Rates

\* One part after another.
LEMMA ClosedConcat ==
    ASSUME NEW o, NEW s \in Seq(StepSet), NEW t \in Seq(StepSet), Closed(s, o), Closed(t, o)
    PROVE  s \o t \in Seq(StepSet) /\ Closed(s \o t, o)
<1> DEFINE u == s \o t
           m == Len(s)
           n == Len(t)
<1>1. /\ u \in Seq(StepSet) /\ Len(u) = m + n /\ m \in Nat /\ n \in Nat
      /\ \A i \in 1 .. m : u[i] = s[i]
      /\ \A i \in 1 .. n : m + i \in 1 .. (m + n) /\ u[m + i] = t[i]
  <2>1. /\ u \in Seq(StepSet) /\ Len(u) = m + n /\ m \in Nat /\ n \in Nat
        /\ \A i \in 1 .. (m + n) : u[i] = IF i <= m THEN s[i] ELSE t[i - m]
    BY ConcatProperties
  <2> HIDE DEF u, m, n
  <2>2. \A i \in 1 .. m : u[i] = s[i]
    BY <2>1
  <2>3. ASSUME NEW i \in 1 .. n PROVE m + i \in 1 .. (m + n) /\ u[m + i] = t[i]
    <3>1. m + i \in 1 .. (m + n) /\ ~(m + i <= m) /\ (m + i) - m = i
      BY <2>1
    <3> QED
      BY <2>1, <3>1
  <2> QED
    BY <2>1, <2>2, <2>3
<1> HIDE DEF u
<1>2. /\ \A i \in 1 .. m : Followed(s, i, o)
      /\ \A i \in 1 .. (m - 1) : Follows(s, i, o)
      /\ \A i \in 1 .. n : Followed(t, i, o)
      /\ \A i \in 1 .. (n - 1) : Follows(t, i, o)
      /\ n > 0 => t[1].do = "send"
      /\ m > 0 => s[1].do = "send"
  BY DEF Closed
<1> HIDE DEF m, n
<1>3. ASSUME NEW i \in 1 .. m PROVE Followed(u, i, o)
  <2>1. u[i] = s[i] /\ Followed(s, i, o) /\ (i < m => i + 1 \in 1 .. m /\ i < m + n)
    BY <1>1, <1>2
  <2>2. i < m => u[i + 1] = s[i + 1]
    BY <1>1, <2>1
  <2> QED
    BY <1>1, <2>1, <2>2 DEF Followed, SendAt, SpeedAt, m
<1>4. ASSUME NEW i \in 1 .. n PROVE Followed(u, m + i, o)
  <2>1. u[m + i] = t[i] /\ Followed(t, i, o)
    BY <1>1, <1>2
  <2>2. i < n => u[(m + i) + 1] = t[i + 1] /\ m + i < m + n
    <3> SUFFICES ASSUME i < n PROVE u[(m + i) + 1] = t[i + 1] /\ m + i < m + n
      OBVIOUS
    <3>1. i + 1 \in 1 .. n /\ m + (i + 1) = (m + i) + 1
      BY <1>1
    <3>2. u[m + (i + 1)] = t[i + 1]
      BY <1>1, <3>1
    <3> QED
      BY <1>1, <3>1, <3>2
  <2> QED
    BY <1>1, <2>1, <2>2 DEF Followed, SendAt, SpeedAt, n
<1>5. ASSUME NEW i \in 1 .. (m + n) PROVE i \in 1 .. m \/ (i - m \in 1 .. n /\ i = m + (i - m))
  BY <1>1
<1>6. \A i \in 1 .. (m + n) : Followed(u, i, o)
  BY <1>3, <1>4, <1>5
<1>7. ASSUME NEW i \in 1 .. (m + n - 1) PROVE Follows(u, i, o)
  <2>1. CASE i < m
    <3>1. i \in 1 .. m /\ i \in 1 .. (m - 1) /\ i + 1 \in 1 .. m
      BY <1>1, <2>1
    <3>2. u[i] = s[i] /\ u[i + 1] = s[i + 1] /\ Follows(s, i, o)
      BY <1>1, <1>2, <3>1
    <3> QED
      BY <3>2 DEF Follows, SpeedAfter, SendAt
  <2>2. CASE i = m
    <3>1. 1 \in 1 .. n /\ u[m + 1] = t[1] /\ n > 0
      BY <1>1, <2>2
    <3>2. u[i + 1].do = "send"
      BY <1>2, <2>2, <3>1
    <3> QED
      BY <3>2 DEF Follows
  <2>3. CASE i > m
    <3> DEFINE k == i - m
    <3>1. k \in 1 .. n /\ k \in 1 .. (n - 1) /\ k + 1 \in 1 .. n /\ i = m + k /\ i + 1 = m + (k + 1)
      BY <1>1, <2>3
    <3> HIDE DEF k
    <3>2. u[i] = t[k] /\ u[i + 1] = t[k + 1] /\ Follows(t, k, o)
      BY <1>1, <1>2, <3>1
    <3> QED
      BY <3>2 DEF Follows, SpeedAfter, SendAt
  <2> QED
    BY <1>1, <2>1, <2>2, <2>3
<1>8. u # <<>> => u[1].do = "send"
  <2>1. CASE m > 0
    BY <1>1, <1>2, <2>1
  <2>2. CASE m = 0 /\ n > 0
    <3>1. 1 \in 1 .. n /\ m + 1 = 1
      BY <1>1, <2>2
    <3>2. u[1] = t[1]
      BY <1>1, <3>1
    <3> QED
      BY <1>2, <2>2, <3>2
  <2>3. CASE m = 0 /\ n = 0
    BY <1>1, <2>3
  <2> QED
    BY <1>1, <2>1, <2>2, <2>3
<1>9. Closed(u, o)
  <2>1. Len(u) = m + n
    BY <1>1
  <2>2. \A i \in 1 .. Len(u) : Followed(u, i, o)
    BY <1>6, <2>1
  <2>3. ASSUME NEW i \in 1 .. (Len(u) - 1) PROVE Follows(u, i, o)
    <3>1. i \in 1 .. (m + n - 1)
      BY <1>1, <2>1
    <3> QED
      BY <1>7, <3>1
  <2> QED
    BY <1>8, <2>2, <2>3 DEF Closed
<1> QED
  BY <1>1, <1>9 DEF u

\* What holds of every step of two parts holds of every step of both.
LEMMA NoneConcat ==
    ASSUME NEW o, NEW s \in Seq(StepSet), NEW t \in Seq(StepSet)
    PROVE  /\ NoSpeed(s) /\ NoSpeed(t) => NoSpeed(s \o t)
           /\ NoLaunch(s) /\ NoLaunch(t) => NoLaunch(s \o t)
           /\ LaunchFirst(s, o) /\ NoLaunch(t) => LaunchFirst(s \o t, o)
<1> DEFINE u == s \o t
           m == Len(s)
           n == Len(t)
<1>1. /\ Len(u) = m + n /\ m \in Nat /\ n \in Nat
      /\ \A i \in 1 .. (m + n) : u[i] = IF i <= m THEN s[i] ELSE t[i - m]
  BY ConcatProperties
<1> HIDE DEF u
<1>2. \A i \in 1 .. (m + n) : \/ i \in 1 .. m /\ u[i] = s[i]
                              \/ i - m \in 1 .. n /\ u[i] = t[i - m] /\ i > m
  <2> HIDE DEF m, n
  <2> QED
    BY <1>1
<1>3. NoSpeed(s) /\ NoSpeed(t) => NoSpeed(u)
  BY <1>1, <1>2 DEF NoSpeed
<1>4. NoLaunch(s) /\ NoLaunch(t) => NoLaunch(u)
  BY <1>1, <1>2 DEF NoLaunch, SendAt
<1>5. ASSUME LaunchFirst(s, o), NoLaunch(t) PROVE LaunchFirst(u, o)
  <2> SUFFICES ASSUME "use_baudrate_for_download" \notin o.flags, NEW i \in 1 .. (m + n),
                      SendAt(u, i, "launch_ram"), NEW j \in 1 .. i
               PROVE  u[j].do # "speed"
    BY <1>1 DEF LaunchFirst
  <2>1. i \in 1 .. m /\ u[i] = s[i]
    BY <1>2, <1>5 DEF NoLaunch, SendAt
  <2>2. SendAt(s, i, "launch_ram") /\ s[j].do # "speed"
    BY <1>5, <2>1 DEF LaunchFirst, SendAt
  <2>3. j \in 1 .. (m + n) /\ j <= m
    BY <1>1, <2>1
  <2>4. u[j] = s[j]
    BY <1>1, <2>3
  <2> QED
    BY <2>2, <2>4
<1> QED
  BY <1>3, <1>4, <1>5 DEF u

\* Two steps in a row.
LEMMA TwoSteps ==
    ASSUME NEW a \in StepSet, NEW b \in StepSet, NEW s, s = <<a>> \o <<b>>
    PROVE  s \in Seq(StepSet) /\ Len(s) = 2 /\ s[1] = a /\ s[2] = b
<1> DEFINE p == <<a>>
           q == <<b>>
<1>1. /\ p \in Seq(StepSet) /\ Len(p) = 1 /\ p[1] = a
      /\ q \in Seq(StepSet) /\ Len(q) = 1 /\ q[1] = b
      /\ s = p \o q
  OBVIOUS
<1> HIDE DEF p, q
<1>2. /\ s \in Seq(StepSet) /\ Len(s) = 1 + 1
      /\ \A i \in 1 .. (1 + 1) : s[i] = IF i <= 1 THEN p[i] ELSE q[i - 1]
  BY <1>1, ConcatProperties
<1>3. 1 \in 1 .. (1 + 1) /\ 2 \in 1 .. (1 + 1) /\ ~(2 <= 1) /\ 2 - 1 = 1
  OBVIOUS
<1> QED
  BY <1>1, <1>2, <1>3

\* A command that nothing has to follow.
LEMMA SendPart ==
    ASSUME NEW o, NEW c \in Commands \ {"baud", "minidriver", "launch_ram"}
    PROVE  /\ Send(c) \in Seq(StepSet) /\ Closed(Send(c), o)
           /\ NoSpeed(Send(c)) /\ NoLaunch(Send(c))
<1> DEFINE s == Send(c)
<1>1. s \in Seq(StepSet) /\ Len(s) = 1 /\ s[1].do = "send" /\ s[1].command = c
  BY DEF Send, StepSet
<1> HIDE DEF s
<1>2. \A i \in 1 .. Len(s) : i = 1
  BY <1>1
<1>3. Len(s) - 1 = 0
  BY <1>1
<1>4. Closed(s, o)
  BY <1>1, <1>2, <1>3 DEF Closed, Followed, SendAt
<1>5. NoSpeed(s) /\ NoLaunch(s)
  BY <1>1, <1>2 DEF NoSpeed, NoLaunch, SendAt
<1> QED
  BY <1>1, <1>4, <1>5 DEF s

\* Nothing to do.
LEMMA NoPart ==
    ASSUME NEW o
    PROVE  /\ <<>> \in Seq(StepSet) /\ Closed(<<>>, o)
           /\ NoSpeed(<<>>) /\ NoLaunch(<<>>)
BY DEF Closed, NoSpeed, NoLaunch

\* A part that is left out or not.
LEMMA IfPart ==
    ASSUME NEW o, NEW condition \in BOOLEAN, NEW s \in Seq(StepSet), Closed(s, o)
    PROVE  /\ If(condition, s) \in Seq(StepSet) /\ Closed(If(condition, s), o)
           /\ NoSpeed(s) => NoSpeed(If(condition, s))
           /\ NoLaunch(s) => NoLaunch(If(condition, s))
BY NoPart DEF If

\* proc_baudrate ends with the change of the program's own speed.
LEMMA BaudratePart ==
    ASSUME NEW o, IsOptions(o), o.rate # 0
    PROVE  /\ ProcBaudrate(o) \in Seq(StepSet) /\ Closed(ProcBaudrate(o), o)
           /\ NoLaunch(ProcBaudrate(o))
<1> DEFINE fast == o.rate > 3000000
           a == If(fast, Send("clock"))
           b == Send("baud") \o SetSpeed(o.rate)
<1>1. o.rate \in Rates
  BY DEF IsOptions
<1>2. Send("baud") \in Seq(StepSet) /\ SetSpeed(o.rate) \in Seq(StepSet)
  BY <1>1 DEF Send, SetSpeed, StepSet, Commands
<1>3. a \in Seq(StepSet) /\ Closed(a, o) /\ NoLaunch(a)
  <2>1. "clock" \in Commands \ {"baud", "minidriver", "launch_ram"}
    BY DEF Commands
  <2>2. fast \in BOOLEAN
    BY SMT, <1>1, RatesAre
  <2> HIDE DEF fast
  <2> QED
    BY <2>1, <2>2, SendPart, IfPart
<1>4. ProcBaudrate(o) = a \o b
  <2>1. ProcBaudrate(o) = (a \o Send("baud")) \o SetSpeed(o.rate)
    BY SMT DEF ProcBaudrate
  <2> HIDE DEF a
  <2> QED
    BY <1>2, <1>3, <2>1, ConcatAssociative
<1>5. /\ b \in Seq(StepSet) /\ Len(b) = 2 /\ b[1].do = "send" /\ b[1].command = "baud"
      /\ b[2].do = "speed" /\ b[2].rate = o.rate
  <2> DEFINE x == [do |-> "send", command |-> "baud"]
             y == [do |-> "speed", rate |-> o.rate]
  <2>1. b = <<x>> \o <<y>>
    BY DEF Send, SetSpeed
  <2>2. x \in StepSet /\ y \in StepSet /\ x.do = "send" /\ x.command = "baud"
        /\ y.do = "speed" /\ y.rate = o.rate
    BY <1>1 DEF StepSet, Commands
  <2> HIDE DEF x, y, b
  <2> QED
    BY <2>1, <2>2, TwoSteps
<1> HIDE DEF a, b, fast
<1>6. Closed(b, o) /\ NoLaunch(b)
  <2>1. \A i \in 1 .. Len(b) : i = 1 \/ i = 2
    BY <1>5
  <2>2. \A i \in 1 .. (Len(b) - 1) : i = 1
    BY <1>5
  <2>3. Followed(b, 1, o)
    BY <1>5 DEF Followed, SendAt, SpeedAt
  <2>4. Followed(b, 2, o)
    BY <1>5 DEF Followed, SendAt, SpeedAt
  <2>5. Follows(b, 1, o)
    BY <1>5 DEF Follows, SpeedAfter, SendAt
  <2> QED
    BY <1>5, <2>1, <2>2, <2>3, <2>4, <2>5 DEF Closed, NoLaunch, SendAt
<1> QED
  BY <1>3, <1>4, <1>5, <1>6, ClosedConcat, NoneConcat

\* proc_patchram reads the two bytes after the first command, and changes the speed
\* after the last record.
LEMMA PatchramPart ==
    ASSUME NEW o, IsOptions(o)
    PROVE  /\ ProcPatchram(o) \in Seq(StepSet) /\ Closed(ProcPatchram(o), o)
           /\ "use_baudrate_for_download" \notin o.flags => NoSpeed(ProcPatchram(o))
<1> DEFINE m == Send("minidriver")
           t == If("no2bytes" \notin o.flags, TwoBytes)
           r == [i \in 1 .. Len(Records) |-> Send(Records[i])[1]]
           d == If("use_baudrate_for_download" \in o.flags, SetSpeed(Default))
           a == m \o t
           b == r \o d
<1>1. /\ m \in Seq(StepSet) /\ t \in Seq(StepSet) /\ d \in Seq(StepSet)
      /\ ProcReset \in Seq(StepSet)
  <2>1. m \in Seq(StepSet) /\ ProcReset \in Seq(StepSet) /\ TwoBytes \in Seq(StepSet)
    BY DEF Send, StepSet, Commands, ProcReset, TwoBytes
  <2>2. SetSpeed(Default) \in Seq(StepSet)
    BY RatesAre DEF SetSpeed, StepSet
  <2> QED
    BY <2>1, <2>2, EmptySeq DEF If
<1>2. /\ r \in Seq(StepSet) /\ Len(r) = Len(Records) /\ Len(r) \in Nat \ {0}
      /\ \A i \in 1 .. Len(r) : r[i].do = "send" /\ r[i].command = Records[i]
  <2>1. Len(Records) \in Nat \ {0} /\ \A i \in 1 .. Len(Records) : Records[i] \in Commands
    BY PatchramAssumption DEF Commands
  <2>2. \A i \in 1 .. Len(Records) : r[i] = [do |-> "send", command |-> Records[i]]
    BY DEF Send
  <2>3. \A i \in 1 .. Len(Records) : Send(Records[i])[1] \in StepSet
    BY <2>1 DEF Send, StepSet
  <2>4. r \in Seq(StepSet) /\ Len(r) = Len(Records)
    BY <2>1, <2>3
  <2>5. ASSUME NEW i \in 1 .. Len(Records)
        PROVE  r[i].do = "send" /\ r[i].command = Records[i]
    <3>1. r[i] = [do |-> "send", command |-> Records[i]]
      BY <2>2
    <3> HIDE DEF r
    <3> QED
      BY <3>1
  <2> HIDE DEF r
  <2> QED
    BY <2>1, <2>4, <2>5
<1> HIDE DEF r
<1>3. ProcPatchram(o) = (a \o b) \o ProcReset
  <2>1. a \in Seq(StepSet)
    BY <1>1, ConcatProperties
  <2>2. ProcPatchram(o) = ((a \o r) \o d) \o ProcReset
    BY DEF ProcPatchram, r
  <2> HIDE DEF a, d
  <2>3. (a \o r) \o d = a \o b
    BY <1>1, <1>2, <2>1, ConcatAssociative
  <2> QED
    BY <2>2, <2>3
<1>4. Closed(ProcReset, o) /\ NoSpeed(ProcReset)
  <2>1. "reset" \in Commands \ {"baud", "minidriver", "launch_ram"}
    BY DEF Commands
  <2> QED
    BY <2>1, SendPart DEF ProcReset
<1>5. a \in Seq(StepSet) /\ Closed(a, o) /\ NoSpeed(a)
  <2>1. CASE "no2bytes" \in o.flags
    <3>1. a = m
      BY <1>1, <2>1, ConcatEmptySeq DEF If
    <3>2. Len(m) = 1 /\ m[1].do = "send" /\ m[1].command = "minidriver"
      BY DEF Send
    <3> HIDE DEF m
    <3>3. \A i \in 1 .. Len(m) : i = 1
      BY <3>2
    <3>4. Len(m) - 1 = 0
      BY <3>2
    <3>5. Closed(m, o) /\ NoSpeed(m)
      BY <2>1, <3>2, <3>3, <3>4 DEF Closed, Followed, SendAt, NoSpeed
    <3> QED
      BY <1>1, <3>1, <3>5
  <2>2. CASE "no2bytes" \notin o.flags
    <3> DEFINE x == [do |-> "send", command |-> "minidriver"]
               y == [do |-> "two"]
    <3>1. a = <<x>> \o <<y>>
      BY <2>2 DEF If, Send, TwoBytes
    <3>2. x \in StepSet /\ y \in StepSet /\ x.do = "send" /\ x.command = "minidriver"
          /\ y.do = "two"
      BY DEF StepSet, Commands
    <3> HIDE DEF x, y, a
    <3>3. /\ a \in Seq(StepSet) /\ Len(a) = 2
          /\ a[1].do = "send" /\ a[1].command = "minidriver" /\ a[2].do = "two"
      BY <3>1, <3>2, TwoSteps
    <3>4. (\A i \in 1 .. Len(a) : i = 1 \/ i = 2) /\ (\A i \in 1 .. (Len(a) - 1) : i = 1)
      BY <3>3
    <3>5. Followed(a, 1, o) /\ Followed(a, 2, o) /\ Follows(a, 1, o)
      BY <2>2, <3>3 DEF Followed, Follows, SendAt, SpeedAt
    <3> QED
      BY <3>3, <3>4, <3>5 DEF Closed, NoSpeed
  <2> QED
    BY <2>1, <2>2
<1>6. /\ b \in Seq(StepSet) /\ Closed(b, o)
      /\ "use_baudrate_for_download" \notin o.flags => NoSpeed(b)
  <2> DEFINE n == Len(r)
  <2>0. n \in Nat /\ n >= 1
    BY <1>2
  <2>1. \A i \in 1 .. n : Records[i] \in {"write_ram", "launch_ram"}
                          /\ (Records[i] = "launch_ram" <=> i = n)
    BY <1>2, PatchramAssumption
  <2>2. CASE "use_baudrate_for_download" \notin o.flags
    <3>1. b = r
      BY <1>2, <2>2, ConcatEmptySeq DEF If
    <3>2. \A i \in 1 .. Len(r) : Followed(r, i, o)
      BY <1>2, <2>1, <2>2 DEF Followed, SendAt
    <3>3. \A i \in 1 .. (Len(r) - 1) : i + 1 \in 1 .. Len(r) /\ 1 \in 1 .. Len(r)
      BY <2>0
    <3>4. \A i \in 1 .. (Len(r) - 1) : Follows(r, i, o)
      BY <1>2, <3>3 DEF Follows
    <3>5. Closed(r, o) /\ NoSpeed(r)
      BY <1>2, <2>0, <3>2, <3>4 DEF Closed, NoSpeed
    <3> QED
      BY <1>2, <3>1, <3>5
  <2>3. CASE "use_baudrate_for_download" \in o.flags
    <3>1. d = <<[do |-> "speed", rate |-> Default]>>
      BY <2>3 DEF If, SetSpeed
    <3>2. /\ b \in Seq(StepSet) /\ Len(b) = n + 1
          /\ \A i \in 1 .. n : b[i] = r[i]
          /\ b[n + 1].do = "speed" /\ b[n + 1].rate = Default
      <4>1. Len(d) = 1 /\ d[1].do = "speed" /\ d[1].rate = Default
        BY <3>1
      <4> HIDE DEF d
      <4>2. /\ b \in Seq(StepSet) /\ Len(b) = n + Len(d)
            /\ \A i \in 1 .. (n + Len(d)) : b[i] = IF i <= n THEN r[i] ELSE d[i - n]
        BY <1>1, <1>2, ConcatProperties
      <4> HIDE DEF b, n
      <4>3. \A i \in 1 .. n : i \in 1 .. (n + Len(d)) /\ i <= n
        BY <2>0, <4>1
      <4>4. n + 1 \in 1 .. (n + Len(d)) /\ ~(n + 1 <= n) /\ (n + 1) - n = 1
        BY <2>0, <4>1
      <4> QED
        BY <4>1, <4>2, <4>3, <4>4
    <3> HIDE DEF b
    <3>3. \A i \in 1 .. n : b[i].do = "send" /\ b[i].command = Records[i]
      BY <1>2, <3>2
    <3> HIDE DEF n
    <3>4. \A i \in 1 .. Len(b) : i \in 1 .. n \/ i = n + 1
      BY <2>0, <3>2
    <3>5. ASSUME NEW i \in 1 .. n PROVE Followed(b, i, o)
      BY <2>0, <2>1, <3>2, <3>3 DEF Followed, SendAt, SpeedAt
    <3>6. Followed(b, n + 1, o)
      BY <3>2 DEF Followed, SendAt
    <3>7. ASSUME NEW i \in 1 .. n PROVE Follows(b, i, o)
      <4>1. CASE i = n
        BY <2>1, <3>2, <3>3, <4>1 DEF Follows, SpeedAfter, SendAt
      <4>2. CASE i # n
        <5>1. i + 1 \in 1 .. n
          BY <2>0, <4>2
        <5> QED
          BY <3>3, <5>1 DEF Follows
      <4> QED
        BY <4>1, <4>2
    <3>8. \A i \in 1 .. (Len(b) - 1) : i \in 1 .. n
      BY <2>0, <3>2
    <3>9. 1 \in 1 .. n
      BY <2>0
    <3> QED
      BY <2>3, <3>2, <3>3, <3>4, <3>5, <3>6, <3>7, <3>8, <3>9 DEF Closed
  <2> QED
    BY <2>2, <2>3
<1> HIDE DEF a, b
<1> DEFINE c == a \o b
<1>7. c \in Seq(StepSet) /\ Closed(c, o)
      /\ ("use_baudrate_for_download" \notin o.flags => NoSpeed(c))
  BY <1>5, <1>6, ClosedConcat, NoneConcat
<1>8. ProcPatchram(o) = c \o ProcReset
  BY <1>3
<1> HIDE DEF c
<1>9. ProcPatchram(o) \in Seq(StepSet) /\ Closed(ProcPatchram(o), o)
  BY <1>1, <1>4, <1>7, <1>8, ClosedConcat
<1> QED
  BY <1>1, <1>4, <1>7, <1>8, <1>9, NoneConcat

\* The whole program.
LEMMA StepsPaired ==
    ASSUME NEW o, IsOptions(o)
    PROVE  /\ Steps(o) \in Seq(StepSet) /\ Paired(Steps(o), o)
           /\ Steps(o) # <<>> => Steps(o)[1].do = "send"
<1> DEFINE s1 == If("use_baudrate_for_download" \in o.flags /\ o.rate # 0, ProcBaudrate(o))
           s2 == If(o.file, ProcPatchram(o))
           s3 == If(o.rate # 0, ProcBaudrate(o))
           s4 == If("bd_addr" \in o.flags, ProcBdaddr)
           s5 == If("enable_lpm" \in o.flags, ProcEnableLpm)
           s6 == If("scopcm" \in o.flags, ProcScopcm)
           s7 == If("i2s" \in o.flags, ProcI2s)
           Part(s) == s \in Seq(StepSet) /\ Closed(s, o)
<1>0. \A c \in {"reset", "bd_addr", "sleep_mode", "i2spcm", "sco_pcm_int", "pcm_data_format"} :
        Part(Send(c)) /\ NoSpeed(Send(c)) /\ NoLaunch(Send(c))
  <2>1. \A c \in {"reset", "bd_addr", "sleep_mode", "i2spcm", "sco_pcm_int", "pcm_data_format"} :
          c \in Commands \ {"baud", "minidriver", "launch_ram"}
    BY DEF Commands
  <2> QED
    BY <2>1, SendPart
<1>1. Part(ProcReset) /\ NoSpeed(ProcReset) /\ NoLaunch(ProcReset)
  BY <1>0 DEF ProcReset
<1>2. Part(s1) /\ NoLaunch(s1) /\ ("use_baudrate_for_download" \notin o.flags => NoSpeed(s1))
  BY BaudratePart, NoPart DEF If
<1>3. Part(s2) /\ ("use_baudrate_for_download" \notin o.flags => NoSpeed(s2))
  BY PatchramPart, NoPart DEF If
<1>4. Part(s3) /\ NoLaunch(s3)
  BY BaudratePart, NoPart DEF If
<1>5. Part(s4) /\ NoLaunch(s4)
  BY <1>0, NoPart DEF If, ProcBdaddr
<1>6. Part(s5) /\ NoLaunch(s5)
  BY <1>0, NoPart DEF If, ProcEnableLpm
<1>7. Part(s6) /\ NoLaunch(s6)
  <2>1. Part(ProcScopcm) /\ NoLaunch(ProcScopcm)
    BY <1>0, ClosedConcat, NoneConcat DEF ProcScopcm
  <2> QED
    BY <2>1, NoPart DEF If
<1>8. Part(s7) /\ NoLaunch(s7)
  BY <1>0, NoPart DEF If, ProcI2s
<1>9. Steps(o) = ((((((ProcReset \o s1) \o s2) \o s3) \o s4) \o s5) \o s6) \o s7
  BY DEF Steps
<1> HIDE DEF s1, s2, s3, s4, s5, s6, s7
<1>10. Part(ProcReset \o s1) /\ ("use_baudrate_for_download" \notin o.flags => NoSpeed(ProcReset \o s1))
  BY <1>1, <1>2, ClosedConcat, NoneConcat
<1> DEFINE p2 == (ProcReset \o s1) \o s2
<1>11. Part(p2) /\ ("use_baudrate_for_download" \notin o.flags => NoSpeed(p2))
  BY <1>10, <1>3, ClosedConcat, NoneConcat
<1>12. LaunchFirst(p2, o)
  <2> HIDE DEF p2
  <2> SUFFICES ASSUME "use_baudrate_for_download" \notin o.flags, NEW i \in 1 .. Len(p2),
                      NEW j \in 1 .. i
               PROVE  p2[j].do # "speed"
    BY DEF LaunchFirst
  <2>1. Len(p2) \in Nat
    BY <1>11
  <2>2. j \in 1 .. Len(p2)
    BY <2>1
  <2> QED
    BY <1>11, <2>2 DEF NoSpeed
<1> HIDE DEF p2
<1> DEFINE p3 == p2 \o s3
<1>13. Part(p3) /\ LaunchFirst(p3, o)
  BY <1>4, <1>11, <1>12, ClosedConcat, NoneConcat
<1> HIDE DEF p3
<1> DEFINE p4 == p3 \o s4
<1>14. Part(p4) /\ LaunchFirst(p4, o)
  BY <1>5, <1>13, ClosedConcat, NoneConcat
<1> HIDE DEF p4
<1> DEFINE p5 == p4 \o s5
<1>15. Part(p5) /\ LaunchFirst(p5, o)
  BY <1>6, <1>14, ClosedConcat, NoneConcat
<1> HIDE DEF p5
<1> DEFINE p6 == p5 \o s6
<1>16. Part(p6) /\ LaunchFirst(p6, o)
  BY <1>7, <1>15, ClosedConcat, NoneConcat
<1> HIDE DEF p6
<1>17. Part(p6 \o s7) /\ LaunchFirst(p6 \o s7, o)
  BY <1>8, <1>16, ClosedConcat, NoneConcat
<1>18. Steps(o) = p6 \o s7
  BY <1>9 DEF p2, p3, p4, p5, p6
<1> QED
  BY <1>17, <1>18 DEF Closed, Paired

\* What is left after a step.
LEMMA PairedTail ==
    ASSUME NEW o, NEW s \in Seq(StepSet), s # <<>>, Paired(s, o)
    PROVE  /\ Tail(s) \in Seq(StepSet) /\ Paired(Tail(s), o)
           /\ Tail(s) # <<>> => Len(s) > 1 /\ Head(Tail(s)) = s[2]
           /\ Head(s) = s[1] /\ Len(s) \in Nat /\ 1 \in 1 .. Len(s)
           /\ Len(s) > 1 => Tail(s) # <<>>
           /\ \A i \in 1 .. Len(Tail(s)) : i + 1 \in 1 .. Len(s) /\ Tail(s)[i] = s[i + 1]
<1> DEFINE t == Tail(s)
<1>1. /\ t \in Seq(StepSet) /\ Len(t) = Len(s) - 1 /\ Len(s) \in Nat /\ Len(s) >= 1
      /\ \A i \in 1 .. Len(t) : t[i] = s[i + 1]
      /\ Head(s) = s[1]
  OBVIOUS
<1> HIDE DEF t
<1>2. \A i \in 1 .. Len(t) : i + 1 \in 1 .. Len(s)
  BY <1>1
<1>3. ASSUME NEW i \in 1 .. Len(t) PROVE Followed(t, i, o)
  <2>1. Followed(s, i + 1, o) /\ t[i] = s[i + 1]
    BY <1>1, <1>2 DEF Paired
  <2>2. i + 1 < Len(s) => i < Len(t) /\ i + 1 \in 1 .. Len(t) /\ t[i + 1] = s[(i + 1) + 1]
    BY <1>1
  <2> QED
    BY <2>1, <2>2 DEF Followed, SendAt, SpeedAt
<1>4. ASSUME NEW i \in 1 .. (Len(t) - 1) PROVE Follows(t, i, o)
  <2>1. i \in 1 .. Len(t) /\ i + 1 \in 1 .. Len(t) /\ i + 1 \in 1 .. (Len(s) - 1)
    BY <1>1
  <2>2. Follows(s, i + 1, o) /\ t[i] = s[i + 1] /\ t[i + 1] = s[(i + 1) + 1]
    BY <1>1, <2>1 DEF Paired
  <2> QED
    BY <2>2 DEF Follows, SpeedAfter, SendAt
<1>5. LaunchFirst(t, o)
  <2> SUFFICES ASSUME "use_baudrate_for_download" \notin o.flags, NEW i \in 1 .. Len(t),
                      SendAt(t, i, "launch_ram"), NEW j \in 1 .. i
               PROVE  t[j].do # "speed"
    BY DEF LaunchFirst
  <2>1. SendAt(s, i + 1, "launch_ram") /\ i + 1 \in 1 .. Len(s)
    BY <1>1, <1>2 DEF SendAt
  <2>2. j \in 1 .. Len(t) /\ j + 1 \in 1 .. (i + 1) /\ t[j] = s[j + 1]
    BY <1>1
  <2> QED
    BY <2>1, <2>2 DEF Paired, LaunchFirst
<1>6. t # <<>> => Len(s) > 1 /\ Head(t) = s[2]
  <2> SUFFICES ASSUME t # <<>> PROVE Len(s) > 1 /\ Head(t) = s[2]
    OBVIOUS
  <2>1. Len(t) >= 1 /\ Head(t) = t[1]
    BY <1>1
  <2> QED
    BY <1>1, <2>1
<1>7. Len(s) > 1 => t # <<>>
  BY <1>1
<1> QED
  BY <1>1, <1>2, <1>3, <1>4, <1>5, <1>6, <1>7 DEF Paired, t

----------------------------------------------------------------------------
\* Types

Types ==
    /\ pc \in {"parse", "go", "answer", "rest", "two", "exit", "serve"}
    /\ code \in 0 .. 5 /\ (pc # "exit" => code = 0)
    /\ IsOptions(options) /\ steps \in Seq(StepSet)
    /\ alarm \in BOOLEAN /\ twice \in BOOLEAN /\ short \in BOOLEAN
    /\ speed \in Rates /\ chip \in [awake : BOOLEAN, speed : Rates]
    /\ wanted \in Byte /\ got \in Seq(Byte) /\ Len(got) <= 3
    /\ line \in Seq(Commands \X Rates) /\ wire \in Seq(Byte \X Rates) /\ queue \in Seq(Byte)

\* Nothing has happened on the line yet.
Quiet ==
    /\ line = <<>> /\ wire = <<>> /\ queue = <<>> /\ steps = <<>>
    /\ speed = Default /\ chip.speed = Default
    /\ ~alarm /\ ~twice /\ ~short

\* Where the program is in its steps.
Control ==
    /\ pc = "parse" => Quiet
    /\ pc \in {"answer", "rest"} => steps # <<>> /\ Head(steps).do = "send"
    /\ pc = "two" => steps # <<>> /\ Head(steps).do = "two"
    /\ alarm => pc \in {"answer", "rest"} /\ Head(steps).command = "reset"
    /\ pc = "answer" => Len(got) + wanted = 3
    /\ \A i \in 1 .. Len(line) : line[i][1] = "baud" => options.rate # 0
    /\ pc # "parse" => Paired(steps, options)

Sane == Types /\ Control

\* A sequence without its first n elements, and these.
LEMMA Cut ==
    ASSUME NEW S, NEW q \in Seq(S), NEW n \in 0 .. Len(q), NEW r, r = SubSeq(q, n + 1, Len(q)),
           NEW f, f = SubSeq(q, 1, n)
    PROVE  /\ r \in Seq(S) /\ Len(r) = Len(q) - n /\ \A i \in 1 .. Len(r) : r[i] = q[n + i]
           /\ f \in Seq(S) /\ Len(f) = n /\ \A i \in 1 .. n : f[i] = q[i]
<1>0. Len(q) \in Nat /\ n \in Nat /\ n <= Len(q)
  OBVIOUS
<1>1. /\ r \in Seq(S) /\ Len(r) = Len(q) - n
      /\ \A i \in 1 .. Len(r) : r[i] = q[n + i]
  <2>1. r \in Seq(S)
    BY <1>0
  <2>2. Len(r) = Len(q) - n
    BY <1>0
  <2>3. ASSUME NEW i \in 1 .. Len(r) PROVE r[i] = q[n + i]
    <3>1. i \in 1 .. (Len(q) - n) /\ i \in 1 .. (Len(q) - (n + 1) + 1)
      BY <1>0, <2>2
    <3>2. r[i] = q[(n + 1) + i - 1] /\ (n + 1) + i - 1 = n + i
      BY <1>0, <3>1
    <3> QED
      BY <3>2
  <2> QED
    BY <2>1, <2>2, <2>3
<1>2. f \in Seq(S) /\ Len(f) = n /\ \A i \in 1 .. n : f[i] = q[i]
  <2>1. f \in Seq(S) /\ Len(f) = n
    BY <1>0
  <2>2. ASSUME NEW i \in 1 .. n PROVE f[i] = q[i]
    BY <1>0
  <2> QED
    BY <2>1, <2>2
<1> QED
  BY <1>1, <1>2

\* The bytes of an answer: the third is four, and after the rest come the two of an
\* older controller.
LEMMA AnswerIs ==
    ASSUME NEW c \in Commands
    PROVE  /\ Answer(c) \in Seq(Byte)
           /\ Len(Answer(c)) = 7 + (IF c = "minidriver" THEN Len(Confirmation) ELSE 0)
           /\ Answer(c)[3] = 4
<1> DEFINE x == Opcode(c)[1]
           y == Opcode(c)[2]
           s == <<4, 14, 4, 1, x, y, 0>>
           t == If(c = "minidriver", Confirmation)
<1>1. x \in Byte /\ y \in Byte
  <2>1. Opcode(c) \in Byte \X Byte
    <3>1. c = "reset" => Opcode(c) = <<3, 12>> /\ 3 \in Byte /\ 12 \in Byte
      BY DEF Opcode, Byte
    <3>2. c = "minidriver" => Opcode(c) = <<46, 252>> /\ 46 \in Byte /\ 252 \in Byte
      BY DEF Opcode, Byte
    <3>3. c = "baud" => Opcode(c) = <<24, 252>> /\ 24 \in Byte /\ 252 \in Byte
      BY DEF Opcode, Byte
    <3>4. c = "clock" => Opcode(c) = <<69, 252>> /\ 69 \in Byte /\ 252 \in Byte
      BY DEF Opcode, Byte
    <3>5. c = "bd_addr" => Opcode(c) = <<1, 252>> /\ 1 \in Byte /\ 252 \in Byte
      BY DEF Opcode, Byte
    <3>6. c = "sleep_mode" => Opcode(c) = <<39, 252>> /\ 39 \in Byte /\ 252 \in Byte
      BY DEF Opcode, Byte
    <3>7. c = "sco_pcm_int" => Opcode(c) = <<28, 252>> /\ 28 \in Byte /\ 252 \in Byte
      BY DEF Opcode, Byte
    <3>8. c = "pcm_data_format" => Opcode(c) = <<30, 252>> /\ 30 \in Byte /\ 252 \in Byte
      BY DEF Opcode, Byte
    <3>9. c = "i2spcm" => Opcode(c) = <<109, 252>> /\ 109 \in Byte /\ 252 \in Byte
      BY DEF Opcode, Byte
    <3>10. c = "write_ram" => Opcode(c) = <<76, 252>> /\ 76 \in Byte /\ 252 \in Byte
      BY DEF Opcode, Byte
    <3>11. c = "launch_ram" => Opcode(c) = <<78, 252>> /\ 78 \in Byte /\ 252 \in Byte
      BY DEF Opcode, Byte
    <3> QED
      BY <3>1, <3>2, <3>3, <3>4, <3>5, <3>6, <3>7, <3>8, <3>9, <3>10, <3>11 DEF Commands
  <2> QED
    BY <2>1
<1> HIDE DEF x, y
<1>2. s \in Seq(Byte) /\ Len(s) = 7 /\ s[3] = 4
  BY <1>1 DEF Byte
<1>3. t \in Seq(Byte) /\ Len(t) = (IF c = "minidriver" THEN Len(Confirmation) ELSE 0)
      /\ Len(t) \in Nat
  <2>1. Confirmation \in Seq(Byte) /\ Len(Confirmation) \in Nat
    BY PatchramAssumption DEF Byte
  <2>2. <<>> \in Seq(Byte) /\ Len(<<>>) = 0
    OBVIOUS
  <2> QED
    BY <2>1, <2>2 DEF If
<1>4. Answer(c) = s \o t
  BY DEF Answer, x, y
<1> HIDE DEF s, t
<1>5. /\ s \o t \in Seq(Byte) /\ Len(s \o t) = 7 + Len(t)
      /\ \A i \in 1 .. (7 + Len(t)) : (s \o t)[i] = IF i <= 7 THEN s[i] ELSE t[i - 7]
  <2>1. /\ s \o t \in Seq(Byte) /\ Len(s \o t) = Len(s) + Len(t)
        /\ \A i \in 1 .. (Len(s) + Len(t)) : (s \o t)[i] = IF i <= Len(s) THEN s[i] ELSE t[i - Len(s)]
    BY <1>2, <1>3, ConcatProperties
  <2> QED
    BY <1>2, <2>1
<1>6. 3 \in 1 .. (7 + Len(t)) /\ 3 <= 7
  BY <1>3
<1>7. (s \o t)[3] = 4
  BY <1>2, <1>5, <1>6
<1> QED
  BY <1>3, <1>4, <1>5, <1>7

\* They leave at one speed.
LEMMA BytesAre ==
    ASSUME NEW s \in Seq(Byte), NEW rate \in Rates
    PROVE  /\ Bytes(s, rate) \in Seq(Byte \X Rates) /\ Len(Bytes(s, rate)) = Len(s)
           /\ \A i \in 1 .. Len(s) : Bytes(s, rate)[i] = <<s[i], rate>>
<1>1. Len(s) \in Nat /\ \A i \in 1 .. Len(s) : s[i] \in Byte
  OBVIOUS
<1>2. \A i \in 1 .. Len(s) : <<s[i], rate>> \in Byte \X Rates
  BY <1>1
<1> QED
  BY <1>1, <1>2 DEF Bytes

----------------------------------------------------------------------------
\* The steps keep the types

\* At the start nothing has happened.
LEMMA InitSane ==
    ASSUME Init
    PROVE  Sane
<1>1. Types
  <2>1. IsOptions(options)
    BY DEF Init, IsOptions
  <2>2. speed \in Rates /\ chip \in [awake : BOOLEAN, speed : Rates]
    BY RatesAre DEF Init
  <2>3. /\ pc = "parse" /\ code = 0 /\ steps = <<>> /\ alarm = FALSE
        /\ wanted = 0 /\ got = <<>> /\ line = <<>> /\ wire = <<>> /\ queue = <<>>
        /\ twice = FALSE /\ short = FALSE
    BY DEF Init
  <2>4. /\ <<>> \in Seq(StepSet) /\ <<>> \in Seq(Byte) /\ Len(<<>>) <= 3
        /\ <<>> \in Seq(Commands \X Rates) /\ <<>> \in Seq(Byte \X Rates)
    OBVIOUS
  <2>5. 0 \in Byte /\ 0 \in 0 .. 5
    BY DEF Byte
  <2> QED
    BY <2>1, <2>2, <2>3, <2>4, <2>5 DEF Types
<1>2. Quiet
  BY DEF Init, Quiet
<1>3. pc = "parse" /\ alarm = FALSE /\ line = <<>>
  BY DEF Init
<1>4. Control
  BY <1>2, <1>3 DEF Control
<1> QED
  BY <1>1, <1>4 DEF Sane

\* Parsing changes the options, or ends the program.
LEMMA ParseKeepsSane ==
    ASSUME Sane, ParseOption
    PROVE  Sane' /\ pc' \in {"parse", "exit"}
<1>1. /\ pc = "parse" /\ Types /\ Quiet
      /\ UNCHANGED <<steps, alarm, wanted, got, speed, line, wire, queue, chip, twice, short>>
  BY DEF Sane, Control, ParseOption, history
<1> DEFINE Parsed == /\ IsOptions(options') /\ pc' \in {"parse", "exit"}
                     /\ code' \in 0 .. 5 /\ (pc' # "exit" => code' = 0)
<1>2. Parsed
  <2>0. IsOptions(options) /\ code = 0 /\ pc = "parse"
    BY <1>1 DEF Types
  <2>1. ASSUME NEW flag, options' = [options EXCEPT !.flags = @ \cup {flag}]
        PROVE  IsOptions(options')
    BY <2>0, <2>1 DEF IsOptions
  <2>2. ASSUME NEW n \in 1 .. 5, Exit(n)
        PROVE  pc' = "exit" /\ code' \in 0 .. 5
    BY <2>2 DEF Exit
  <2>3. ASSUME NEW a, ParsePatchram(a)
        PROVE  Parsed
    <3>1. CASE a \in Files
      <4>1. options' = [options EXCEPT !.file = TRUE] /\ UNCHANGED <<pc, code>>
        BY <2>3, <3>1 DEF ParsePatchram
      <4>2. IsOptions(options')
        BY <2>0, <4>1 DEF IsOptions
      <4> QED
        BY <2>0, <4>1, <4>2
    <3>2. CASE a \notin Files
      <4>1. UNCHANGED options /\ \E n \in 3 .. 5 : Exit(n)
        BY <2>3, <3>2 DEF ParsePatchram
      <4>2. IsOptions(options')
        BY <2>0, <4>1 DEF IsOptions
      <4> QED
        BY <2>2, <4>1, <4>2
    <3> QED
      BY <3>1, <3>2
  <2>4. ASSUME NEW a, ParseBaudrate(a)
        PROVE  Parsed
    <3>1. CASE a \in Rates
      <4>1. options' = [options EXCEPT !.rate = a] /\ UNCHANGED <<pc, code>>
        BY <2>4, <3>1 DEF ParseBaudrate
      <4>2. IsOptions(options')
        BY <2>0, <3>1, <4>1 DEF IsOptions
      <4> QED
        BY <2>0, <4>1, <4>2
    <3>2. CASE a \notin Rates
      <4>1. UNCHANGED options /\ Exit(1)
        BY <2>4, <3>2 DEF ParseBaudrate
      <4>2. IsOptions(options')
        BY <2>0, <4>1 DEF IsOptions
      <4> QED
        BY <2>2, <4>1, <4>2
    <3> QED
      BY <3>1, <3>2
  <2>5. ASSUME NEW flag, NEW ok, ParseNumbers(flag, ok)
        PROVE  Parsed
    <3>1. CASE ok
      <4>1. options' = [options EXCEPT !.flags = @ \cup {flag}] /\ UNCHANGED <<pc, code>>
        BY <2>5, <3>1 DEF ParseNumbers
      <4>2. IsOptions(options')
        BY <2>0, <4>1 DEF IsOptions
      <4> QED
        BY <2>0, <4>1, <4>2
    <3>2. CASE ~ok
      <4>1. UNCHANGED options /\ Exit(1)
        BY <2>5, <3>2 DEF ParseNumbers
      <4>2. IsOptions(options')
        BY <2>0, <4>1 DEF IsOptions
      <4> QED
        BY <2>2, <4>1, <4>2
    <3> QED
      BY <3>1, <3>2
  <2>6. ASSUME NEW flag, ParseFlag(flag)
        PROVE  Parsed
    BY <2>0, <2>1, <2>6 DEF ParseFlag
  <2>7. ASSUME NEW a, options' = [options EXCEPT !.port = a], UNCHANGED <<pc, code>>
        PROVE  Parsed
    <3>1. IsOptions(options')
      BY <2>0, <2>7 DEF IsOptions
    <3> QED
      BY <2>0, <2>7, <3>1
  <2> DEFINE o == Head(args)
  <2>8. \/ ParsePatchram(o.arg) \/ ParseBaudrate(o.arg) \/ ParseNumbers(o.option, o.arg)
        \/ options' = [options EXCEPT !.port = o.arg] /\ UNCHANGED <<pc, code>>
        \/ ParseFlag(o.option)
    BY DEF ParseOption
  <2> HIDE DEF o
  <2> QED
    BY <2>3, <2>4, <2>5, <2>6, <2>7, <2>8
<1>3. Types'
  BY <1>1, <1>2 DEF Types
<1>4. Quiet'
  BY <1>1 DEF Quiet
<1>5. Paired(<<>>, options)'
  BY DEF Paired, LaunchFirst
<1>6. Control'
  BY <1>1, <1>2, <1>4, <1>5 DEF Control, Quiet
<1> QED
  BY <1>2, <1>3, <1>6 DEF Sane

\* The steps that the options ask for.
LEMMA InitUartKeepsSane ==
    ASSUME Sane, InitUart
    PROVE  Sane' /\ (pc' = "go" /\ steps' # <<>> => steps'[1].do = "send")
<1>1. /\ pc = "parse" /\ Types /\ Quiet
      /\ UNCHANGED <<options, alarm, wanted, got, line, wire, chip, twice, short>>
      /\ queue' = <<>>
  BY DEF Sane, Control, InitUart, history
<1>2. IsOptions(options) /\ IsOptions(options') /\ <<>> \in Seq(Byte)
  BY <1>1 DEF Types, IsOptions
<1>3. CASE options.port
  <2>1. pc' = "go" /\ steps' = Steps(options) /\ speed' = Default /\ UNCHANGED code
    BY <1>3 DEF InitUart
  <2>2. Steps(options) \in Seq(StepSet) /\ Paired(Steps(options), options)
        /\ (Steps(options) # <<>> => Steps(options)[1].do = "send")
    BY <1>2, StepsPaired
  <2>3. Types'
    BY <1>1, <1>2, <2>1, <2>2, RatesAre DEF Types
  <2>4. Paired(steps, options)'
    BY <1>1, <2>1, <2>2
  <2>5. Control'
    BY <1>1, <2>1, <2>4 DEF Control, Quiet
  <2> QED
    BY <2>1, <2>2, <2>3, <2>5 DEF Sane
<1>4. CASE ~options.port
  <2>1. pc' = "exit" /\ code' = 2 /\ UNCHANGED <<steps, speed>>
    BY <1>4 DEF InitUart, Exit
  <2>2. Types'
    BY <1>1, <1>2, <2>1 DEF Types
  <2>3. Paired(<<>>, options)'
    BY DEF Paired, LaunchFirst
  <2>4. Control'
    BY <1>1, <2>1, <2>3 DEF Control, Quiet
  <2> QED
    BY <2>1, <2>2, <2>4 DEF Sane
<1> QED
  BY <1>3, <1>4

\* What is there as long as the program has steps.
LEMMA StepsLeft ==
    ASSUME Sane, pc # "parse", steps # <<>>
    PROVE  /\ steps \in Seq(StepSet) /\ Paired(steps, options)
           /\ Tail(steps) \in Seq(StepSet) /\ Paired(Tail(steps), options)
           /\ Head(steps) \in StepSet /\ Head(steps) = steps[1]
           /\ Len(steps) \in Nat /\ 1 \in 1 .. Len(steps)
           /\ Followed(steps, 1, options)
<1>1. steps \in Seq(StepSet) /\ Paired(steps, options)
  BY DEF Sane, Types, Control
<1>2. /\ Tail(steps) \in Seq(StepSet) /\ Paired(Tail(steps), options)
      /\ Head(steps) = steps[1] /\ Len(steps) \in Nat /\ 1 \in 1 .. Len(steps)
  BY <1>1, PairedTail
<1>3. Head(steps) \in StepSet
  BY <1>1
<1> QED
  BY <1>1, <1>2, <1>3 DEF Paired

\* The fields of a step.
LEMMA StepIs ==
    ASSUME NEW s \in StepSet
    PROVE  /\ s.do = "send" => s.command \in Commands /\ s = [do |-> "send", command |-> s.command]
           /\ s.do = "speed" => s.rate \in Rates
           /\ s.do \in {"send", "two", "speed"}
<1>1. CASE s \in [do : {"send"}, command : Commands]
  BY <1>1
<1>2. CASE s \in [do : {"two"}]
  BY <1>2
<1>3. CASE s \in [do : {"speed"}, rate : Rates]
  BY <1>3
<1> QED
  BY <1>1, <1>2, <1>3 DEF StepSet

\* A command on the line is one of the commands, and only a program that was given a
\* rate sends "baud".
LEMMA SendKeepsSane ==
    ASSUME Sane, HciSendCmd
    PROVE  Sane'
<1> DEFINE h == Head(steps)
           m == <<h.command, speed>>
<1>1. /\ pc = "go" /\ steps # <<>> /\ h.do = "send" /\ Types
      /\ line' = Append(line, m) /\ alarm' = (h.command = "reset")
      /\ pc' = "answer" /\ wanted' = 3 /\ got' = <<>>
      /\ UNCHANGED <<options, code, steps, speed, wire, queue, chip, twice, short>>
  BY DEF Sane, HciSendCmd, Doing, history
<1>2. Paired(steps, options) /\ h \in StepSet /\ h = steps[1] /\ Followed(steps, 1, options)
  BY <1>1, StepsLeft
<1>3. h.command \in Commands /\ (h.command = "baud" => options.rate # 0)
  BY <1>1, <1>2, StepIs DEF Followed, SendAt
<1> HIDE DEF h
<1>4. m \in Commands \X Rates /\ m[1] = h.command
  BY <1>1, <1>3 DEF Types
<1> HIDE DEF m
<1>5. /\ line \in Seq(Commands \X Rates) /\ line' \in Seq(Commands \X Rates)
      /\ Len(line') = Len(line) + 1 /\ Len(line) \in Nat
      /\ \A i \in 1 .. Len(line) : line'[i] = line[i]
      /\ line'[Len(line) + 1] = m
  BY <1>1, <1>4 DEF Types
<1>6. \A i \in 1 .. Len(line') : line'[i][1] = "baud" => options'.rate # 0
  <2> SUFFICES ASSUME NEW i \in 1 .. Len(line'), line'[i][1] = "baud" PROVE options.rate # 0
    BY <1>1
  <2>1. CASE i = Len(line) + 1
    BY <1>3, <1>4, <1>5, <2>1
  <2>2. CASE i # Len(line) + 1
    <3>1. i \in 1 .. Len(line)
      BY <1>5, <2>2
    <3> QED
      BY <1>5, <3>1 DEF Sane, Control
  <2> QED
    BY <2>1, <2>2
<1>7. IsOptions(options') /\ alarm' \in BOOLEAN /\ 3 \in Byte /\ <<>> \in Seq(Byte)
      /\ Len(<<>>) = 0
  BY <1>1 DEF Types, Byte
<1>8. Types'
  BY <1>1, <1>5, <1>7 DEF Types
<1>9. Paired(steps, options)'
  BY <1>1, <1>2
<1>10. Control'
  <2>1. alarm' => h.command = "reset"
    BY <1>1
  <2>2. Head(steps') = h /\ steps' # <<>>
    BY <1>1 DEF h
  <2>3. Len(got') + wanted' = 3
    BY <1>1, <1>7
  <2> QED
    BY <1>1, <1>6, <1>9, <2>1, <2>2, <2>3 DEF Control
<1> QED
  BY <1>8, <1>10 DEF Sane

\* The header has three bytes.
LEMMA ReadKeepsSane ==
    ASSUME Sane, ReadSome
    PROVE  Sane'
<1> DEFINE n == IF Len(queue) < wanted THEN Len(queue) ELSE wanted
           f == SubSeq(queue, 1, n)
           r == SubSeq(queue, n + 1, Len(queue))
<1>1. /\ pc \in {"answer", "rest"} /\ wanted > 0 /\ queue # <<>> /\ Types
      /\ wanted' = wanted - n /\ queue' = r
      /\ got' = IF pc = "answer" THEN got \o f ELSE got
      /\ UNCHANGED <<options, pc, code, steps, alarm, speed, line, wire, chip, twice, short>>
  BY DEF Sane, ReadSome, history
<1>2. /\ queue \in Seq(Byte) /\ got \in Seq(Byte) /\ Len(got) <= 3 /\ Len(got) \in Nat
      /\ wanted \in 0 .. 255 /\ Len(queue) \in Nat
  BY <1>1 DEF Types, Byte
<1>3. n \in 0 .. Len(queue) /\ n <= wanted
  BY <1>2
<1> HIDE DEF n
<1>4. r \in Seq(Byte) /\ f \in Seq(Byte) /\ Len(f) = n
  BY <1>2, <1>3, Cut
<1> HIDE DEF f, r
<1>5. wanted' \in Byte
  BY <1>1, <1>2, <1>3 DEF Byte
<1>6. /\ got' \in Seq(Byte) /\ Len(got') <= 3
      /\ pc = "answer" => Len(got') + wanted' = 3
  <2>1. CASE pc = "answer"
    <3>1. got' \in Seq(Byte) /\ Len(got') = Len(got) + n
      BY <1>1, <1>2, <1>4, <2>1, ConcatProperties
    <3>2. Len(got) + wanted = 3
      BY <2>1 DEF Sane, Control
    <3> QED
      BY <1>1, <1>2, <1>3, <3>1, <3>2
  <2>2. CASE pc # "answer"
    BY <1>1, <1>2, <2>2
  <2> QED
    BY <2>1, <2>2
<1>7. IsOptions(options')
  BY <1>1 DEF Types
<1>8. Types'
  BY <1>1, <1>4, <1>5, <1>6, <1>7 DEF Types
<1>9. Paired(steps, options)'
  BY <1>1 DEF Sane, Control
<1>10. Control'
  BY <1>1, <1>6, <1>9 DEF Control, Sane
<1> QED
  BY <1>8, <1>10 DEF Sane

\* Its last byte is a number of bytes.
LEMMA RestKeepsSane ==
    ASSUME Sane, ReadEventRest
    PROVE  Sane'
<1>1. /\ pc = "answer" /\ wanted = 0 /\ Types /\ pc' = "rest" /\ wanted' = got[3]
      /\ UNCHANGED <<options, code, steps, alarm, got, speed, line, wire, queue, chip, twice, short>>
  BY DEF Sane, ReadEventRest, history
<1>2. got[3] \in Byte
  <2>1. got \in Seq(Byte) /\ Len(got) = 3
    <3>1. got \in Seq(Byte) /\ Len(got) \in Nat /\ Len(got) + wanted = 3
      BY <1>1 DEF Sane, Control, Types
    <3> QED
      BY <1>1, <3>1
  <2> QED
    BY <2>1
<1>3. IsOptions(options') /\ Paired(steps, options)'
  BY <1>1 DEF Types, Sane, Control
<1>4. Types'
  BY <1>1, <1>2, <1>3 DEF Types
<1>5. Control'
  BY <1>1, <1>3 DEF Control, Sane
<1> QED
  BY <1>4, <1>5 DEF Sane

\* The next step.
LEMMA EndKeepsSane ==
    ASSUME Sane, ReadEventEnd
    PROVE  Sane'
<1>1. /\ pc = "rest" /\ Types /\ pc' = "go" /\ steps' = Tail(steps) /\ alarm' = FALSE /\ got' = <<>>
      /\ UNCHANGED <<options, code, wanted, speed, line, wire, queue, chip, twice, short>>
      /\ steps # <<>>
  BY DEF Sane, Control, ReadEventEnd, history
<1>2. Tail(steps) \in Seq(StepSet) /\ Paired(Tail(steps), options)
  BY <1>1, StepsLeft
<1>3. /\ IsOptions(options') /\ Paired(steps, options)' /\ <<>> \in Seq(Byte) /\ Len(<<>>) <= 3
      /\ pc \in {"parse", "go", "answer", "rest", "two", "exit", "serve"}
  BY <1>1, <1>2 DEF Types
<1>4. Types'
  BY <1>1, <1>2, <1>3 DEF Types
<1>5. Control'
  BY <1>1, <1>3 DEF Control, Sane
<1> QED
  BY <1>4, <1>5 DEF Sane

\* The two bytes are waited for.
LEMMA TwoKeepsSane ==
    ASSUME Sane, ReadTwo
    PROVE  Sane'
<1>1. /\ pc = "go" /\ Types /\ pc' = "two" /\ steps # <<>> /\ Head(steps).do = "two"
      /\ UNCHANGED <<options, code, steps, alarm, wanted, got, speed, line, wire, queue, chip, twice, short>>
  BY DEF Sane, Control, ReadTwo, Doing, history
<1>2. IsOptions(options') /\ Paired(steps, options)'
  BY <1>1 DEF Types, Sane, Control
<1>3. Types'
  BY <1>1, <1>2 DEF Types
<1>4. Control'
  BY <1>1, <1>2 DEF Control, Sane
<1> QED
  BY <1>3, <1>4 DEF Sane

\* One read of them, or of one of them.
LEMMA TwoEndKeepsSane ==
    ASSUME Sane, ReadTwoEnd
    PROVE  Sane'
<1> DEFINE n == IF Len(queue) = 1 THEN 1 ELSE 2
           r == SubSeq(queue, n + 1, Len(queue))
<1>1. /\ pc = "two" /\ queue # <<>> /\ Types /\ queue' = r /\ short' = (short \/ n = 1)
      /\ pc' = "go" /\ steps' = Tail(steps) /\ steps # <<>>
      /\ UNCHANGED <<options, code, alarm, wanted, got, speed, line, wire, chip, twice>>
  BY DEF Sane, Control, ReadTwoEnd
<1>2. queue \in Seq(Byte) /\ Len(queue) \in Nat /\ Len(queue) > 0
  BY <1>1 DEF Types
<1>3. n \in 0 .. Len(queue)
  <2>1. PICK k \in Nat : k = Len(queue) /\ k > 0
    BY <1>2
  <2>2. IF k = 1 THEN n = 1 ELSE n = 2
    BY <2>1
  <2> HIDE DEF n, r
  <2>3. n \in 0 .. k
    BY <2>1, <2>2
  <2> QED
    BY <2>1, <2>3
<1>4. r \in Seq(Byte)
  <2> HIDE DEF n
  <2> QED
    BY <1>2, <1>3, Cut
<1>5. short' \in BOOLEAN
  BY <1>1
<1> HIDE DEF r, n
<1>6. Tail(steps) \in Seq(StepSet) /\ Paired(Tail(steps), options)
  BY <1>1, StepsLeft
<1>7. IsOptions(options') /\ Paired(steps, options)'
  BY <1>1, <1>6 DEF Types
<1>8. Types'
  BY <1>1, <1>4, <1>5, <1>6, <1>7 DEF Types
<1>9. Control'
  BY <1>1, <1>7 DEF Control, Sane
<1> QED
  BY <1>8, <1>9 DEF Sane

\* A speed is one of the table.
LEMMA SpeedKeepsSane ==
    ASSUME Sane, TcSetAttr
    PROVE  Sane'
<1>1. /\ pc = "go" /\ Types /\ steps # <<>> /\ Head(steps).do = "speed"
      /\ speed' = Head(steps).rate /\ steps' = Tail(steps)
      /\ UNCHANGED <<options, pc, code, alarm, wanted, got, line, wire, queue, chip, twice, short>>
  BY DEF Sane, TcSetAttr, Doing, history
<1>2. /\ Tail(steps) \in Seq(StepSet) /\ Paired(Tail(steps), options)
      /\ Head(steps) \in StepSet
  BY <1>1, StepsLeft
<1>3. IsOptions(options') /\ Paired(steps, options)' /\ speed' \in Rates
  BY <1>1, <1>2, StepIs DEF Types
<1>4. Types'
  BY <1>1, <1>2, <1>3 DEF Types
<1>5. Control'
  BY <1>1, <1>3 DEF Control, Sane
<1> QED
  BY <1>4, <1>5 DEF Sane

\* Nothing left to do.
LEMMA FinishKeepsSane ==
    ASSUME Sane, Finish
    PROVE  Sane'
<1>1. /\ pc = "go" /\ Types /\ pc' \in {"serve", "exit"}
      /\ UNCHANGED <<options, code, steps, alarm, wanted, got, speed, line, wire, queue, chip, twice, short>>
  BY DEF Sane, Finish, history
<1>2. IsOptions(options') /\ Paired(steps, options)'
  BY <1>1 DEF Types, Sane, Control
<1>3. Types'
  BY <1>1, <1>2 DEF Types
<1>4. Control'
  BY <1>1, <1>2 DEF Control, Sane
<1> QED
  BY <1>3, <1>4 DEF Sane

\* The alarm sends a reset.
LEMMA ExpiredKeepsSane ==
    ASSUME Sane, Expired
    PROVE  Sane'
<1> DEFINE m == <<"reset", speed>>
           b == Pending > 0 \/ got # <<>>
<1>1. /\ alarm /\ pc \in {"answer", "rest"} /\ Types
      /\ line' = Append(line, m) /\ twice' = (twice \/ b)
      /\ UNCHANGED <<options, pc, code, steps, alarm, wanted, got, speed, wire, queue, chip, short>>
  BY DEF Sane, Expired, program
<1>2. m \in Commands \X Rates /\ m[1] = "reset"
  BY <1>1 DEF Types, Commands
<1>3. twice' \in BOOLEAN
  BY <1>1
<1> HIDE DEF m, b
<1>4. /\ line \in Seq(Commands \X Rates) /\ line' \in Seq(Commands \X Rates)
      /\ Len(line') = Len(line) + 1 /\ Len(line) \in Nat
      /\ \A i \in 1 .. Len(line) : line'[i] = line[i]
      /\ line'[Len(line) + 1] = m
  BY <1>1, <1>2 DEF Types
<1>5. \A i \in 1 .. Len(line') : line'[i][1] = "baud" => options'.rate # 0
  <2> SUFFICES ASSUME NEW i \in 1 .. Len(line'), line'[i][1] = "baud" PROVE options.rate # 0
    BY <1>1
  <2>1. i # Len(line) + 1
    BY <1>2, <1>4
  <2>2. i \in 1 .. Len(line)
    BY <1>4, <2>1
  <2> QED
    BY <1>4, <2>2 DEF Sane, Control
<1>6. IsOptions(options') /\ Paired(steps, options)'
  BY <1>1 DEF Types, Sane, Control
<1>7. Types'
  BY <1>1, <1>3, <1>4, <1>6 DEF Types
<1>8. Control'
  BY <1>1, <1>5, <1>6 DEF Control, Sane
<1> QED
  BY <1>7, <1>8 DEF Sane

\* The line, once nothing is parsed any more.
LEMMA LineKeeps ==
    ASSUME Sane, UNCHANGED <<program, twice, short>>, pc # "parse",
           line' \in Seq(Commands \X Rates), wire' \in Seq(Byte \X Rates), queue' \in Seq(Byte),
           chip' \in [awake : BOOLEAN, speed : Rates],
           \A i \in 1 .. Len(line') : line'[i][1] = "baud" => options.rate # 0
    PROVE  Sane'
<1>1. /\ Types
      /\ UNCHANGED <<options, pc, code, steps, alarm, wanted, got, speed, twice, short>>
  BY DEF Sane, program
<1>2. IsOptions(options') /\ Paired(steps, options)'
  BY <1>1 DEF Types, Sane, Control
<1>3. Types'
  BY <1>1, <1>2 DEF Types
<1>4. Control'
  BY <1>1, <1>2 DEF Control, Sane
<1> QED
  BY <1>3, <1>4 DEF Sane

\* What the controller does when it hears a command.
LEMMA HearIs ==
    ASSUME Sane, Hear
    PROVE  /\ line # <<>> /\ Head(line)[1] \in Commands /\ Head(line) = line[1]
           /\ pc # "parse"
           /\ UNCHANGED <<program, queue, twice, short>>
           /\ line' = Tail(line) /\ line' \in Seq(Commands \X Rates) /\ Len(line') = Len(line) - 1
           /\ Len(line) \in Nat
           /\ \A i \in 1 .. Len(line') : i + 1 \in 1 .. Len(line) /\ line'[i] = line[i + 1]
           /\ chip' \in [awake : BOOLEAN, speed : Rates]
           /\ wire' \in Seq(Byte \X Rates)
           /\ \/ UNCHANGED <<wire, chip>> /\ ~(chip.awake /\ Head(line)[2] = chip.speed)
              \/ /\ wire' = wire \o Bytes(Answer(Head(line)[1]), chip.speed)
                 /\ chip'.speed = CASE Head(line)[1] = "baud" -> options.rate
                                    [] Head(line)[1] = "launch_ram" -> Default
                                    [] OTHER -> chip.speed
<1> DEFINE c == Head(line)[1]
           w == Bytes(Answer(c), chip.speed)
<1>1. /\ line # <<>> /\ line' = Tail(line) /\ UNCHANGED <<program, queue, twice, short>>
      /\ Types
  BY DEF Hear, history, Sane
<1>2. line \in Seq(Commands \X Rates) /\ wire \in Seq(Byte \X Rates)
      /\ chip \in [awake : BOOLEAN, speed : Rates]
  BY <1>1 DEF Types
<1>3. /\ Head(line) = line[1] /\ Head(line) \in Commands \X Rates /\ 1 \in 1 .. Len(line)
      /\ line' \in Seq(Commands \X Rates) /\ Len(line') = Len(line) - 1 /\ Len(line) \in Nat
      /\ \A i \in 1 .. Len(line') : i + 1 \in 1 .. Len(line) /\ line'[i] = line[i + 1]
  BY <1>1, <1>2
<1>4. c \in Commands
  BY <1>3
<1>5. pc # "parse"
  BY <1>1 DEF Sane, Control, Quiet
<1>6. c = "baud" => options.rate \in Rates
  <2>1. c = "baud" => options.rate # 0
    BY <1>3 DEF Sane, Control
  <2> QED
    BY <1>1, <2>1 DEF Types, IsOptions
<1>7. w \in Seq(Byte \X Rates)
  BY <1>2, <1>4, AnswerIs, BytesAre
<1>8. CASE chip.awake /\ Head(line)[2] = chip.speed
  <2>1. /\ wire' = wire \o w
        /\ chip' = CASE c = "baud" -> [chip EXCEPT !.speed = options.rate]
                     [] c = "launch_ram" -> [awake |-> FALSE, speed |-> Default]
                     [] OTHER -> chip
    BY <1>8 DEF Hear
  <2> HIDE DEF c, w
  <2>2. wire' \in Seq(Byte \X Rates)
    BY <1>2, <1>7, <2>1, ConcatProperties
  <2>3. CASE c = "baud"
    <3>1. chip' = [chip EXCEPT !.speed = options.rate]
      BY <2>1, <2>3
    <3>2. chip' \in [awake : BOOLEAN, speed : Rates] /\ chip'.speed = options.rate
      BY <1>2, <1>6, <2>3, <3>1
    <3> QED
      BY <1>1, <1>3, <1>4, <1>5, <2>1, <2>2, <2>3, <3>2 DEF c, w
  <2>4. CASE c = "launch_ram"
    <3>1. chip' = [awake |-> FALSE, speed |-> Default]
      BY <2>1, <2>4
    <3>2. chip' \in [awake : BOOLEAN, speed : Rates] /\ chip'.speed = Default
      BY <3>1, RatesAre
    <3> QED
      BY <1>1, <1>3, <1>4, <1>5, <2>1, <2>2, <2>4, <3>2 DEF c, w
  <2>5. CASE c # "baud" /\ c # "launch_ram"
    <3>1. chip' = chip
      BY <2>1, <2>5
    <3> QED
      BY <1>1, <1>2, <1>3, <1>4, <1>5, <2>1, <2>2, <2>5, <3>1 DEF c, w
  <2> QED
    BY <2>3, <2>4, <2>5
<1>9. CASE ~(chip.awake /\ Head(line)[2] = chip.speed)
  <2>1. UNCHANGED <<wire, chip>>
    BY <1>9 DEF Hear
  <2> QED
    BY <1>1, <1>2, <1>3, <1>4, <1>5, <1>9, <2>1
<1> QED
  BY <1>8, <1>9

\* A command heard, or lost.
LEMMA HearKeepsSane ==
    ASSUME Sane, Hear
    PROVE  Sane'
<1>1. \A i \in 1 .. Len(line') : line'[i][1] = "baud" => options.rate # 0
  BY HearIs DEF Sane, Control
<1>2. queue' \in Seq(Byte)
  BY HearIs DEF Sane, Types
<1> QED
  BY <1>1, <1>2, HearIs, LineKeeps

\* The controller gets ready.
LEMMA WakeKeepsSane ==
    ASSUME Sane, Wake
    PROVE  Sane'
<1>1. /\ chip' = [chip EXCEPT !.awake = TRUE] /\ Types
      /\ UNCHANGED <<program, line, wire, queue, twice, short>>
  BY DEF Wake, history, Sane
<1>2. chip' \in [awake : BOOLEAN, speed : Rates] /\ chip'.speed = chip.speed
  BY <1>1 DEF Types
<1>3. UNCHANGED <<options, pc, code, steps, alarm, wanted, got, speed>>
  BY <1>1 DEF program
<1>4. IsOptions(options')
  BY <1>1, <1>3 DEF Types
<1>5. Types'
  BY <1>1, <1>2, <1>3, <1>4 DEF Types
<1>6. pc # "parse" => Paired(steps, options)'
  BY <1>3 DEF Sane, Control
<1>7. pc = "parse" => Quiet'
  BY <1>1, <1>2, <1>3 DEF Sane, Control, Quiet
<1>8. Control'
  BY <1>1, <1>3, <1>6, <1>7 DEF Sane, Control
<1> QED
  BY <1>5, <1>8 DEF Sane

\* A byte arrives as it is, as another one, or not at all.
LEMMA ArriveIs ==
    ASSUME Sane, Arrive
    PROVE  /\ wire # <<>> /\ wire' = Tail(wire) /\ wire \in Seq(Byte \X Rates)
           /\ wire' \in Seq(Byte \X Rates) /\ Len(wire') = Len(wire) - 1 /\ Len(wire) \in Nat
           /\ \A i \in 1 .. Len(wire') : i + 1 \in 1 .. Len(wire) /\ wire'[i] = wire[i + 1]
           /\ wire[1][1] \in Byte /\ 1 \in 1 .. Len(wire)
           /\ queue \in Seq(Byte) /\ Len(queue) \in Nat
           /\ \E b \in Byte : \/ queue' = queue /\ wire[1][2] # speed
                              \/ queue' = Append(queue, b) /\ (wire[1][2] = speed => b = wire[1][1])
           /\ queue' \in Seq(Byte)
           /\ UNCHANGED <<program, line, chip, twice, short>>
<1>1. /\ wire # <<>> /\ wire' = Tail(wire) /\ Types
      /\ queue' \in IF Head(wire)[2] = speed THEN {Append(queue, Head(wire)[1])}
                                             ELSE {queue, Append(queue, 0)}
      /\ UNCHANGED <<program, line, chip, twice, short>>
  BY DEF Arrive, history, Sane
<1>2. wire \in Seq(Byte \X Rates) /\ queue \in Seq(Byte)
  BY <1>1 DEF Types
<1>3. /\ Head(wire) = wire[1] /\ wire[1] \in Byte \X Rates /\ 1 \in 1 .. Len(wire)
      /\ wire' \in Seq(Byte \X Rates) /\ Len(wire') = Len(wire) - 1 /\ Len(wire) \in Nat
      /\ \A i \in 1 .. Len(wire') : i + 1 \in 1 .. Len(wire) /\ wire'[i] = wire[i + 1]
  BY <1>1, <1>2
<1>4. wire[1][1] \in Byte /\ 0 \in Byte
  BY <1>3 DEF Byte
<1>5. \E b \in Byte : \/ queue' = queue /\ wire[1][2] # speed
                      \/ queue' = Append(queue, b) /\ (wire[1][2] = speed => b = wire[1][1])
  <2>1. CASE wire[1][2] = speed
    BY <1>1, <1>3, <1>4, <2>1
  <2>2. CASE wire[1][2] # speed
    BY <1>1, <1>3, <1>4, <2>2
  <2> QED
    BY <2>1, <2>2
<1>6. queue' \in Seq(Byte)
  <2>1. PICK b \in Byte : queue' = queue \/ queue' = Append(queue, b)
    BY <1>5
  <2>2. Append(queue, b) \in Seq(Byte)
    BY <1>2
  <2> QED
    BY <1>2, <2>1, <2>2
<1>7. Len(queue) \in Nat
  BY <1>2
<1> QED
  BY <1>1, <1>2, <1>3, <1>4, <1>5, <1>6, <1>7

\* A byte received, or lost.
LEMMA ArriveKeepsSane ==
    ASSUME Sane, Arrive
    PROVE  Sane'
<1>1. /\ pc # "parse" /\ line' \in Seq(Commands \X Rates)
      /\ chip' \in [awake : BOOLEAN, speed : Rates]
      /\ \A i \in 1 .. Len(line') : line'[i][1] = "baud" => options.rate # 0
  BY ArriveIs DEF Sane, Types, Control, Quiet
<1> QED
  BY <1>1, ArriveIs, LineKeeps

\* Every step.
LEMMA NextKeepsSane ==
    ASSUME Sane, [Next]_vars
    PROVE  Sane'
<1>1. CASE ParseOption
  BY <1>1, ParseKeepsSane
<1>2. CASE InitUart
  BY <1>2, InitUartKeepsSane
<1>3. CASE HciSendCmd
  BY <1>3, SendKeepsSane
<1>4. CASE ReadSome
  BY <1>4, ReadKeepsSane
<1>5. CASE ReadEventRest
  BY <1>5, RestKeepsSane
<1>6. CASE ReadEventEnd
  BY <1>6, EndKeepsSane
<1>7. CASE ReadTwo
  BY <1>7, TwoKeepsSane
<1>8. CASE ReadTwoEnd
  BY <1>8, TwoEndKeepsSane
<1>9. CASE TcSetAttr
  BY <1>9, SpeedKeepsSane
<1>10. CASE Finish
  BY <1>10, FinishKeepsSane
<1>11. CASE Expired
  BY <1>11, ExpiredKeepsSane
<1>12. CASE Hear
  BY <1>12, HearKeepsSane
<1>13. CASE Wake
  BY <1>13, WakeKeepsSane
<1>14. CASE Arrive
  BY <1>14, ArriveKeepsSane
<1>15. CASE UNCHANGED vars
  <2>1. /\ UNCHANGED <<options, pc, code, steps, alarm, wanted, got, speed>>
        /\ UNCHANGED <<line, wire, queue, chip, twice, short>>
    BY <1>15 DEF vars, program, history
  <2>2. IsOptions(options') /\ (pc # "parse" => Paired(steps, options)')
    BY <2>1 DEF Sane, Types, Control
  <2>3. Types'
    BY <2>1, <2>2 DEF Sane, Types
  <2>4. pc = "parse" => Quiet'
    BY <2>1 DEF Sane, Control, Quiet
  <2>5. Control'
    BY <2>1, <2>2, <2>4 DEF Sane, Control
  <2> QED
    BY <2>3, <2>5 DEF Sane
<1> QED
  BY <1>1, <1>2, <1>3, <1>4, <1>5, <1>6, <1>7, <1>8, <1>9, <1>10, <1>11, <1>12, <1>13, <1>14,
     <1>15 DEF Next, Host

\* The types, always.
LEMMA SaneAlways == Spec => []Sane
<1>1. Init => Sane
  BY InitSane
<1>2. Sane /\ [Next]_vars => Sane'
  BY NextKeepsSane
<1> QED
  BY <1>1, <1>2, PTL DEF Spec

\* TypeOK: the variables have their types, the exit code is set only at the exit, and the
\* timer runs only while the answer to a reset is read.
THEOREM TypesAlways == Spec => []TypeOK
<1>1. Sane => TypeOK
  <2> SUFFICES ASSUME Sane PROVE TypeOK
    OBVIOUS
  <2>1. Types /\ Control
    BY DEF Sane
  <2>2. options.rate \in Rates \cup {0} /\ chip.speed \in Rates /\ wanted \in 0 .. 255
    BY <2>1 DEF Types, IsOptions, Byte
  <2>3. alarm => steps # <<>> /\ Head(steps) = ProcReset[1]
    <3> SUFFICES ASSUME alarm PROVE steps # <<>> /\ Head(steps) = ProcReset[1]
      OBVIOUS
    <3>1. /\ pc # "parse" /\ steps # <<>> /\ Head(steps).do = "send"
          /\ Head(steps).command = "reset"
      BY <2>1 DEF Control
    <3>2. Head(steps) = [do |-> "send", command |-> "reset"]
      BY <3>1, StepsLeft, StepIs
    <3> QED
      BY <3>1, <3>2 DEF ProcReset, Send
  <2> QED
    BY <2>1, <2>2, <2>3 DEF TypeOK, Types
<1> QED
  BY <1>1, SaneAlways, PTL

----------------------------------------------------------------------------
\* Program and controller in step

\* The answer that is read, and what is still to come of it.
Left == Len(queue) + Len(wire)
Third ==
    IF Len(got) >= 3 THEN got[3]
    ELSE IF Len(got) + Len(queue) >= 3 THEN queue[3 - Len(got)]
    ELSE wire[3 - Len(got) - Len(queue)][1]

\* The bytes after the answer.
Extra(c) == IF c = "minidriver" THEN Len(Confirmation) ELSE 0

\* The controller's speed once it has answered.
After(c) == IF c = "baud" THEN options.rate ELSE IF c = "launch_ram" THEN Default ELSE speed

\* Every byte comes at the program's speed.
SameSpeed == \A i \in 1 .. Len(wire) : wire[i][2] = speed

\* The command is on its way, or was not heard: then the alarm sends it again.
Waiting ==
    /\ line = <<>> \/ line = << <<Head(steps).command, speed>> >>
    /\ wire = <<>> /\ queue = <<>> /\ got = <<>> /\ pc = "answer" /\ wanted = 3
    /\ chip.speed = speed

\* The answer is on its way.
Answered ==
    /\ line = <<>> /\ SameSpeed /\ chip.speed = After(Head(steps).command)
    /\ pc = "answer" => Left = wanted + 4 + Extra(Head(steps).command) /\ Third = 4
    /\ pc = "rest" => Left = wanted + Extra(Head(steps).command) /\ got # <<>>

\* Nothing is on its way but the two bytes, and the controller has changed its speed
\* if that is what the program does next.
Between ==
    /\ line = <<>> /\ SameSpeed
    /\ Left = IF steps # <<>> /\ Head(steps).do = "two" THEN 2 ELSE 0
    /\ chip.speed = IF steps # <<>> /\ Head(steps).do = "speed" THEN Head(steps).rate ELSE speed

\* Before the download at the first speed ends, it is the first speed.
FirstSpeed ==
    "use_baudrate_for_download" \notin options.flags /\ ~NoLaunch(steps) => speed = Default

Clean == ~twice /\ ~short /\ Fits

Together ==
    Clean =>
        /\ pc \in {"go", "two"} => Between /\ FirstSpeed
        /\ pc \in {"answer", "rest"} => (Waiting \/ Answered) /\ FirstSpeed

\* A step less.
LEMMA FirstSpeedTail ==
    ASSUME NEW s \in Seq(StepSet), s # <<>>
    PROVE  NoLaunch(s) => NoLaunch(Tail(s))
<1>1. Len(s) \in Nat /\ \A i \in 1 .. Len(Tail(s)) : i + 1 \in 1 .. Len(s) /\ Tail(s)[i] = s[i + 1]
  OBVIOUS
<1> QED
  BY <1>1 DEF NoLaunch, SendAt

\* What may come next.
LEMMA NextStep ==
    ASSUME Sane, pc # "parse", steps # <<>>
    PROVE  LET t == Tail(steps)
               h == Head(steps)
               n == Head(t)
               none == t = <<>>
           IN  /\ h.do # "send" => none \/ n.do = "send"
               /\ ~none /\ n.do = "two" => h.do = "send" /\ h.command = "minidriver"
                                            /\ "no2bytes" \notin options.flags
               /\ ~none /\ n.do = "speed" =>
                    /\ h.do = "send"
                    /\ \/ h.command = "baud" /\ n.rate = options.rate
                       \/ h.command = "launch_ram" /\ n.rate = Default
               /\ h.do = "send" /\ h.command = "baud" => ~none /\ n.do = "speed"
               /\ h.do = "send" /\ h.command = "minidriver" /\ "no2bytes" \notin options.flags =>
                    ~none /\ n.do = "two"
               /\ h.do = "send" /\ h.command = "launch_ram"
                  /\ "use_baudrate_for_download" \in options.flags => ~none /\ n.do = "speed"
<1> DEFINE t == Tail(steps)
           h == Head(steps)
           n == Head(t)
<1>1. steps \in Seq(StepSet) /\ Paired(steps, options) /\ h = steps[1] /\ Len(steps) \in Nat
      /\ Followed(steps, 1, options)
  BY StepsLeft
<1>2. /\ t # <<>> => Len(steps) > 1 /\ n = steps[2]
      /\ Len(steps) > 1 => t # <<>>
      /\ \A i \in 1 .. Len(t) : i + 1 \in 1 .. Len(steps) /\ t[i] = steps[i + 1]
  BY <1>1, PairedTail
<1>3. t # <<>> => Follows(steps, 1, options) /\ n \in StepSet
  <2> SUFFICES ASSUME t # <<>> PROVE Follows(steps, 1, options) /\ n \in StepSet
    OBVIOUS
  <2>1. 1 \in 1 .. (Len(steps) - 1) /\ 2 \in 1 .. Len(steps)
    BY <1>1, <1>2
  <2> QED
    BY <1>1, <1>2, <2>1 DEF Paired
<1>4. t # <<>> => n.do \in {"send", "two", "speed"}
  BY <1>3, StepIs
<1> HIDE DEF t, h, n
<1>5. 1 + 1 = 2 /\ (1 < Len(steps) <=> Len(steps) > 1)
  BY <1>1
<1>6. /\ h.do = "send" /\ h.command = "baud" => t # <<>> /\ n.do = "speed"
      /\ h.do = "send" /\ h.command = "minidriver" /\ "no2bytes" \notin options.flags =>
           t # <<>> /\ n.do = "two"
      /\ h.do = "send" /\ h.command = "launch_ram"
         /\ "use_baudrate_for_download" \in options.flags => t # <<>> /\ n.do = "speed"
  BY <1>1, <1>2, <1>5 DEF Followed, SendAt, SpeedAt
<1>7. t # <<>> =>
        /\ n.do = "speed" => /\ h.do = "send"
                             /\ \/ h.command = "baud" /\ n.rate = options.rate
                                \/ h.command = "launch_ram" /\ n.rate = Default
        /\ n.do = "two" => h.do = "send" /\ h.command = "minidriver"
  BY <1>1, <1>2, <1>3, <1>5 DEF Follows, SpeedAfter, SendAt
<1>8. t # <<>> /\ n.do = "two" => "no2bytes" \notin options.flags
  <2> SUFFICES ASSUME t # <<>>, n.do = "two" PROVE "no2bytes" \notin options.flags
    OBVIOUS
  <2>1. 2 \in 1 .. Len(steps)
    BY <1>1, <1>2
  <2>2. Followed(steps, 2, options)
    BY <1>1, <2>1 DEF Paired
  <2> QED
    BY <1>2, <2>2 DEF Followed
<1> QED
  BY <1>4, <1>6, <1>7, <1>8 DEF t, h, n

\* The lengths are numbers.
LEMMA Lengths ==
    ASSUME Sane
    PROVE  /\ Len(queue) \in Nat /\ Len(wire) \in Nat /\ Len(got) \in Nat /\ wanted \in Nat
           /\ queue \in Seq(Byte) /\ wire \in Seq(Byte \X Rates) /\ got \in Seq(Byte)
           /\ \A c \in Commands : Extra(c) \in Nat
           /\ Len(queue) = 0 <=> queue = <<>>
           /\ Len(wire) = 0 <=> wire = <<>>
           /\ Len(got) = 0 <=> got = <<>>
           /\ pc = "answer" => Len(got) + wanted = 3
<1>1. /\ queue \in Seq(Byte) /\ wire \in Seq(Byte \X Rates) /\ got \in Seq(Byte) /\ wanted \in Byte
      /\ pc = "answer" => Len(got) + wanted = 3
  BY DEF Sane, Types, Control
<1>2. wanted \in Nat
  BY <1>1 DEF Byte
<1>3. \A c \in Commands : Extra(c) \in Nat
  BY PatchramAssumption DEF Extra
<1>4. /\ Len(queue) \in Nat /\ Len(wire) \in Nat /\ Len(got) \in Nat
      /\ Len(queue) = 0 <=> queue = <<>>
      /\ Len(wire) = 0 <=> wire = <<>>
      /\ Len(got) = 0 <=> got = <<>>
  BY <1>1
<1> QED
  BY <1>1, <1>2, <1>3, <1>4

\* The command that is answered.
LEMMA CommandIs ==
    ASSUME Sane, pc \in {"answer", "rest"}
    PROVE  /\ steps # <<>> /\ Head(steps).do = "send" /\ Head(steps).command \in Commands
           /\ Extra(Head(steps).command) \in Nat /\ pc # "parse"
<1>1. steps # <<>> /\ Head(steps).do = "send" /\ pc # "parse"
  BY DEF Sane, Control
<1>2. Head(steps).command \in Commands
  BY <1>1, StepsLeft, StepIs
<1> QED
  BY <1>1, <1>2, Lengths

\* Being in step is not claimed again once it was lost.
LEMMA CleanBefore ==
    ASSUME Clean', options' = options, twice => twice', short => short'
    PROVE  Clean
BY DEF Clean, Fits

\* When the line is opened both sides have their first speed.
LEMMA InitUartTogether ==
    ASSUME Sane, InitUart
    PROVE  Together'
<1>1. /\ Quiet /\ pc = "parse" /\ queue' = <<>> /\ UNCHANGED <<line, wire, chip>>
      /\ speed' = Default /\ pc' \in {"go", "exit"}
  BY DEF Sane, Control, InitUart, Quiet, Exit
<1>2. pc' = "go" /\ steps' # <<>> => steps'[1].do = "send"
  BY InitUartKeepsSane
<1>3. steps' \in Seq(StepSet)
  BY InitUartKeepsSane DEF Sane, Types
<1>4. pc' = "go" /\ steps' # <<>> => Head(steps').do = "send"
  BY <1>2, <1>3
<1>5. pc' = "go" => Between'
  <2>1. Left' = 0 /\ SameSpeed' /\ line' = <<>> /\ chip'.speed = speed'
    BY <1>1 DEF Left, SameSpeed, Quiet
  <2> QED
    BY <1>4, <2>1 DEF Between
<1>6. FirstSpeed'
  BY <1>1 DEF FirstSpeed
<1> QED
  BY <1>1, <1>5, <1>6 DEF Together

\* A command is sent when nothing is on its way.
LEMMA SendTogether ==
    ASSUME Sane, Together, HciSendCmd, Clean'
    PROVE  (Waiting /\ FirstSpeed)'
<1>1. /\ pc = "go" /\ steps # <<>> /\ Head(steps).do = "send"
      /\ line' = Append(line, <<Head(steps).command, speed>>)
      /\ pc' = "answer" /\ wanted' = 3 /\ got' = <<>>
      /\ UNCHANGED <<options, steps, speed, wire, queue, chip, twice, short>>
  BY DEF HciSendCmd, Doing, history
<1>2. Between /\ FirstSpeed
  BY <1>1, CleanBefore DEF Together
<1>3. line = <<>> /\ Left = 0 /\ chip.speed = speed
  BY <1>1, <1>2 DEF Between
<1>4. wire = <<>> /\ queue = <<>>
  BY <1>3, Lengths DEF Left
<1>5. line' = << <<Head(steps).command, speed>> >>
  BY <1>1, <1>3
<1>6. Waiting'
  BY <1>1, <1>3, <1>4, <1>5 DEF Waiting
<1>7. FirstSpeed'
  BY <1>1, <1>2 DEF FirstSpeed
<1> QED
  BY <1>6, <1>7

\* Reading some of the answer.
LEMMA ReadTogether ==
    ASSUME Sane, Together, ReadSome, Clean'
    PROVE  (Answered /\ FirstSpeed)'
<1> DEFINE n == IF Len(queue) < wanted THEN Len(queue) ELSE wanted
           f == SubSeq(queue, 1, n)
           r == SubSeq(queue, n + 1, Len(queue))
<1>1. /\ pc \in {"answer", "rest"} /\ wanted > 0 /\ queue # <<>>
      /\ wanted' = wanted - n /\ queue' = r
      /\ got' = IF pc = "answer" THEN got \o f ELSE got
      /\ UNCHANGED <<options, pc, steps, speed, line, wire, chip, twice, short>>
  BY DEF ReadSome, history
<1>2. Answered /\ FirstSpeed
  BY <1>1, CleanBefore DEF Together, Waiting
<1>3. /\ Len(queue) \in Nat /\ Len(wire) \in Nat /\ Len(got) \in Nat /\ wanted \in Nat
      /\ queue \in Seq(Byte) /\ got \in Seq(Byte)
      /\ pc = "answer" => Len(got) + wanted = 3
  BY Lengths
<1>4. n \in 0 .. Len(queue) /\ n <= wanted /\ (n = wanted \/ (n = Len(queue) /\ Len(queue) < wanted))
  BY <1>3
<1> HIDE DEF n
<1>5. /\ Len(r) = Len(queue) - n /\ f \in Seq(Byte) /\ Len(f) = n
      /\ \A i \in 1 .. n : f[i] = queue[i]
  BY <1>3, <1>4, Cut
<1> HIDE DEF f, r
<1>6. Left' = Left - n
  BY <1>1, <1>3, <1>4, <1>5 DEF Left
<1>7. UNCHANGED Extra(Head(steps).command) /\ UNCHANGED After(Head(steps).command)
  BY <1>1 DEF Extra, After
<1>8. Extra(Head(steps).command) \in Nat /\ Left \in Nat
  BY <1>1, <1>3, CommandIs DEF Left
<1>9. pc = "answer" => Third' = Third
  <2> SUFFICES ASSUME pc = "answer" PROVE Third' = Third
    OBVIOUS
  <2>1. /\ Len(got') = Len(got) + n
        /\ \A i \in 1 .. (Len(got) + n) : got'[i] = IF i <= Len(got) THEN got[i] ELSE f[i - Len(got)]
    BY <1>1, <1>3, <1>5, ConcatProperties
  <2>2. Len(got) + wanted = 3 /\ Len(got) < 3
    BY <1>1, <1>3
  <2>3. CASE n = wanted
    <3>1. Len(got') = 3 /\ Len(got) + Len(queue) >= 3 /\ 3 - Len(got) \in 1 .. n
          /\ 3 \in 1 .. (Len(got) + n) /\ ~(3 <= Len(got))
      BY <1>1, <1>3, <1>4, <2>1, <2>2, <2>3
    <3>2. got'[3] = queue[3 - Len(got)]
      BY <1>5, <2>1, <3>1
    <3>3. Third' = got'[3]
      BY <3>1 DEF Third
    <3>4. Third = queue[3 - Len(got)]
      BY <1>3, <2>2, <3>1 DEF Third
    <3> QED
      BY <3>2, <3>3, <3>4
  <2>4. CASE n = Len(queue) /\ Len(queue) < wanted
    <3>1. /\ Len(got) + Len(queue) < 3 /\ Len(got') = Len(got) + Len(queue) /\ Len(queue') = 0
          /\ Len(got') < 3 /\ Len(got') + Len(queue') < 3
          /\ 3 - Len(got) - Len(queue) = 3 - Len(got') - Len(queue')
      BY <1>1, <1>3, <1>5, <2>1, <2>2, <2>4
    <3>2. Third = wire[3 - Len(got) - Len(queue)][1]
      BY <1>3, <2>2, <3>1 DEF Third
    <3>3. Third' = wire'[3 - Len(got') - Len(queue')][1]
      BY <1>3, <3>1 DEF Third
    <3> QED
      BY <1>1, <3>1, <3>2, <3>3
  <2> QED
    BY <1>4, <2>3, <2>4
<1>10. pc = "rest" => got' = got
  BY <1>1
<1>11. line' = <<>> /\ SameSpeed' /\ chip'.speed = After(Head(steps).command)'
  BY <1>1, <1>2, <1>7 DEF Answered, SameSpeed
<1>12. pc' = "answer" => Left' = wanted' + 4 + Extra(Head(steps).command)' /\ Third' = 4
  BY <1>1, <1>2, <1>3, <1>4, <1>6, <1>7, <1>8, <1>9 DEF Answered
<1>13. pc' = "rest" => Left' = wanted' + Extra(Head(steps).command)' /\ got' # <<>>
  BY <1>1, <1>2, <1>3, <1>4, <1>6, <1>7, <1>8, <1>10 DEF Answered
<1>14. Answered'
  BY <1>11, <1>12, <1>13 DEF Answered
<1>15. FirstSpeed'
  BY <1>1, <1>2 DEF FirstSpeed
<1> QED
  BY <1>14, <1>15

\* The third byte says how many there are.
LEMMA RestTogether ==
    ASSUME Sane, Together, ReadEventRest, Clean'
    PROVE  (Answered /\ FirstSpeed)'
<1>1. /\ pc = "answer" /\ wanted = 0 /\ pc' = "rest" /\ wanted' = got[3]
      /\ UNCHANGED <<options, steps, got, speed, line, wire, queue, chip, twice, short>>
  BY DEF ReadEventRest, history
<1>2. Answered /\ FirstSpeed
  BY <1>1, CleanBefore DEF Together, Waiting
<1>3. Len(got) = 3 /\ got # <<>>
  <2>1. Len(got) + wanted = 3 /\ Len(got) \in Nat /\ (Len(got) = 0 <=> got = <<>>)
    BY <1>1, Lengths
  <2> QED
    BY <1>1, <2>1
<1>4. got[3] = 4
  BY <1>1, <1>2, <1>3 DEF Answered, Third
<1>5. UNCHANGED Extra(Head(steps).command) /\ UNCHANGED After(Head(steps).command)
  BY <1>1 DEF Extra, After
<1>6. Left = 4 + Extra(Head(steps).command) /\ Left' = Left
  <2>1. Left = 0 + 4 + Extra(Head(steps).command)
    BY <1>1, <1>2 DEF Answered
  <2>2. Extra(Head(steps).command) \in Nat
    BY <1>1, CommandIs
  <2>3. Left' = Left
    BY <1>1 DEF Left
  <2> QED
    BY <2>1, <2>2, <2>3
<1>7. line' = <<>> /\ SameSpeed' /\ chip'.speed = After(Head(steps).command)'
  BY <1>1, <1>2, <1>5 DEF Answered, SameSpeed
<1>8. Left' = wanted' + Extra(Head(steps).command)' /\ got' # <<>>
  BY <1>1, <1>3, <1>4, <1>5, <1>6
<1>9. Answered'
  BY <1>1, <1>7, <1>8 DEF Answered
<1>10. FirstSpeed'
  BY <1>1, <1>2 DEF FirstSpeed
<1> QED
  BY <1>9, <1>10

\* What is left of an answer that was read is what the next step reads.
LEMMA EndTogether ==
    ASSUME Sane, Together, ReadEventEnd, Clean'
    PROVE  (Between /\ FirstSpeed)'
<1> DEFINE h == Head(steps)
           t == Tail(steps)
           n == Head(t)
<1>1. /\ pc = "rest" /\ wanted = 0 /\ pc' = "go" /\ steps' = t
      /\ UNCHANGED <<options, wanted, speed, line, wire, queue, chip, twice, short>>
  BY DEF ReadEventEnd, history
<1>2. Clean /\ Answered /\ FirstSpeed
  BY <1>1, CleanBefore DEF Together, Waiting
<1>3. /\ steps # <<>> /\ h.do = "send" /\ h.command \in Commands /\ Extra(h.command) \in Nat
      /\ pc # "parse"
  BY <1>1, CommandIs
<1>4. /\ line = <<>> /\ SameSpeed /\ chip.speed = After(h.command)
      /\ Left = Extra(h.command)
  <2>1. Left = 0 + Extra(h.command)
    BY <1>1, <1>2 DEF Answered
  <2> QED
    BY <1>2, <1>3, <2>1 DEF Answered
<1>5. /\ t # <<>> /\ n.do = "two" => h.command = "minidriver" /\ "no2bytes" \notin options.flags
      /\ t # <<>> /\ n.do = "speed" =>
           \/ h.command = "baud" /\ n.rate = options.rate
           \/ h.command = "launch_ram" /\ n.rate = Default
      /\ h.command = "baud" => t # <<>> /\ n.do = "speed"
      /\ h.command = "minidriver" /\ "no2bytes" \notin options.flags => t # <<>> /\ n.do = "two"
      /\ h.command = "launch_ram" /\ "use_baudrate_for_download" \in options.flags =>
           t # <<>> /\ n.do = "speed"
  BY <1>3, NextStep
<1>6. Head(steps') = n /\ (steps' # <<>> <=> t # <<>>)
  BY <1>1
<1>7. steps \in Seq(StepSet) /\ h.command = "launch_ram" => ~NoLaunch(steps)
  <2>1. 1 \in 1 .. Len(steps) /\ h = steps[1]
    BY <1>3, StepsLeft
  <2> QED
    BY <1>3, <2>1 DEF NoLaunch, SendAt
<1>8. steps \in Seq(StepSet)
  BY <1>3, StepsLeft
<1> HIDE DEF h, t, n
<1>9. Left' = IF t # <<>> /\ n.do = "two" THEN 2 ELSE 0
  <2>1. Left' = Left
    BY <1>1 DEF Left
  <2>2. CASE t # <<>> /\ n.do = "two"
    <3>1. h.command = "minidriver" /\ Confirmation # <<>>
      BY <1>2, <1>5, <2>2 DEF Clean, Fits
    <3>2. Len(Confirmation) = 2
      BY <3>1, PatchramAssumption
    <3> QED
      BY <1>4, <2>1, <2>2, <3>1, <3>2 DEF Extra
  <2>3. CASE ~(t # <<>> /\ n.do = "two")
    <3>1. CASE h.command = "minidriver"
      <4>1. Confirmation = <<>>
        BY <1>2, <1>5, <2>3, <3>1 DEF Clean, Fits
      <4> QED
        BY <1>4, <2>1, <2>3, <3>1, <4>1 DEF Extra
    <3>2. CASE h.command # "minidriver"
      BY <1>4, <2>1, <2>3, <3>2 DEF Extra
    <3> QED
      BY <3>1, <3>2
  <2> QED
    BY <2>2, <2>3
<1>10. chip'.speed = IF t # <<>> /\ n.do = "speed" THEN n.rate ELSE speed
  <2>0. chip'.speed = chip.speed
    BY <1>1
  <2>1. CASE t # <<>> /\ n.do = "speed"
    BY <1>4, <1>5, <2>0, <2>1 DEF After
  <2>2. CASE ~(t # <<>> /\ n.do = "speed")
    <3>1. h.command # "baud"
      BY <1>5, <2>2
    <3>2. h.command = "launch_ram" => speed = Default
      BY <1>2, <1>5, <1>7, <1>8, <2>2 DEF FirstSpeed
    <3> QED
      BY <1>4, <2>0, <2>2, <3>1, <3>2 DEF After
  <2> QED
    BY <2>1, <2>2
<1>11. line' = <<>> /\ SameSpeed' /\ speed' = speed
  BY <1>1, <1>4 DEF SameSpeed
<1>12. Between'
  BY <1>6, <1>9, <1>10, <1>11 DEF Between
<1>13. FirstSpeed'
  <2>1. NoLaunch(steps) => NoLaunch(steps')
    BY <1>1, <1>3, <1>8, FirstSpeedTail DEF t
  <2> QED
    BY <1>1, <1>2, <2>1 DEF FirstSpeed
<1> QED
  BY <1>12, <1>13

\* The two bytes are read together.
LEMMA TwoEndTogether ==
    ASSUME Sane, Together, ReadTwoEnd, Clean'
    PROVE  (Between /\ FirstSpeed)'
<1> DEFINE k == IF Len(queue) = 1 THEN 1 ELSE 2
           r == SubSeq(queue, k + 1, Len(queue))
<1>1. /\ pc = "two" /\ queue # <<>> /\ queue' = r /\ short' = (short \/ k = 1)
      /\ pc' = "go" /\ steps' = Tail(steps)
      /\ UNCHANGED <<options, speed, line, wire, chip, twice>>
  BY DEF ReadTwoEnd
<1>2. short => short'
  BY <1>1
<1>3. Between /\ FirstSpeed
  BY <1>1, <1>2, CleanBefore DEF Together
<1>4. k = 2 /\ Len(queue) # 1
  BY <1>1 DEF Clean
<1> HIDE DEF k, r
<1>5. steps # <<>> /\ Head(steps).do = "two" /\ pc # "parse"
  BY <1>1 DEF Sane, Control
<1>6. Len(queue) + Len(wire) = 2 /\ chip.speed = speed /\ line = <<>>
  BY <1>3, <1>5 DEF Between, Left
<1>7. Len(queue) \in Nat /\ Len(wire) \in Nat /\ Len(queue) # 0 /\ queue \in Seq(Byte)
  BY <1>1, Lengths
<1>8. Len(queue) = 2 /\ Len(wire) = 0
  <2>1. PICK a \in Nat, b \in Nat : a = Len(queue) /\ b = Len(wire)
    BY <1>7
  <2>2. a # 0 /\ a # 1 /\ a + b = 2
    BY <1>4, <1>6, <1>7, <2>1
  <2>3. a = 2 /\ b = 0
    BY <2>2
  <2> QED
    BY <2>1, <2>3
<1>9. Len(queue') = 0
  <2>1. 2 \in 0 .. Len(queue) /\ Len(queue) - 2 = 0
    BY <1>8
  <2> QED
    BY <1>1, <1>4, <1>7, <2>1, Cut DEF r
<1>10. Left' = 0 /\ SameSpeed'
  BY <1>1, <1>8, <1>9 DEF Left, SameSpeed
<1>11. steps' # <<>> => Head(steps').do = "send"
  BY <1>1, <1>5, NextStep
<1>12. Between'
  BY <1>1, <1>6, <1>10, <1>11 DEF Between
<1>13. FirstSpeed'
  <2>1. NoLaunch(steps) => NoLaunch(steps')
    BY <1>1, <1>5, StepsLeft, FirstSpeedTail
  <2> QED
    BY <1>1, <1>3, <2>1 DEF FirstSpeed
<1> QED
  BY <1>12, <1>13

\* The program's speed follows the controller's.
LEMMA SpeedTogether ==
    ASSUME Sane, Together, TcSetAttr, Clean'
    PROVE  (Between /\ FirstSpeed)'
<1>1. /\ pc = "go" /\ steps # <<>> /\ Head(steps).do = "speed"
      /\ speed' = Head(steps).rate /\ steps' = Tail(steps)
      /\ UNCHANGED <<options, pc, line, wire, queue, chip, twice, short>>
  BY DEF TcSetAttr, Doing, history
<1>2. Between /\ FirstSpeed
  BY <1>1, CleanBefore DEF Together
<1>3. Left = 0 /\ chip.speed = Head(steps).rate /\ line = <<>>
  BY <1>1, <1>2 DEF Between
<1>4. queue = <<>> /\ wire = <<>>
  BY <1>3, Lengths DEF Left
<1>5. Left' = 0 /\ SameSpeed'
  BY <1>1, <1>3, <1>4 DEF Left, SameSpeed
<1>6. steps' # <<>> => Head(steps').do = "send"
  BY <1>1, NextStep
<1>7. Between'
  BY <1>1, <1>3, <1>5, <1>6 DEF Between
<1>8. FirstSpeed'
  <2> SUFFICES ASSUME "use_baudrate_for_download" \notin options.flags, ~NoLaunch(steps')
               PROVE  FALSE
    BY <1>1 DEF FirstSpeed
  <2>1. /\ steps \in Seq(StepSet) /\ Paired(steps, options) /\ Head(steps) = steps[1]
        /\ 1 \in 1 .. Len(steps) /\ Len(steps) \in Nat
    BY <1>1, StepsLeft
  <2>2. ~NoLaunch(steps)
    BY <1>1, <2>1, FirstSpeedTail
  <2>3. PICK i \in 1 .. Len(steps) : SendAt(steps, i, "launch_ram")
    BY <2>2 DEF NoLaunch
  <2>4. 1 \in 1 .. i
    BY <2>1
  <2>5. steps[1].do # "speed"
    BY <2>1, <2>3, <2>4 DEF Paired, LaunchFirst
  <2> QED
    BY <1>1, <2>1, <2>5
<1> QED
  BY <1>7, <1>8

\* A reset that was not heard is sent again.
LEMMA ExpiredTogether ==
    ASSUME Sane, Together, Expired, Clean'
    PROVE  (Waiting /\ FirstSpeed)'
<1> DEFINE b == Pending > 0 \/ got # <<>>
<1>1. /\ alarm /\ pc \in {"answer", "rest"}
      /\ line' = Append(line, <<"reset", speed>>) /\ twice' = (twice \/ b)
      /\ UNCHANGED <<options, pc, steps, wanted, got, speed, wire, queue, chip, short>>
  BY DEF Expired, program
<1>2. twice => twice'
  BY <1>1
<1>3. (Waiting \/ Answered) /\ FirstSpeed
  BY <1>1, <1>2, CleanBefore DEF Together
<1>4. Pending = 0 /\ got = <<>>
  <2>1. ~b
    BY <1>1 DEF Clean
  <2>2. Pending \in Nat
    <3>1. Len(line) \in Nat /\ Len(wire) \in Nat /\ Len(queue) \in Nat
      BY Lengths DEF Sane, Types
    <3> QED
      BY <3>1 DEF Pending, EventLength
  <2> QED
    BY <2>1, <2>2
<1>5. line = <<>> /\ Left = 0
  <2>1. /\ Len(line) \in Nat /\ Len(wire) \in Nat /\ Len(queue) \in Nat
        /\ Len(line) = 0 => line = <<>>
    BY Lengths DEF Sane, Types
  <2>2. Len(line) * 7 + Len(wire) + Len(queue) = 0
    BY <1>4 DEF Pending, EventLength
  <2> QED
    BY <2>1, <2>2 DEF Left
<1>6. Waiting
  <2> SUFFICES ASSUME Answered PROVE FALSE
    BY <1>3
  <2>1. Extra(Head(steps).command) \in Nat /\ wanted \in Nat
    BY <1>1, CommandIs, Lengths
  <2>2. CASE pc = "answer"
    <3>1. Left = wanted + 4 + Extra(Head(steps).command)
      BY <2>2 DEF Answered
    <3> QED
      BY <1>5, <2>1, <3>1
  <2>3. CASE pc = "rest"
    BY <1>4, <2>3 DEF Answered
  <2> QED
    BY <1>1, <2>2, <2>3
<1>7. Head(steps).command = "reset"
  BY <1>1 DEF Sane, Control
<1>8. line' = << <<Head(steps').command, speed'>> >>
  BY <1>1, <1>5, <1>7
<1>9. Waiting'
  BY <1>1, <1>6, <1>8 DEF Waiting
<1>10. FirstSpeed'
  BY <1>1, <1>3 DEF FirstSpeed
<1> QED
  BY <1>9, <1>10

\* The controller answers the one command, at the speed it came with.
LEMMA HearTogether ==
    ASSUME Sane, Together, Hear, Clean', pc \in {"go", "two", "answer", "rest"}
    PROVE  /\ pc \in {"answer", "rest"} /\ FirstSpeed'
           /\ (Waiting \/ Answered)'
<1> DEFINE c == Head(line)[1]
           w == Answer(c)
<1>1. /\ line # <<>> /\ c \in Commands /\ line' = Tail(line)
      /\ UNCHANGED <<program, queue, twice, short>>
      /\ \/ UNCHANGED <<wire, chip>> /\ ~(chip.awake /\ Head(line)[2] = chip.speed)
         \/ /\ wire' = wire \o Bytes(w, chip.speed)
            /\ chip'.speed = CASE c = "baud" -> options.rate
                               [] c = "launch_ram" -> Default
                               [] OTHER -> chip.speed
  BY HearIs
<1>2. UNCHANGED <<options, pc, steps, wanted, got, speed>>
  BY <1>1 DEF program
<1>3. pc \in {"answer", "rest"} /\ Waiting /\ FirstSpeed
  BY <1>1, <1>2, CleanBefore DEF Together, Between, Answered
<1>4. /\ line = << <<Head(steps).command, speed>> >>
      /\ wire = <<>> /\ queue = <<>> /\ got = <<>> /\ pc = "answer" /\ wanted = 3
      /\ chip.speed = speed
  BY <1>1, <1>3 DEF Waiting
<1>5. line' = <<>> /\ c = Head(steps).command
  BY <1>1, <1>4
<1>6. FirstSpeed'
  BY <1>2, <1>3 DEF FirstSpeed
<1>7. CASE UNCHANGED <<wire, chip>>
  <2>1. Waiting'
    BY <1>1, <1>2, <1>4, <1>5, <1>7 DEF Waiting
  <2> QED
    BY <1>3, <1>6, <2>1
<1>8. CASE /\ wire' = wire \o Bytes(w, chip.speed)
           /\ chip'.speed = CASE c = "baud" -> options.rate
                              [] c = "launch_ram" -> Default
                              [] OTHER -> chip.speed
  <2>1. /\ w \in Seq(Byte) /\ w[3] = 4 /\ Len(w) = 7 + Extra(c) /\ Extra(c) \in Nat
    BY <1>1, AnswerIs, Lengths DEF Extra
  <2>2. speed \in Rates
    BY DEF Sane, Types
  <2> HIDE DEF w, c
  <2> DEFINE s == Bytes(w, speed)
  <2>3. /\ s \in Seq(Byte \X Rates) /\ Len(s) = Len(w)
        /\ \A i \in 1 .. Len(w) : s[i] = <<w[i], speed>>
    BY <2>1, <2>2, BytesAre
  <2>4. wire' = s
    <3>1. wire' = <<>> \o s
      BY <1>4, <1>8
    <3> HIDE DEF s
    <3> QED
      BY <2>3, <3>1, ConcatEmptySeq
  <2> HIDE DEF s
  <2>5. SameSpeed'
    BY <1>2, <2>3, <2>4 DEF SameSpeed
  <2>6. Third' = 4
    <3>1. Len(got') = 0 /\ Len(queue') = 0
      BY <1>1, <1>2, <1>4
    <3>2. Third' = wire'[3][1]
      BY <3>1 DEF Third
    <3>3. 3 \in 1 .. Len(w)
      BY <2>1
    <3>4. s[3] = <<w[3], speed>>
      BY <2>3, <3>3
    <3> QED
      BY <2>1, <2>4, <3>2, <3>4
  <2>7. Left' = wanted' + 4 + Extra(Head(steps).command)'
    <3>1. Left' = 0 + (7 + Extra(c)) /\ wanted' = 3 /\ Extra(Head(steps).command)' = Extra(c)
      BY <1>1, <1>2, <1>4, <1>5, <2>1, <2>3, <2>4 DEF Left, Extra
    <3> QED
      BY <2>1, <3>1
  <2>8. chip'.speed = After(Head(steps).command)'
    <3>1. After(Head(steps).command)' = After(c)
      BY <1>2, <1>5 DEF After
    <3>2. CASE c = "baud"
      BY <1>8, <3>1, <3>2 DEF After
    <3>3. CASE c = "launch_ram"
      BY <1>8, <3>1, <3>3 DEF After
    <3>4. CASE c # "baud" /\ c # "launch_ram"
      BY <1>4, <1>8, <3>1, <3>4 DEF After
    <3> QED
      BY <3>2, <3>3, <3>4
  <2>9. Answered'
    BY <1>2, <1>4, <1>5, <2>5, <2>6, <2>7, <2>8 DEF Answered
  <2> QED
    BY <1>3, <1>6, <2>9
<1> QED
  BY <1>1, <1>7, <1>8

\* A byte that arrives is one of those that are left.
LEMMA ArriveTogether ==
    ASSUME Sane, Together, Arrive, Clean', pc \in {"go", "two", "answer", "rest"}
    PROVE  /\ pc \in {"go", "two"} => (Between /\ FirstSpeed)'
           /\ pc \in {"answer", "rest"} => (Answered /\ FirstSpeed)'
<1>1. /\ wire # <<>> /\ wire \in Seq(Byte \X Rates)
      /\ Len(wire') = Len(wire) - 1 /\ Len(wire) \in Nat
      /\ \A i \in 1 .. Len(wire') : i + 1 \in 1 .. Len(wire) /\ wire'[i] = wire[i + 1]
      /\ 1 \in 1 .. Len(wire)
      /\ queue \in Seq(Byte) /\ Len(queue) \in Nat /\ wire[1][1] \in Byte
      /\ UNCHANGED <<program, line, chip, twice, short>>
  BY ArriveIs
<1>2. UNCHANGED <<options, pc, steps, wanted, got, speed>>
  BY <1>1 DEF program
<1>3. /\ pc \in {"go", "two"} => Between /\ FirstSpeed
      /\ pc \in {"answer", "rest"} => Answered /\ FirstSpeed
  BY <1>1, <1>2, CleanBefore DEF Together, Waiting
<1>4. SameSpeed
  BY <1>3 DEF Between, Answered
<1>5. queue' = Append(queue, wire[1][1])
  <2>1. wire[1][2] = speed
    BY <1>1, <1>4 DEF SameSpeed
  <2> QED
    BY <2>1, ArriveIs
<1>6. /\ Len(queue') = Len(queue) + 1 /\ queue'[Len(queue) + 1] = wire[1][1]
      /\ \A i \in 1 .. Len(queue) : queue'[i] = queue[i]
  BY <1>1, <1>5
<1>7. Left' = Left
  BY <1>1, <1>6 DEF Left
<1>8. SameSpeed'
  BY <1>1, <1>2, <1>4 DEF SameSpeed
<1>9. FirstSpeed => FirstSpeed'
  BY <1>2 DEF FirstSpeed
<1>10. pc \in {"go", "two"} => Between'
  BY <1>1, <1>2, <1>3, <1>7, <1>8 DEF Between
<1>11. ASSUME pc \in {"answer", "rest"} PROVE Answered'
  <2> DEFINE e == Extra(Head(steps).command)
  <2>1. e \in Nat /\ UNCHANGED e /\ UNCHANGED After(Head(steps).command)
    BY <1>2, <1>11, CommandIs DEF Extra, After
  <2>2. ASSUME pc = "answer" PROVE Third' = Third
    <3>1. Len(got) + wanted = 3 /\ Len(got) \in Nat /\ wanted \in Nat
      BY <2>2, Lengths
    <3>2. Len(queue) + Len(wire) = wanted + 4 + e
      BY <1>3, <2>2 DEF Answered, Left
    <3> HIDE DEF e
    <3>3. CASE Len(got) >= 3
      BY <1>2, <3>3 DEF Third
    <3>4. CASE Len(got) < 3 /\ Len(got) + Len(queue) >= 3
      <4>1. /\ ~(Len(got) >= 3) /\ 3 - Len(got) \in 1 .. Len(queue)
            /\ Len(got) + Len(queue') >= 3
        BY <1>1, <1>6, <3>1, <3>4
      <4>2. Third = queue[3 - Len(got)]
        BY <3>4, <4>1 DEF Third
      <4>3. Third' = queue'[3 - Len(got)]
        BY <1>2, <4>1 DEF Third
      <4> QED
        BY <1>6, <4>1, <4>2, <4>3
    <3>5. CASE Len(got) + Len(queue) = 2
      <4>1. /\ ~(Len(got) >= 3) /\ ~(Len(got) + Len(queue) >= 3) /\ 3 - Len(got) - Len(queue) = 1
            /\ Len(got) + Len(queue') >= 3 /\ 3 - Len(got) = Len(queue) + 1
        BY <1>1, <1>6, <3>1, <3>5
      <4>2. Third = wire[1][1]
        BY <4>1 DEF Third
      <4>3. Third' = queue'[3 - Len(got)]
        BY <1>2, <4>1 DEF Third
      <4> QED
        BY <1>6, <4>1, <4>2, <4>3
    <3>6. CASE Len(got) + Len(queue) < 2
      <4> DEFINE k == 3 - Len(got) - Len(queue)
      <4>1. /\ ~(Len(got) >= 3) /\ ~(Len(got) + Len(queue) >= 3)
            /\ ~(Len(got) + Len(queue') >= 3) /\ 3 - Len(got) - Len(queue') = k - 1
            /\ k - 1 \in 1 .. Len(wire') /\ (k - 1) + 1 = k
        BY <1>1, <1>6, <2>1, <3>1, <3>2, <3>6
      <4>2. Third = wire[k][1]
        BY <4>1 DEF Third
      <4>3. Third' = wire'[3 - Len(got) - Len(queue')][1]
        BY <1>2, <4>1 DEF Third
      <4> HIDE DEF k
      <4>4. wire'[k - 1] = wire[k]
        BY <1>1, <4>1
      <4> QED
        BY <4>1, <4>2, <4>3, <4>4
    <3> QED
      BY <1>1, <3>1, <3>3, <3>4, <3>5, <3>6
  <2>3. line' = <<>> /\ chip'.speed = After(Head(steps).command)'
    BY <1>1, <1>3, <1>11, <2>1 DEF Answered
  <2>4. pc' = "answer" => Left' = wanted' + 4 + e' /\ Third' = 4
    BY <1>2, <1>3, <1>7, <2>1, <2>2 DEF Answered
  <2>5. pc' = "rest" => Left' = wanted' + e' /\ got' # <<>>
    BY <1>2, <1>3, <1>7, <2>1 DEF Answered
  <2> QED
    BY <1>8, <2>3, <2>4, <2>5 DEF Answered
<1> QED
  BY <1>3, <1>9, <1>10, <1>11

\* Nothing but the controller's start.
LEMMA SameTogether ==
    ASSUME Together, UNCHANGED <<options, steps, wanted, got, speed, line, wire, queue, twice, short>>,
           chip'.speed = chip.speed, pc' = pc \/ (pc \in {"go", "two"} /\ pc' \in {"go", "two", "exit", "serve"})
    PROVE  Together'
<1>1. UNCHANGED <<Left, Third, SameSpeed, FirstSpeed, Clean>>
  BY DEF Left, Third, SameSpeed, FirstSpeed, Clean, Fits
<1>2. \A c : UNCHANGED <<After(c), Extra(c)>>
  BY DEF After, Extra
<1>3. Between => Between'
  BY <1>1 DEF Between
<1>4. pc' = pc /\ Waiting => Waiting'
  BY DEF Waiting
<1>5. pc' = pc /\ Answered => Answered'
  BY <1>1, <1>2 DEF Answered
<1> QED
  BY <1>1, <1>3, <1>4, <1>5 DEF Together

\* Every step.
LEMMA NextTogether ==
    ASSUME Sane, Together, [Next]_vars
    PROVE  Together'
<1>1. CASE ParseOption
  BY <1>1, ParseKeepsSane DEF Together
<1>2. CASE InitUart
  BY <1>2, InitUartTogether
<1>3. CASE HciSendCmd
  <2>1. pc' = "answer"
    BY <1>3 DEF HciSendCmd
  <2> QED
    BY <1>3, <2>1, SendTogether DEF Together
<1>4. CASE ReadSome
  <2>1. pc' = pc /\ pc \in {"answer", "rest"}
    BY <1>4 DEF ReadSome
  <2> QED
    BY <1>4, <2>1, ReadTogether DEF Together
<1>5. CASE ReadEventRest
  <2>1. pc' = "rest"
    BY <1>5 DEF ReadEventRest
  <2> QED
    BY <1>5, <2>1, RestTogether DEF Together
<1>6. CASE ReadEventEnd
  <2>1. pc' = "go"
    BY <1>6 DEF ReadEventEnd
  <2> QED
    BY <1>6, <2>1, EndTogether DEF Together
<1>7. CASE ReadTwo
  <2>1. /\ UNCHANGED <<options, steps, wanted, got, speed, line, wire, queue, twice, short>>
        /\ chip'.speed = chip.speed /\ pc = "go" /\ pc' = "two"
    BY <1>7 DEF ReadTwo, Doing, history
  <2> QED
    BY <2>1, SameTogether
<1>8. CASE ReadTwoEnd
  <2>1. pc' = "go"
    BY <1>8 DEF ReadTwoEnd
  <2> QED
    BY <1>8, <2>1, TwoEndTogether DEF Together
<1>9. CASE TcSetAttr
  <2>1. pc' = "go"
    BY <1>9 DEF TcSetAttr, Doing
  <2> QED
    BY <1>9, <2>1, SpeedTogether DEF Together
<1>10. CASE Finish
  <2>1. /\ UNCHANGED <<options, steps, wanted, got, speed, line, wire, queue, twice, short>>
        /\ chip'.speed = chip.speed /\ pc = "go" /\ pc' \in {"serve", "exit"}
    BY <1>10 DEF Finish, history
  <2> QED
    BY <2>1, SameTogether
<1>11. CASE Expired
  <2>1. pc' = pc /\ pc \in {"answer", "rest"}
    BY <1>11 DEF Expired, program
  <2> QED
    BY <1>11, <2>1, ExpiredTogether DEF Together
<1>12. CASE Hear
  <2>1. pc' = pc
    BY <1>12, HearIs DEF program
  <2> QED
    BY <1>12, <2>1, HearTogether DEF Together
<1>13. CASE Wake
  <2>1. /\ UNCHANGED <<program, line, wire, queue, twice, short>>
        /\ chip' = [chip EXCEPT !.awake = TRUE]
    BY <1>13 DEF Wake, history
  <2>2. chip'.speed = chip.speed
    BY <2>1 DEF Sane, Types
  <2> QED
    BY <2>1, <2>2, SameTogether DEF program
<1>14. CASE Arrive
  <2>1. pc' = pc
    BY <1>14, ArriveIs DEF program
  <2> QED
    BY <1>14, <2>1, ArriveTogether DEF Together
<1>15. CASE UNCHANGED vars
  BY <1>15, SameTogether DEF vars, program, history
<1> QED
  BY <1>1, <1>2, <1>3, <1>4, <1>5, <1>6, <1>7, <1>8, <1>9, <1>10, <1>11, <1>12, <1>13, <1>14,
     <1>15 DEF Next, Host

\* What is on its way, always.
LEMMA TogetherAlways == Spec => []Together
<1>1. Init => Together
  BY DEF Init, Together
<1>2. Sane /\ Together /\ [Next]_vars => Together'
  BY NextTogether
<1> QED
  BY <1>1, <1>2, SaneAlways, PTL DEF Spec

\* InStep: when a command is sent nothing is on its way, and both sides have the same
\* speed, as long as no reset was repeated that the controller had heard and the two
\* bytes came together.
THEOREM AlwaysInStep == Spec => []InStep
<1>1. Sane /\ Together => InStep
  <2> SUFFICES ASSUME Sane, Together, Doing("send"), Fits, ~twice, ~short
               PROVE  /\ line = <<>> /\ wire = <<>> /\ queue = <<>>
                      /\ speed = chip.speed
    BY DEF InStep
  <2>1. pc = "go" /\ steps # <<>> /\ Head(steps).do = "send"
    BY DEF Doing
  <2>2. Between
    BY <2>1 DEF Together, Clean
  <2>3. line = <<>> /\ Left = 0 /\ chip.speed = speed
    BY <2>1, <2>2 DEF Between
  <2> QED
    BY <2>3, Lengths DEF Left
<1> QED
  BY <1>1, SaneAlways, TogetherAlways, PTL

=============================================================================

----------------------- MODULE VpuAccelerator_proofs -----------------------
(***************************************************************************)
(* The accelerator implements BufferExchange, for any number of buffers,   *)
(* framebuffers and sessions and whatever the VPU answers.  The invariant  *)
(* is an account of the buffers the client has lent: each waits in the     *)
(* queue, or its end is posted, or it was lost, and never two of these;    *)
(* and at most one message tells that a flush or reset is done.            *)
(*                                                                         *)
(* A second invariant, VInv, is an account of the framebuffers: how the    *)
(* counters of the wrapper relate to what the VPU does with them (Tally),  *)
(* how often the client can have been asked for pictures (Wanted) and      *)
(* which pictures are the frames the client has to give back (Yours).  A   *)
(* frame a failed call of the VPU kept from the wrapper or from everybody  *)
(* has its place in both (missed, unreturned).  The types, the             *)
(* counter of free framebuffers and the client's pictures follow from it.  *)
(***************************************************************************)
EXTENDS VpuAccelerator, SequenceTheorems, FiniteSetTheorems, WellFoundedInduction, TLAPS

Words == {"end", "provide", "ready", "done"}
Tasks == Words \X (Buffers \cup Int)

Ends(t) == {i \in DOMAIN t : t[i][1] = "end"}
EndIds(t) == {t[i][2] : i \in Ends(t)}
Dones(t) == {i \in DOMAIN t : t[i][1] = "done"}

\* The buffers whose end is told before something is done.
DueOf(t) == {t[i][2] : i \in {j \in Ends(t) : \E k \in Dones(t) : k > j}}

In(q) == {q[i] : i \in DOMAIN q}

\* What is posted, queued, lent and lost fits together.
Accounts(t, q, l, x) ==
    /\ \A i, j \in DOMAIN q : q[i] = q[j] => i = j
    /\ \A i, j \in Ends(t) : t[i][2] = t[j][2] => i = j
    /\ EndIds(t) \cap In(q) = {}
    /\ l \ x = EndIds(t) \cup In(q)
    /\ x \subseteq l

Kinds ==
    /\ tasks \in Seq(Tasks) /\ queue \in Seq(Buffers) /\ lent \subseteq Buffers
    /\ nextId \in Int /\ pictures \subseteq Int

\* Only a flush or a reset the client still waits for is told to be done, once.
Awaited ==
    /\ \A i, j \in Dones(tasks) : i = j
    /\ Dones(tasks) # {} => asked # "none" /\ ~draining
    /\ draining => asked = "flush"

IInv == Kinds /\ Accounts(tasks, queue, lent, lost) /\ Awaited

----------------------------------------------------------------------------
\* Messages

\* What is posted that does not tell that something is done leaves what is due.
LEMMA Posting ==
    ASSUME NEW t \in Seq(Tasks), NEW p \in Seq(Tasks), Dones(p) = {}
    PROVE  /\ t \o p \in Seq(Tasks)
           /\ Ends(t \o p) = Ends(t) \cup {Len(t) + i : i \in Ends(p)}
           /\ EndIds(t \o p) = EndIds(t) \cup EndIds(p)
           /\ Dones(t \o p) = Dones(t)
           /\ DueOf(t \o p) = DueOf(t)
<1> DEFINE u == t \o p
<1>1. /\ u \in Seq(Tasks) /\ Len(u) = Len(t) + Len(p)
      /\ \A i \in 1 .. Len(t) : u[i] = t[i]
      /\ \A i \in 1 .. Len(p) : u[Len(t) + i] = p[i]
  OBVIOUS
<1>2. DOMAIN u = 1 .. Len(u) /\ DOMAIN t = 1 .. Len(t) /\ DOMAIN p = 1 .. Len(p)
  BY <1>1
<1>3. Len(t) \in Nat /\ Len(p) \in Nat
  OBVIOUS
<1>4. \A i \in DOMAIN u : i \in DOMAIN t \/ \E j \in DOMAIN p : i = Len(t) + j
  <2> SUFFICES ASSUME NEW i \in DOMAIN u, i \notin DOMAIN t
               PROVE  \E j \in DOMAIN p : i = Len(t) + j
    OBVIOUS
  <2>1. i - Len(t) \in 1 .. Len(p)
    BY <1>1, <1>2, <1>3
  <2>2. QED  BY <2>1, <1>2, <1>3
<1> HIDE DEF u
<1>5. Dones(u) = Dones(t)
  <2>1. \A i \in DOMAIN t : i \in DOMAIN u /\ u[i] = t[i]
    BY <1>1, <1>2, <1>3
  <2>2. \A j \in DOMAIN p : Len(t) + j \in DOMAIN u /\ u[Len(t) + j] = p[j]
    BY <1>1, <1>2, <1>3
  <2>3. QED  BY <2>1, <2>2, <1>4 DEF Dones
<1>6. Ends(u) = Ends(t) \cup {Len(t) + i : i \in Ends(p)}
  <2>1. \A i \in DOMAIN t : i \in DOMAIN u /\ u[i] = t[i]
    BY <1>1, <1>2, <1>3
  <2>2. \A j \in DOMAIN p : Len(t) + j \in DOMAIN u /\ u[Len(t) + j] = p[j]
    BY <1>1, <1>2, <1>3
  <2>3. QED  BY <2>1, <2>2, <1>4 DEF Ends
<1>7. EndIds(u) = EndIds(t) \cup EndIds(p)
  <2>1. \A i \in Ends(t) : u[i] = t[i]
    BY <1>1, <1>2 DEF Ends
  <2>2. \A i \in Ends(p) : u[Len(t) + i] = p[i]
    BY <1>1, <1>2 DEF Ends
  <2>3. QED  BY <1>6, <2>1, <2>2 DEF EndIds
<1>8. DueOf(u) = DueOf(t)
  <2>1. \A i \in Ends(t) : u[i] = t[i]
    BY <1>1, <1>2 DEF Ends
  <2>2. \A i \in Ends(p), k \in Dones(t) : ~(k > Len(t) + i)
    BY <1>2, <1>3 DEF Ends, Dones
  <2>3. QED  BY <1>5, <1>6, <2>1, <2>2 DEF DueOf
<1>9. QED  BY <1>1, <1>5, <1>6, <1>7, <1>8 DEF u

\* What is due are ends that are posted.
LEMMA DueAreEnds == \A t : DueOf(t) \subseteq EndIds(t)
BY DEF DueOf, EndIds

\* Without a message that something is done nothing is due.
LEMMA NothingDue == \A t : Dones(t) = {} => DueOf(t) = {}
BY DEF DueOf

----------------------------------------------------------------------------
\* One buffer of the queue

\* The forms of what one call of ProcessInput posts.
Forms(input, pics) ==
    {<<>>, End(input), Append(End(input), <<"provide", 0>>)}
    \cup {Append(End(input), <<"ready", id>>) : id \in pics}

\* Whatever the VPU answers, ProcessInput posts the end of the buffer and at most
\* one other message, or nothing.
LEMMA InputForms ==
    ASSUME NEW d, NEW input, NEW pics, NEW ids, NEW r \in ProcessInput(d, input, pics, ids)
    PROVE  r.posted \in Forms(input, pics)
<1>1. PICK a : r \in Processed(a, input, pics, ids)
  BY DEF ProcessInput
<1>2. \/ r = Undecoded(a, ids)
      \/ \E x \in AllocateAndRegister(a.decoder) : r = Informed(x, input, ids)
      \/ r \in ProcessOutput(a, input, pics, ids)
      \/ r = Nothing(a, input, ids)
  BY <1>1 DEF Processed
<1>3. CASE r = Undecoded(a, ids)
  <2>1. r.posted = <<>>
    BY <1>3 DEF Undecoded
  <2>2. QED  BY <2>1 DEF Forms
<1>4. CASE \E x \in AllocateAndRegister(a.decoder) : r = Informed(x, input, ids)
  <2>1. PICK x \in AllocateAndRegister(a.decoder) : r = Informed(x, input, ids)
    BY <1>4
  <2>2. r.posted = IF x.ok THEN Append(End(input), <<"provide", 0>>) ELSE End(input)
    BY <2>1 DEF Informed
  <2>3. QED  BY <2>2 DEF Forms
<1>5. CASE r \in ProcessOutput(a, input, pics, ids)
  <2> DEFINE id == ids[a.frame]
  <2>1. \/ id \in pics /\ \E d2 : r = Sent(d2, input, id, ids)
        \/ \E d2 : r = Unsent(d2, input, ids)
    BY <1>5 DEF ProcessOutput
  <2>2. \/ id \in pics /\ r.posted = Append(End(input), <<"ready", id>>)
        \/ r.posted = End(input)
    BY <2>1 DEF Sent, Unsent
  <2>3. QED  BY <2>2 DEF Forms
<1>6. CASE r = Nothing(a, input, ids)
  <2>1. r.posted = End(input)
    BY <1>6 DEF Nothing
  <2>2. QED  BY <2>1 DEF Forms
<1>7. QED  BY <1>2, <1>3, <1>4, <1>5, <1>6

\* Of a buffer it posts the end of this buffer first, or nothing; of none, no end.
LEMMA FormsEnds ==
    ASSUME NEW b \in Buffers, NEW pics \in SUBSET Int, NEW p \in Forms(<<b>>, pics)
    PROVE  /\ p \in Seq(Tasks) /\ Dones(p) = {}
           /\ p # <<>> => Ends(p) = {1} /\ EndIds(p) = {b}
           /\ p = <<>> => Ends(p) = {} /\ EndIds(p) = {}
<1>1. End(<<b>>) = <<<<"end", b>>>>
  BY DEF End
<1>2. CASE p = <<>>
  BY <1>2 DEF Ends, EndIds, Dones
<1>3. CASE p = <<<<"end", b>>>>
  <2>1. p \in Seq(Tasks) /\ DOMAIN p = {1} /\ p[1] = <<"end", b>>
    BY <1>3 DEF Tasks, Words
  <2>2. Dones(p) = {} /\ Ends(p) = {1}
    BY <2>1 DEF Ends, Dones
  <2>3. EndIds(p) = {b}
    BY <2>1, <2>2 DEF EndIds
  <2>4. QED  BY <2>1, <2>2, <2>3, <1>3
<1>4. ASSUME NEW w \in {"provide", "ready"}, NEW id \in Int,
             p = Append(<<<<"end", b>>>>, <<w, id>>)
      PROVE  /\ p \in Seq(Tasks) /\ Dones(p) = {} /\ p # <<>>
             /\ Ends(p) = {1} /\ EndIds(p) = {b}
  <2> DEFINE e == <<<<"end", b>>>>
             m == <<w, id>>
  <2>1. e \in Seq(Tasks) /\ m \in Tasks /\ Len(e) = 1 /\ e[1] = <<"end", b>>
    BY DEF Tasks, Words
  <2>2. /\ p \in Seq(Tasks) /\ DOMAIN p = {1, 2} /\ p # <<>>
        /\ p[1] = <<"end", b>> /\ p[2] = <<w, id>>
    <3>1. p = Append(e, m)
      BY <1>4
    <3> HIDE DEF e, m
    <3>2. /\ p \in Seq(Tasks) /\ Len(p) = 2 /\ p[1] = e[1] /\ p[2] = m
      BY <2>1, <3>1
    <3>3. DOMAIN p = {1, 2} /\ p # <<>>
      BY <3>2
    <3>4. QED  BY <2>1, <3>2, <3>3 DEF m
  <2>3. Dones(p) = {} /\ Ends(p) = {1}
    BY <2>2 DEF Ends, Dones
  <2>4. EndIds(p) = {b}
    BY <2>2, <2>3 DEF EndIds
  <2>5. QED  BY <2>2, <2>3, <2>4
<1>5. QED  BY <1>1, <1>2, <1>3, <1>4 DEF Forms

\* The account after ProcessQueuedInput: at most one buffer leaves the queue, and
\* then its end is posted or it is lost.
LEMMA QueueStep ==
    ASSUME NEW q \in Seq(Buffers), NEW l \in SUBSET Buffers, NEW pics \in SUBSET Int,
           NEW d, NEW ids, tasks \in Seq(Tasks), Accounts(tasks, q, l, lost),
           ProcessQueuedInput(d, q, pics, ids)
    PROVE  /\ tasks' \in Seq(Tasks) /\ queue' \in Seq(Buffers) /\ pictures' = pics
           /\ Accounts(tasks', queue', l, lost')
           /\ Dones(tasks') = Dones(tasks) /\ DueOf(tasks') = DueOf(tasks)
           /\ \/ lost' = lost
              \/ \E b \in l \ EndIds(tasks) : lost' = lost \cup {b}
<1>0. pictures' = pics
  BY DEF ProcessQueuedInput
<1>1. CASE Waits(d, q, pics)
  <2>1. tasks' = tasks /\ queue' = q /\ lost' = lost
    BY <1>1 DEF ProcessQueuedInput
  <2>2. QED  BY <1>0, <2>1
<1>2. CASE ~Waits(d, q, pics)
  <2>1. PICK r \in ProcessInput(d, <<Head(q)>>, pics, ids) :
            /\ tasks' = tasks \o r.posted
            /\ queue' = Tail(q)
            /\ lost' = IF r.posted = <<>> THEN lost \cup {Head(q)} ELSE lost
    BY <1>2 DEF ProcessQueuedInput, Outcome
  <2>2. q # <<>>
    BY <1>2 DEF Waits
  <2> DEFINE h == Head(q)
  <2>3. /\ h \in Buffers /\ h = q[1] /\ 1 \in DOMAIN q
        /\ Tail(q) \in Seq(Buffers)
        /\ DOMAIN Tail(q) = 1 .. (Len(q) - 1)
        /\ \A i \in DOMAIN Tail(q) : Tail(q)[i] = q[i + 1] /\ i + 1 \in DOMAIN q
        /\ DOMAIN q = 1 .. Len(q) /\ Len(q) \in Nat
    BY <2>2
  <2>4. In(q) = {h} \cup In(Tail(q))
    <3>1. \A i \in DOMAIN q : i = 1 \/ (i - 1 \in DOMAIN Tail(q) /\ q[i] = Tail(q)[i - 1])
      BY <2>3
    <3>2. \A i \in DOMAIN q : q[i] \in {h} \cup In(Tail(q))
      BY <2>3, <3>1 DEF In
    <3>3. \A i \in DOMAIN Tail(q) : Tail(q)[i] \in In(q)
      BY <2>3 DEF In
    <3>4. h \in In(q)
      BY <2>3 DEF In
    <3>5. In(q) \subseteq {h} \cup In(Tail(q))
      BY <3>2 DEF In
    <3>6. In(Tail(q)) \subseteq In(q)
      BY <3>3 DEF In
    <3>7. QED  BY <3>4, <3>5, <3>6
  <2>5. h \notin In(Tail(q))
    BY <2>3 DEF In, Accounts
  <2>6. \A i, j \in DOMAIN Tail(q) : Tail(q)[i] = Tail(q)[j] => i = j
    <3> SUFFICES ASSUME NEW i \in DOMAIN Tail(q), NEW j \in DOMAIN Tail(q),
                        Tail(q)[i] = Tail(q)[j]
                 PROVE  i = j
      OBVIOUS
    <3>1. i + 1 = j + 1
      BY <2>3 DEF Accounts
    <3>2. QED  BY <2>3, <3>1
  <2>7. h \in l \ EndIds(tasks) /\ h \notin lost
    BY <2>4 DEF Accounts
  <2> DEFINE p == r.posted
  <2>8. /\ p \in Seq(Tasks) /\ Dones(p) = {}
        /\ p # <<>> => Ends(p) = {1} /\ EndIds(p) = {h}
        /\ p = <<>> => Ends(p) = {} /\ EndIds(p) = {}
    BY <2>1, <2>3, InputForms, FormsEnds
  <2> HIDE DEF p, h
  <2>9. /\ tasks \o p \in Seq(Tasks)
        /\ Ends(tasks \o p) = Ends(tasks) \cup {Len(tasks) + i : i \in Ends(p)}
        /\ EndIds(tasks \o p) = EndIds(tasks) \cup EndIds(p)
        /\ Dones(tasks \o p) = Dones(tasks)
        /\ DueOf(tasks \o p) = DueOf(tasks)
    BY <2>8, Posting
  <2>10. tasks' = tasks \o p /\ lost' = IF p = <<>> THEN lost \cup {h} ELSE lost
    BY <2>1 DEF p, h
  <2>11. \A i, j \in Ends(tasks') : tasks'[i][2] = tasks'[j][2] => i = j
    <3>1. \A i \in Ends(tasks) : tasks'[i] = tasks[i] /\ i \in 1 .. Len(tasks)
      BY <2>8, <2>10 DEF Ends
    <3>2. CASE p = <<>>
      <4>1. Ends(tasks') = Ends(tasks)
        BY <3>2, <2>8, <2>9, <2>10
      <4>2. QED  BY <3>1, <4>1 DEF Accounts
    <3>3. CASE p # <<>>
      <4>1. Ends(tasks') = Ends(tasks) \cup {Len(tasks) + 1}
        BY <3>3, <2>8, <2>9, <2>10
      <4>2. tasks'[Len(tasks) + 1][2] \notin EndIds(tasks)
        <5>1. 1 \in DOMAIN p /\ p[1][2] = h
          BY <3>3, <2>8 DEF Ends, EndIds
        <5>2. tasks'[Len(tasks) + 1] = p[1]
          BY <5>1, <2>8, <2>10
        <5>3. QED  BY <5>1, <5>2, <2>7
      <4>3. \A i \in Ends(tasks) : tasks'[i][2] \in EndIds(tasks)
        BY <3>1 DEF EndIds
      <4>4. QED  BY <3>1, <4>1, <4>2, <4>3 DEF Accounts
    <3>4. QED  BY <3>2, <3>3
  <2>12. Accounts(tasks', queue', l, lost')
    <3>1. queue' = Tail(q)
      BY <2>1
    <3>2. EndIds(tasks') = EndIds(tasks) \cup EndIds(p)
      BY <2>9, <2>10
    <3>3. EndIds(tasks) \cap In(q) = {} /\ l \ lost = EndIds(tasks) \cup In(q) /\ lost \subseteq l
      BY DEF Accounts
    <3>4. EndIds(tasks') \cap In(queue') = {}
      BY <3>1, <3>2, <3>3, <2>4, <2>5, <2>8
    <3>5. l \ lost' = EndIds(tasks') \cup In(queue') /\ lost' \subseteq l
      <4>1. CASE p = <<>>
        BY <4>1, <3>1, <3>2, <3>3, <2>4, <2>5, <2>7, <2>8, <2>10
      <4>2. CASE p # <<>>
        BY <4>2, <3>1, <3>2, <3>3, <2>4, <2>5, <2>7, <2>8, <2>10
      <4>3. QED  BY <4>1, <4>2
    <3>6. QED  BY <2>6, <2>11, <3>1, <3>4, <3>5 DEF Accounts
  <2>13. queue' \in Seq(Buffers)
    BY <2>1, <2>3
  <2>14. lost' = lost \/ \E b \in l \ EndIds(tasks) : lost' = lost \cup {b}
    BY <2>7, <2>10
  <2>15. QED  BY <1>0, <2>9, <2>10, <2>12, <2>13, <2>14
<1>3. QED  BY <1>1, <1>2

----------------------------------------------------------------------------
\* Other messages

\* A message that something is done makes due every end that is posted before it.
LEMMA PostingDone ==
    ASSUME NEW t \in Seq(Tasks)
    PROVE  LET u == t \o <<<<"done", 0>>>>
           IN  /\ u \in Seq(Tasks)
               /\ Ends(u) = Ends(t) /\ \A i \in Ends(t) : u[i] = t[i]
               /\ EndIds(u) = EndIds(t)
               /\ Dones(u) = Dones(t) \cup {Len(t) + 1}
               /\ DueOf(u) = EndIds(t)
<1> DEFINE u == t \o <<<<"done", 0>>>>
<1>1. <<<<"done", 0>>>> \in Seq(Tasks)
  BY DEF Tasks, Words
<1>2. /\ u \in Seq(Tasks) /\ Len(u) = Len(t) + 1 /\ Len(t) \in Nat
      /\ \A i \in 1 .. Len(t) : u[i] = t[i]
      /\ u[Len(t) + 1] = <<"done", 0>>
  BY <1>1
<1>3. DOMAIN u = 1 .. (Len(t) + 1) /\ DOMAIN t = 1 .. Len(t)
  BY <1>2
<1> HIDE DEF u
<1>4. Ends(u) = Ends(t)
  BY <1>2, <1>3 DEF Ends
<1>5. \A i \in Ends(t) : u[i] = t[i] /\ Len(t) + 1 > i
  BY <1>2, <1>3 DEF Ends
<1>6. EndIds(u) = EndIds(t)
  BY <1>4, <1>5 DEF EndIds
<1>7. Dones(u) = Dones(t) \cup {Len(t) + 1}
  BY <1>2, <1>3 DEF Dones
<1>8. DueOf(u) = EndIds(t)
  BY <1>4, <1>5, <1>7 DEF DueOf, EndIds
<1>9. QED  BY <1>2, <1>4, <1>5, <1>6, <1>7, <1>8 DEF u

\* What is left when the first message has been heard.
LEMMA Heard ==
    ASSUME NEW t \in Seq(Tasks), t # <<>>
    PROVE  LET u == Tail(t)
           IN  /\ u \in Seq(Tasks)
               /\ \A i \in Ends(u) : i + 1 \in Ends(t) /\ u[i] = t[i + 1]
               /\ \A i \in Ends(t) : i = 1 \/ (i - 1 \in Ends(u) /\ u[i - 1] = t[i])
               /\ \A i \in Dones(u) : i + 1 \in Dones(t)
               /\ \A i \in Dones(t) : i = 1 \/ i - 1 \in Dones(u)
               /\ 1 \in DOMAIN t /\ Head(t) = t[1]
               /\ Ends(u) \subseteq Nat \ {0} /\ Ends(t) \subseteq Nat \ {0}
               /\ Dones(u) \subseteq Nat \ {0} /\ Dones(t) \subseteq Nat \ {0}
<1> DEFINE u == Tail(t)
<1>1. /\ u \in Seq(Tasks) /\ Len(u) = Len(t) - 1 /\ Len(t) \in Nat \ {0}
      /\ \A i \in 1 .. Len(u) : u[i] = t[i + 1]
      /\ DOMAIN u = 1 .. (Len(t) - 1) /\ DOMAIN t = 1 .. Len(t)
      /\ Head(t) = t[1]
  OBVIOUS
<1> HIDE DEF u
<1>2. \A i \in DOMAIN u : i + 1 \in DOMAIN t /\ u[i] = t[i + 1]
  BY <1>1
<1>3. \A i \in DOMAIN t : i = 1 \/ (i - 1 \in DOMAIN u /\ u[i - 1] = t[i])
  BY <1>1
<1>4. 1 \in DOMAIN t /\ DOMAIN u \subseteq Nat \ {0} /\ DOMAIN t \subseteq Nat \ {0}
  BY <1>1
<1>5. QED  BY <1>1, <1>2, <1>3, <1>4 DEF Ends, Dones, u

\* The definition of Due in terms of DueOf.
LEMMA DueIs ==
    /\ Due = IF asked # "reset" THEN {} ELSE DueOf(tasks)
    /\ Due' = IF asked' # "reset" THEN {} ELSE DueOf(tasks')
<1>1. DueOf(tasks) = {tasks[i][2] : i \in {j \in DOMAIN tasks :
          tasks[j][1] = "end" /\ \E k \in DOMAIN tasks : k > j /\ tasks[k][1] = "done"}}
  BY DEF DueOf, Ends, Dones
<1>2. DueOf(tasks') = {tasks'[i][2] : i \in {j \in DOMAIN tasks' :
          tasks'[j][1] = "end" /\ \E k \in DOMAIN tasks' : k > j /\ tasks'[k][1] = "done"}}
  BY DEF DueOf, Ends, Dones
<1>3. QED  BY <1>1, <1>2 DEF Due

----------------------------------------------------------------------------
\* The steps: each keeps the account and is a step of BufferExchange, or changes
\* nothing of it.

StepKept == IInv' /\ (Exchange!Next \/ UNCHANGED <<lent, lost, asked, Due>>)

\* A step that leaves the buffers and the messages alone.
LEMMA UntouchedKept ==
    ASSUME IInv, UNCHANGED <<tasks, queue, lent, lost, asked, draining, nextId, pictures>>
    PROVE  StepKept
<1>1. IInv'
  BY DEF IInv, Kinds, Accounts, Awaited
<1>2. UNCHANGED <<lent, lost, asked, Due>>
  BY DueIs
<1>3. QED  BY <1>1, <1>2 DEF StepKept

\* A call that processes one buffer at most, for the calls that lend nothing.
LEMMA ProcessStep ==
    ASSUME IInv, NEW d, NEW ids, NEW pics \in SUBSET Int,
           ProcessQueuedInput(d, queue, pics, ids),
           UNCHANGED lent, nextId' \in Int
    PROVE  /\ Kinds' /\ Accounts(tasks, queue, lent, lost)'
           /\ Dones(tasks') = Dones(tasks) /\ DueOf(tasks') = DueOf(tasks)
           /\ lost' = lost \/ \E b \in lent \ DueOf(tasks) : lost' = lost \cup {b}
<1>1. /\ tasks \in Seq(Tasks) /\ queue \in Seq(Buffers) /\ lent \in SUBSET Buffers
      /\ Accounts(tasks, queue, lent, lost)
  BY DEF IInv, Kinds
<1>2. /\ tasks' \in Seq(Tasks) /\ queue' \in Seq(Buffers) /\ pictures' = pics
      /\ Accounts(tasks', queue', lent, lost')
      /\ Dones(tasks') = Dones(tasks) /\ DueOf(tasks') = DueOf(tasks)
      /\ lost' = lost \/ \E b \in lent \ EndIds(tasks) : lost' = lost \cup {b}
  BY <1>1, QueueStep
<1>3. Kinds'
  BY <1>1, <1>2 DEF Kinds
<1>4. Accounts(tasks, queue, lent, lost)'
  BY <1>2 DEF Accounts
<1>5. lost' = lost \/ \E b \in lent \ DueOf(tasks) : lost' = lost \cup {b}
  BY <1>2, DueAreEnds
<1>6. QED  BY <1>2, <1>3, <1>4, <1>5

\* Decode lends a buffer.
LEMMA DecodeKept ==
    ASSUME IInv, NEW b \in Buffers, Decode(b)
    PROVE  StepKept
<1> DEFINE q == Append(queue, b)
           l == lent \cup {b}
<1>1. /\ b \notin lent /\ lent' = l /\ ProcessQueuedInput(decoder, q, pictures, tags)
      /\ UNCHANGED <<draining, asked, nextId>>
  BY DEF Decode
<1>2. /\ tasks \in Seq(Tasks) /\ queue \in Seq(Buffers) /\ lent \in SUBSET Buffers
      /\ pictures \in SUBSET Int /\ nextId \in Int
      /\ Accounts(tasks, queue, lent, lost)
  BY DEF IInv, Kinds
<1>3. /\ q \in Seq(Buffers) /\ DOMAIN q = DOMAIN queue \cup {Len(queue) + 1}
      /\ Len(queue) + 1 \notin DOMAIN queue
      /\ \A i \in DOMAIN queue : q[i] = queue[i]
      /\ q[Len(queue) + 1] = b
  BY <1>2
<1>4. In(q) = In(queue) \cup {b} /\ l \in SUBSET Buffers
  BY <1>2, <1>3 DEF In
<1>5. b \notin In(queue) /\ b \notin EndIds(tasks) /\ b \notin lost
  BY <1>1, <1>2 DEF Accounts
<1> HIDE DEF q
<1>6. Accounts(tasks, q, l, lost)
  <2>1. \A i, j \in DOMAIN q : q[i] = q[j] => i = j
    BY <1>2, <1>3, <1>5 DEF Accounts, In
  <2>2. EndIds(tasks) \cap In(q) = {} /\ l \ lost = EndIds(tasks) \cup In(q) /\ lost \subseteq l
    BY <1>2, <1>4, <1>5 DEF Accounts
  <2>3. QED  BY <1>2, <2>1, <2>2 DEF Accounts
<1> HIDE DEF l
<1>7. /\ tasks' \in Seq(Tasks) /\ queue' \in Seq(Buffers) /\ pictures' = pictures
      /\ Accounts(tasks', queue', l, lost')
      /\ Dones(tasks') = Dones(tasks) /\ DueOf(tasks') = DueOf(tasks)
      /\ lost' = lost \/ \E x \in l \ EndIds(tasks) : lost' = lost \cup {x}
  BY <1>1, <1>2, <1>3, <1>4, <1>6, QueueStep
<1>8. IInv'
  <2>1. Kinds'
    BY <1>1, <1>2, <1>4, <1>7 DEF Kinds
  <2>2. Accounts(tasks, queue, lent, lost)'
    BY <1>1, <1>7 DEF Accounts
  <2>3. Awaited'
    BY <1>1, <1>7 DEF Awaited, IInv
  <2>4. QED  BY <2>1, <2>2, <2>3 DEF IInv
<1>9. Exchange!Lend(b)
  <2>1. Due' = Due /\ Due \subseteq EndIds(tasks)
    BY <1>1, <1>7, DueIs, DueAreEnds
  <2>2. lost' = lost \/ \E x \in lent' \ Due : lost' = lost \cup {x}
    BY <1>1, <1>7, <2>1
  <2>3. lent' = lent \cup {b}
    BY <1>1 DEF l
  <2>4. QED  BY <1>1, <2>1, <2>2, <2>3 DEF Exchange!Lend, Exchange!MayLose
<1>10. QED  BY <1>8, <1>9 DEF StepKept, Exchange!Next

\* AssignPictureBuffers and ReusePictureBuffer may go on decoding.
LEMMA PicturesKept ==
    ASSUME IInv, AssignPictureBuffers \/ \E p \in held : ReusePictureBuffer(p)
    PROVE  StepKept
<1>1. ASSUME NEW d, NEW ids, NEW pics \in SUBSET Int,
             ProcessQueuedInput(d, queue, pics, ids),
             UNCHANGED <<lent, asked, draining>>, nextId' \in Int
      PROVE  StepKept
  <2>1. /\ Kinds' /\ Accounts(tasks, queue, lent, lost)'
        /\ Dones(tasks') = Dones(tasks) /\ DueOf(tasks') = DueOf(tasks)
        /\ lost' = lost \/ \E b \in lent \ DueOf(tasks) : lost' = lost \cup {b}
    BY <1>1, ProcessStep
  <2>2. Awaited'
    BY <1>1, <2>1 DEF Awaited, IInv
  <2>3. Due' = Due /\ Due \subseteq DueOf(tasks)
    BY <1>1, <2>1, DueIs
  <2>4. Exchange!Work
    BY <1>1, <2>1, <2>3 DEF Exchange!Work, Exchange!MayLose
  <2>5. QED  BY <2>1, <2>2, <2>4 DEF StepKept, IInv, Exchange!Next
<1>2. nextId \in Int /\ pictures \in SUBSET Int
  BY DEF IInv, Kinds
<1>3. CASE AssignPictureBuffers
  <2> DEFINE new == [f \in Framebuffers |-> nextId + f]
             pics == pictures \cup {new[f] : f \in Framebuffers}
  <2>1. /\ ProcessQueuedInput(decoder, queue, pics, new)
        /\ nextId' = nextId + Number /\ UNCHANGED <<lent, asked, draining>>
    BY <1>3 DEF AssignPictureBuffers
  <2>2. pics \in SUBSET Int
    <3>1. \A f \in Framebuffers : new[f] = nextId + f /\ nextId + f \in Int
      BY <1>2, FramebuffersAssumption
    <3> HIDE DEF new
    <3>2. {new[f] : f \in Framebuffers} \subseteq Int
      BY <3>1
    <3>3. QED  BY <1>2, <3>2
  <2>3. Number \in Nat
    BY FramebuffersAssumption, FS_CardinalityType DEF Number
  <2>4. nextId' \in Int
    BY <1>2, <2>1, <2>3
  <2> HIDE DEF new, pics
  <2>5. QED  BY <1>1, <2>1, <2>2, <2>4
<1>4. CASE \E p \in held : ReusePictureBuffer(p)
  <2>1. PICK p \in held : ReusePictureBuffer(p)
    BY <1>4
  <2>2. UNCHANGED <<lent, asked, draining, nextId>>
    BY <2>1 DEF ReusePictureBuffer
  <2>3. CASE \E d : ProcessQueuedInput(d, queue, pictures, tags)
    BY <1>1, <1>2, <2>2, <2>3
  <2>4. CASE UNCHANGED <<queue, pictures, tasks, lost>>
    <3>1. UNCHANGED <<tasks, queue, lent, lost, nextId, pictures, draining, asked>>
      BY <2>2, <2>4
    <3>2. QED  BY <3>1, UntouchedKept
  <2>5. \/ \E d : ProcessQueuedInput(d, queue, pictures, tags)
        \/ UNCHANGED <<queue, pictures, tasks, lost>>
    BY <2>1 DEF ReusePictureBuffer
  <2>6. QED  BY <2>3, <2>4, <2>5
<1>5. QED  BY <1>3, <1>4

\* Flush asks for the message that it is done, which its loop posts when it ends.
LEMMA FlushKept ==
    ASSUME IInv, Flush
    PROVE  StepKept
<1>1. /\ ~draining /\ asked = "none" /\ asked' = "flush" /\ draining' = TRUE
      /\ ProcessQueuedInput(decoder, queue, pictures, tags)
      /\ UNCHANGED <<lent, nextId>>
  BY DEF Flush, Running
<1>2. pictures \in SUBSET Int /\ nextId' \in Int
  BY <1>1 DEF IInv, Kinds
<1>3. /\ Kinds' /\ Accounts(tasks, queue, lent, lost)'
      /\ Dones(tasks') = Dones(tasks)
      /\ lost' = lost \/ \E b \in lent \ DueOf(tasks) : lost' = lost \cup {b}
  BY <1>1, <1>2, ProcessStep
<1>4. Dones(tasks) = {}
  BY <1>1 DEF IInv, Awaited
<1>5. Awaited'
  BY <1>1, <1>3, <1>4 DEF Awaited
<1>6. Due = {} /\ Due' = {}
  BY <1>1, DueIs
<1>7. Exchange!Flush
  BY <1>1, <1>3, <1>6 DEF Exchange!Flush, Exchange!MayLose
<1>8. QED  BY <1>3, <1>5, <1>7 DEF StepKept, IInv, Exchange!Next

\* Of no buffer ProcessInput posts no end.
LEMMA FormsEmpty ==
    ASSUME NEW pics \in SUBSET Int, NEW p \in Forms(<<>>, pics)
    PROVE  p \in Seq(Tasks) /\ Dones(p) = {} /\ Ends(p) = {} /\ EndIds(p) = {}
<1>1. End(<<>>) = <<>>
  BY DEF End
<1>2. CASE p = <<>>
  BY <1>2 DEF Ends, EndIds, Dones
<1>3. ASSUME NEW w \in {"provide", "ready"}, NEW id \in Int, p = Append(<<>>, <<w, id>>)
      PROVE  p \in Seq(Tasks) /\ Dones(p) = {} /\ Ends(p) = {} /\ EndIds(p) = {}
  <2> DEFINE m == <<w, id>>
  <2>1. m \in Tasks /\ m[1] = w
    BY DEF Tasks, Words
  <2>2. p = Append(<<>>, m)
    BY <1>3
  <2> HIDE DEF m
  <2>3. p \in Seq(Tasks) /\ DOMAIN p = {1} /\ p[1] = m
    BY <2>1, <2>2
  <2>4. Dones(p) = {} /\ Ends(p) = {}
    BY <2>1, <2>3 DEF Ends, Dones
  <2>5. QED  BY <2>3, <2>4 DEF EndIds
<1>4. \/ p = <<>> \/ p = Append(<<>>, <<"provide", 0>>)
      \/ \E id \in pics : p = Append(<<>>, <<"ready", id>>)
  BY <1>1 DEF Forms
<1>5. "provide" \in {"provide", "ready"} /\ "ready" \in {"provide", "ready"} /\ 0 \in Int
  OBVIOUS
<1>6. CASE p = Append(<<>>, <<"provide", 0>>)
  BY <1>3, <1>5, <1>6
<1>7. CASE \E id \in pics : p = Append(<<>>, <<"ready", id>>)
  <2>1. PICK id \in pics : p = Append(<<>>, <<"ready", id>>)
    BY <1>7
  <2>2. id \in Int
    OBVIOUS
  <2>3. QED  BY <1>3, <1>5, <2>1, <2>2
<1>8. QED  BY <1>2, <1>4, <1>6, <1>7

\* The loop of Flush ends no buffer; when it ends it posts the message it owes.
LEMMA DrainKept ==
    ASSUME IInv, Drain
    PROVE  StepKept
<1>1. PICK r \in ProcessInput(decoder, <<>>, pictures, tags) :
          /\ draining' = r.ok
          /\ tasks' = tasks \o r.posted \o IF r.ok THEN <<>> ELSE <<<<"done", 0>>>>
  BY DEF Drain
<1>2. draining /\ UNCHANGED <<queue, pictures, lent, asked, nextId, lost>>
  BY DEF Drain, client
<1>3. /\ tasks \in Seq(Tasks) /\ pictures \in SUBSET Int
      /\ Accounts(tasks, queue, lent, lost)
  BY DEF IInv, Kinds
<1>4. asked = "flush" /\ Dones(tasks) = {}
  BY <1>2 DEF IInv, Awaited
<1> DEFINE p == r.posted
           mid == tasks \o p
<1>5. p \in Seq(Tasks) /\ Dones(p) = {} /\ Ends(p) = {} /\ EndIds(p) = {}
  BY <1>3, InputForms, FormsEmpty
<1> HIDE DEF p
<1>6. /\ mid \in Seq(Tasks) /\ Ends(mid) = Ends(tasks) /\ EndIds(mid) = EndIds(tasks)
      /\ Dones(mid) = {}
      /\ \A i \in Ends(tasks) : mid[i] = tasks[i]
  <2>1. /\ mid \in Seq(Tasks)
        /\ Ends(mid) = Ends(tasks) \cup {Len(tasks) + i : i \in Ends(p)}
        /\ EndIds(mid) = EndIds(tasks) \cup EndIds(p)
        /\ Dones(mid) = Dones(tasks)
    BY <1>3, <1>5, Posting
  <2>2. \A i \in Ends(tasks) : mid[i] = tasks[i]
    BY <1>3, <1>5 DEF Ends
  <2>3. QED  BY <1>4, <1>5, <2>1, <2>2
<1>7. tasks' = mid \o IF r.ok THEN <<>> ELSE <<<<"done", 0>>>>
  BY <1>1 DEF p
<1> HIDE DEF mid
<1>8. /\ tasks' \in Seq(Tasks)
      /\ Ends(tasks') = Ends(tasks) /\ EndIds(tasks') = EndIds(tasks)
      /\ \A i \in Ends(tasks) : tasks'[i] = tasks[i]
      /\ r.ok => Dones(tasks') = {}
      /\ ~r.ok => Dones(tasks') = {Len(mid) + 1}
  <2>1. CASE r.ok
    <3>1. tasks' = mid
      BY <1>6, <1>7, <2>1
    <3>2. QED  BY <1>6, <2>1, <3>1
  <2>2. CASE ~r.ok
    <3>1. tasks' = mid \o <<<<"done", 0>>>>
      BY <1>7, <2>2
    <3>2. QED  BY <1>6, <2>2, <3>1, PostingDone
  <2>3. QED  BY <2>1, <2>2
<1>9. Accounts(tasks, queue, lent, lost)'
  <2>1. \A i, j \in Ends(tasks') : tasks'[i][2] = tasks'[j][2] => i = j
    BY <1>3, <1>8 DEF Accounts
  <2>2. QED  BY <1>2, <1>3, <1>8, <2>1 DEF Accounts
<1>10. Awaited'
  BY <1>1, <1>2, <1>4, <1>8 DEF Awaited
<1>11. Kinds'
  BY <1>2, <1>8 DEF Kinds, IInv
<1>12. UNCHANGED <<lent, lost, asked, Due>>
  BY <1>2, <1>4, DueIs
<1>13. QED  BY <1>9, <1>10, <1>11, <1>12 DEF StepKept, IInv

\* Reset gives back what is queued, and then tells that it is done.
LEMMA ResetKept ==
    ASSUME IInv, Reset
    PROVE  StepKept
<1> DEFINE e == [i \in DOMAIN queue |-> <<"end", queue[i]>>]
           mid == tasks \o e
<1>1. /\ ~draining /\ asked = "none" /\ asked' = "reset"
      /\ queue' = <<>> /\ tasks' = mid \o <<<<"done", 0>>>>
      /\ UNCHANGED <<pictures, draining, lent, nextId, lost>>
  BY DEF Reset, Running
<1>2. /\ tasks \in Seq(Tasks) /\ queue \in Seq(Buffers)
      /\ Accounts(tasks, queue, lent, lost)
  BY DEF IInv, Kinds
<1>3. Dones(tasks) = {}
  BY <1>1 DEF IInv, Awaited
<1>4. /\ e \in Seq(Tasks) /\ DOMAIN e = DOMAIN queue
      /\ \A i \in DOMAIN queue : e[i] = <<"end", queue[i]>>
  <2>1. DOMAIN queue = 1 .. Len(queue) /\ Len(queue) \in Nat
    BY <1>2
  <2>2. \A i \in DOMAIN queue : <<"end", queue[i]>> \in Tasks
    BY <1>2 DEF Tasks, Words
  <2>3. QED  BY <2>1, <2>2
<1> HIDE DEF e
<1>5. Dones(e) = {} /\ Ends(e) = DOMAIN queue
  <2>1. \A i \in DOMAIN e : e[i][1] = "end" /\ e[i][1] # "done"
    BY <1>4
  <2>2. QED  BY <1>4, <2>1 DEF Dones, Ends
<1>6. EndIds(e) = In(queue)
  BY <1>4, <1>5 DEF EndIds, In
<1>7. /\ mid \in Seq(Tasks)
      /\ Ends(mid) = Ends(tasks) \cup {Len(tasks) + i : i \in DOMAIN queue}
      /\ EndIds(mid) = EndIds(tasks) \cup In(queue)
      /\ Dones(mid) = {}
  BY <1>2, <1>3, <1>4, <1>5, <1>6, Posting
<1>8. /\ \A i \in Ends(tasks) : mid[i] = tasks[i]
      /\ \A i \in DOMAIN queue : mid[Len(tasks) + i] = e[i]
  BY <1>2, <1>4 DEF Ends
<1> HIDE DEF mid
<1>9. \A i, j \in Ends(mid) : mid[i][2] = mid[j][2] => i = j
  <2>1. \A i \in Ends(tasks) : mid[i][2] \in EndIds(tasks)
    BY <1>8 DEF EndIds
  <2>2. \A i \in DOMAIN queue : mid[Len(tasks) + i][2] = queue[i] /\ queue[i] \in In(queue)
    BY <1>4, <1>8 DEF In
  <2>3. EndIds(tasks) \cap In(queue) = {}
    BY <1>2 DEF Accounts
  <2>4. \A i, j \in Ends(tasks) : mid[i][2] = mid[j][2] => i = j
    BY <1>2, <1>8 DEF Accounts
  <2>5. \A i, j \in DOMAIN queue :
            mid[Len(tasks) + i][2] = mid[Len(tasks) + j][2] => i = j
    BY <1>2, <2>2 DEF Accounts
  <2>6. \A i \in Ends(tasks), j \in DOMAIN queue : mid[i][2] # mid[Len(tasks) + j][2]
    BY <2>1, <2>2, <2>3
  <2>7. \A i \in Ends(mid) : i \in Ends(tasks) \/ \E j \in DOMAIN queue : i = Len(tasks) + j
    BY <1>7
  <2>8. QED  BY <2>4, <2>5, <2>6, <2>7
<1>10. /\ tasks' \in Seq(Tasks)
       /\ Ends(tasks') = Ends(mid) /\ \A i \in Ends(mid) : tasks'[i] = mid[i]
       /\ EndIds(tasks') = EndIds(mid)
       /\ Dones(tasks') = {Len(mid) + 1}
       /\ DueOf(tasks') = EndIds(mid)
  BY <1>1, <1>7, PostingDone
<1>11. lent \ lost = EndIds(tasks) \cup In(queue) /\ lost \subseteq lent
  BY <1>2 DEF Accounts
<1>12. Accounts(tasks, queue, lent, lost)'
  <2>1. \A i, j \in Ends(tasks') : tasks'[i][2] = tasks'[j][2] => i = j
    BY <1>9, <1>10
  <2>2. DOMAIN queue' = {} /\ In(queue') = {}
    BY <1>1 DEF In
  <2>3. QED  BY <1>1, <1>7, <1>10, <1>11, <2>1, <2>2 DEF Accounts
<1>13. Kinds' /\ Awaited'
  BY <1>1, <1>10 DEF Kinds, Awaited, IInv
<1>14. Due' = lent \ lost
  BY <1>1, <1>7, <1>10, <1>11, DueIs
<1>15. Exchange!Reset
  BY <1>1, <1>14 DEF Exchange!Reset
<1>16. QED  BY <1>12, <1>13, <1>15 DEF StepKept, IInv, Exchange!Next

\* What the client hears is gone from what is due, and nothing else.
LEMMA HeardDue ==
    ASSUME NEW t \in Seq(Tasks), t # <<>>,
           \A i, j \in Ends(t) : t[i][2] = t[j][2] => i = j
    PROVE  LET u == Tail(t)
           IN  /\ 1 \in Ends(t) => /\ EndIds(u) = EndIds(t) \ {t[1][2]}
                                   /\ DueOf(u) = DueOf(t) \ {t[1][2]}
               /\ 1 \notin Ends(t) => EndIds(u) = EndIds(t)
               /\ 1 \notin Ends(t) /\ 1 \notin Dones(t) => DueOf(u) = DueOf(t)
<1> DEFINE u == Tail(t)
<1>1. /\ \A i \in Ends(u) : i + 1 \in Ends(t) /\ u[i] = t[i + 1]
      /\ \A i \in Ends(t) : i = 1 \/ (i - 1 \in Ends(u) /\ u[i - 1] = t[i])
      /\ \A i \in Dones(u) : i + 1 \in Dones(t)
      /\ \A i \in Dones(t) : i = 1 \/ i - 1 \in Dones(u)
      /\ Ends(u) \subseteq Nat \ {0} /\ Ends(t) \subseteq Nat \ {0}
      /\ Dones(u) \subseteq Nat \ {0} /\ Dones(t) \subseteq Nat \ {0}
  BY Heard
<1> HIDE DEF u
<1>2. \A x \in EndIds(u) : x \in EndIds(t) /\ (1 \in Ends(t) => x # t[1][2])
  <2> SUFFICES ASSUME NEW i \in Ends(u)
               PROVE  u[i][2] \in EndIds(t) /\ (1 \in Ends(t) => u[i][2] # t[1][2])
    BY DEF EndIds
  <2>1. i + 1 \in Ends(t) /\ u[i] = t[i + 1] /\ i + 1 # 1
    BY <1>1
  <2>2. QED  BY <2>1 DEF EndIds
<1>3. \A x \in EndIds(t) : x \in EndIds(u) \/ (1 \in Ends(t) /\ x = t[1][2])
  <2> SUFFICES ASSUME NEW i \in Ends(t)
               PROVE  t[i][2] \in EndIds(u) \/ (1 \in Ends(t) /\ t[i][2] = t[1][2])
    BY DEF EndIds
  <2>1. i = 1 \/ (i - 1 \in Ends(u) /\ u[i - 1] = t[i])
    BY <1>1
  <2>2. QED  BY <2>1 DEF EndIds
<1>4. \A x \in DueOf(u) : x \in DueOf(t)
  <2> SUFFICES ASSUME NEW i \in Ends(u), NEW k \in Dones(u), k > i
               PROVE  u[i][2] \in DueOf(t)
    BY DEF DueOf
  <2>1. i + 1 \in Ends(t) /\ u[i] = t[i + 1] /\ k + 1 \in Dones(t) /\ k + 1 > i + 1
    BY <1>1
  <2>2. QED  BY <2>1 DEF DueOf
<1>5. \A x \in DueOf(t) : x \in DueOf(u) \/ (1 \in Ends(t) /\ x = t[1][2])
  <2> SUFFICES ASSUME NEW i \in Ends(t), NEW k \in Dones(t), k > i
               PROVE  t[i][2] \in DueOf(u) \/ (1 \in Ends(t) /\ t[i][2] = t[1][2])
    BY DEF DueOf
  <2>1. CASE i = 1
    BY <2>1
  <2>2. CASE i # 1
    <3>1. k # 1
      BY <1>1, <2>2
    <3>2. i - 1 \in Ends(u) /\ u[i - 1] = t[i] /\ k - 1 \in Dones(u) /\ k - 1 > i - 1
      BY <1>1, <2>2, <3>1
    <3>3. QED  BY <3>2 DEF DueOf
  <2>3. QED  BY <2>1, <2>2
<1>6. DueOf(u) \subseteq EndIds(u)
  BY DueAreEnds
<1>7. QED  BY <1>2, <1>3, <1>4, <1>5, <1>6 DEF u

\* The client hears of the first message.
LEMMA HearKept ==
    ASSUME IInv, NotifyEndOfBitstreamBuffer \/ ProvidePictureBuffers
                 \/ PictureReady \/ NotifyDone
    PROVE  StepKept
<1> DEFINE head == Head(tasks)
<1>1. /\ tasks # <<>> /\ tasks' = Tail(tasks) /\ ~draining
      /\ UNCHANGED <<queue, pictures, draining, nextId, lost>>
  BY DEF NotifyEndOfBitstreamBuffer, ProvidePictureBuffers, PictureReady, NotifyDone,
         Hear, accelerator
<1>2. /\ tasks \in Seq(Tasks) /\ Accounts(tasks, queue, lent, lost)
      /\ \A i, j \in Dones(tasks) : i = j
  BY DEF IInv, Kinds, Awaited
<1>3. \A i, j \in Ends(tasks) : tasks[i][2] = tasks[j][2] => i = j
  BY <1>2 DEF Accounts
<1>4. /\ tasks' \in Seq(Tasks)
      /\ \A i \in Ends(tasks') : i + 1 \in Ends(tasks) /\ tasks'[i] = tasks[i + 1]
      /\ \A i \in Dones(tasks') : i + 1 \in Dones(tasks)
      /\ 1 \in DOMAIN tasks /\ head = tasks[1]
      /\ Ends(tasks') \subseteq Nat \ {0} /\ Ends(tasks) \subseteq Nat \ {0}
      /\ Dones(tasks') \subseteq Nat \ {0} /\ Dones(tasks) \subseteq Nat \ {0}
  BY <1>1, <1>2, Heard
<1> HIDE DEF head
<1>5. \A i, j \in Ends(tasks') : tasks'[i][2] = tasks'[j][2] => i = j
  <2> SUFFICES ASSUME NEW i \in Ends(tasks'), NEW j \in Ends(tasks'),
                      tasks'[i][2] = tasks'[j][2]
               PROVE  i = j
    OBVIOUS
  <2>1. i + 1 = j + 1
    BY <1>3, <1>4
  <2>2. QED  BY <1>4, <2>1
<1>6. /\ \A i, j \in Dones(tasks') : i = j
      /\ Dones(tasks') # {} => Dones(tasks) # {}
  <2>1. \A i, j \in Dones(tasks') : i + 1 = j + 1
    BY <1>2, <1>4
  <2>2. QED  BY <1>4, <2>1
<1>7. /\ 1 \in Ends(tasks) => /\ EndIds(tasks') = EndIds(tasks) \ {head[2]}
                              /\ DueOf(tasks') = DueOf(tasks) \ {head[2]}
      /\ 1 \notin Ends(tasks) => EndIds(tasks') = EndIds(tasks)
      /\ 1 \notin Ends(tasks) /\ 1 \notin Dones(tasks) => DueOf(tasks') = DueOf(tasks)
  BY <1>1, <1>2, <1>3, <1>4, HeardDue
<1>8. CASE NotifyEndOfBitstreamBuffer
  <2> DEFINE b == head[2]
  <2>1. head[1] = "end" /\ lent' = lent \ {b} /\ UNCHANGED asked
    BY <1>8 DEF NotifyEndOfBitstreamBuffer, Hear, head
  <2>2. 1 \in Ends(tasks)
    BY <1>4, <2>1 DEF Ends
  <2>3. b \in EndIds(tasks)
    BY <1>4, <2>2 DEF EndIds
  <2> HIDE DEF b
  <2>4. EndIds(tasks') = EndIds(tasks) \ {b} /\ DueOf(tasks') = DueOf(tasks) \ {b}
    BY <1>7, <2>2 DEF b
  <2>5. /\ EndIds(tasks) \cap In(queue) = {} /\ lost \subseteq lent
        /\ lent \ lost = EndIds(tasks) \cup In(queue)
    BY <1>2 DEF Accounts
  <2>6. b \in lent \ lost /\ b \in Buffers
    BY <2>3, <2>5 DEF IInv, Kinds
  <2>7. Accounts(tasks, queue, lent, lost)'
    <3>1. EndIds(tasks') \cap In(queue) = {}
      BY <2>4, <2>5
    <3>2. lent' \ lost = EndIds(tasks') \cup In(queue) /\ lost \subseteq lent'
      BY <2>1, <2>3, <2>4, <2>5, <2>6
    <3>3. QED  BY <1>1, <1>2, <1>5, <3>1, <3>2 DEF Accounts
  <2>8. Kinds' /\ Awaited'
    BY <1>1, <1>4, <1>6, <2>1 DEF IInv, Kinds, Awaited
  <2>9. Due' = Due \ {b}
    BY <2>1, <2>4, DueIs
  <2>10. Exchange!Return(b)
    BY <1>1, <2>1, <2>6, <2>9 DEF Exchange!Return
  <2>11. QED  BY <2>6, <2>7, <2>8, <2>10 DEF StepKept, IInv, Exchange!Next
<1>9. CASE ProvidePictureBuffers \/ PictureReady
  <2>1. head[1] \in {"provide", "ready"} /\ UNCHANGED <<lent, asked>>
    BY <1>9 DEF ProvidePictureBuffers, PictureReady, Hear, head
  <2>2. 1 \notin Ends(tasks) /\ 1 \notin Dones(tasks)
    BY <1>4, <2>1 DEF Ends, Dones
  <2>3. EndIds(tasks') = EndIds(tasks) /\ DueOf(tasks') = DueOf(tasks)
    BY <1>7, <2>2
  <2>4. Accounts(tasks, queue, lent, lost)'
    BY <1>1, <1>2, <1>5, <2>1, <2>3 DEF Accounts
  <2>5. Kinds' /\ Awaited'
    BY <1>1, <1>4, <1>6, <2>1 DEF IInv, Kinds, Awaited
  <2>6. UNCHANGED <<lent, lost, asked, Due>>
    BY <1>1, <2>1, <2>3, DueIs
  <2>7. QED  BY <2>4, <2>5, <2>6 DEF StepKept, IInv
<1>10. CASE NotifyDone
  <2>1. head[1] = "done" /\ asked' = "none" /\ UNCHANGED lent
    BY <1>10 DEF NotifyDone, Hear, head
  <2>2. 1 \in Dones(tasks) /\ 1 \notin Ends(tasks)
    BY <1>4, <2>1 DEF Ends, Dones
  <2>3. Dones(tasks) = {1} /\ Dones(tasks') = {}
    <3>1. Dones(tasks) = {1}
      BY <1>2, <2>2
    <3>2. \A i \in Dones(tasks') : i + 1 = 1 /\ i \in Nat \ {0}
      BY <1>4, <3>1
    <3>3. QED  BY <3>1, <3>2
  <2>4. DueOf(tasks) = {}
    <3>1. \A i \in Ends(tasks), k \in Dones(tasks) : ~(k > i)
      BY <1>4, <2>3
    <3>2. QED  BY <3>1 DEF DueOf
  <2>5. asked # "none" /\ Due = {} /\ Due' = {}
    BY <2>1, <2>3, <2>4, DueIs DEF IInv, Awaited
  <2>6. Accounts(tasks, queue, lent, lost)'
    BY <1>1, <1>2, <1>5, <1>7, <2>1, <2>2 DEF Accounts
  <2>7. Kinds' /\ Awaited'
    BY <1>1, <1>4, <2>1, <2>3 DEF IInv, Kinds, Awaited
  <2>8. Exchange!Done
    BY <1>1, <2>1, <2>5 DEF Exchange!Done
  <2>9. QED  BY <2>6, <2>7, <2>8 DEF StepKept, IInv, Exchange!Next
<1>11. QED  BY <1>8, <1>9, <1>10

\* Destroy ends it all, for this session; others do not matter.
LEMMA SessionsKept ==
    ASSUME IInv, NEW s \in Sessions, InitializeSession(s) \/ DestroySession(s)
    PROVE  StepKept
<1>1. CASE InitializeSession(s)
  <2>1. UNCHANGED <<tasks, queue, lent, lost, asked, draining, nextId, pictures>>
    BY <1>1 DEF InitializeSession, accelerator, client
  <2>2. QED  BY <2>1, UntouchedKept
<1>2. CASE DestroySession(s) /\ s # Me
  <2>1. UNCHANGED <<tasks, queue, lent, lost, asked, draining, nextId, pictures>>
    BY <1>2 DEF DestroySession, accelerator, client
  <2>2. QED  BY <2>1, UntouchedKept
<1>3. CASE DestroySession(s) /\ s = Me
  <2>1. /\ queue' = <<>> /\ tasks' = <<>> /\ pictures' = {} /\ lent' = {} /\ lost' = {}
        /\ asked' = "none" /\ ~draining /\ UNCHANGED <<draining, nextId>>
    BY <1>3 DEF DestroySession
  <2>2. Ends(<<>>) = {} /\ EndIds(<<>>) = {} /\ Dones(<<>>) = {} /\ In(<<>>) = {}
    BY DEF Ends, EndIds, Dones, In
  <2>3. Kinds' /\ Awaited'
    BY <2>1, <2>2 DEF IInv, Kinds, Awaited
  <2>4. Accounts(tasks, queue, lent, lost)'
    BY <2>1, <2>2 DEF Accounts
  <2>5. Due' = {}
    BY <2>1, DueIs
  <2>6. Exchange!Destroy
    BY <2>1, <2>5 DEF Exchange!Destroy
  <2>7. QED  BY <2>3, <2>4, <2>6 DEF StepKept, IInv, Exchange!Next
<1>4. QED  BY <1>1, <1>2, <1>3

----------------------------------------------------------------------------
\* All of them.
LEMMA NextKept ==
    ASSUME IInv, [Next]_vars
    PROVE  StepKept
<1>1. CASE Next
  BY <1>1, DecodeKept, PicturesKept, FlushKept, DrainKept, ResetKept, HearKept,
     SessionsKept DEF Next
<1>2. CASE UNCHANGED vars
  <2>1. UNCHANGED <<tasks, queue, lent, lost, asked, draining, nextId, pictures>>
    BY <1>2 DEF vars, accelerator, client
  <2>2. QED  BY <2>1, UntouchedKept
<1>3. QED  BY <1>1, <1>2

\* At first nothing is lent.
LEMMA InitKept ==
    ASSUME Init
    PROVE  IInv /\ Exchange!Init
<1>1. /\ queue = <<>> /\ tasks = <<>> /\ pictures = {} /\ lent = {} /\ lost = {}
      /\ asked = "none" /\ draining = FALSE /\ nextId = 0
  BY DEF Init
<1>2. Ends(<<>>) = {} /\ EndIds(<<>>) = {} /\ Dones(<<>>) = {} /\ In(<<>>) = {}
  BY DEF Ends, EndIds, Dones, In
<1>3. Kinds /\ Awaited
  BY <1>1, <1>2 DEF Kinds, Awaited
<1>4. Accounts(tasks, queue, lent, lost)
  BY <1>1, <1>2 DEF Accounts
<1>5. Due = {}
  BY <1>1, DueIs
<1>6. QED  BY <1>1, <1>3, <1>4, <1>5 DEF IInv, Exchange!Init

\* The account is always right: a buffer the client has lent is queued, or its end
\* is on the way, or it was lost, and never two of these; and a flush or reset
\* that is done is told once, to a client that waits for it.
THEOREM AccountAlways == Spec => []IInv
<1>1. Init => IInv
  BY InitKept
<1>2. IInv /\ [Next]_vars => IInv'
  BY NextKept DEF StepKept
<1>3. QED  BY <1>1, <1>2, PTL DEF Spec

\* The accelerator implements BufferExchange, for every number of buffers,
\* framebuffers, sessions, changes of the resolution and failed calls: KeepsPromise.
THEOREM Implements == Spec => KeepsPromise
<1>1. Init => Exchange!Init
  BY InitKept
<1>2. IInv /\ [Next]_vars => [Exchange!Next]_(Exchange!exchange)
  BY NextKept DEF StepKept, Exchange!exchange
<1>3. QED  BY <1>1, <1>2, AccountAlways, PTL DEF Spec, KeepsPromise, Exchange!Spec

----------------------------------------------------------------------------
\* The framebuffers and their decoder

\* What the VPU does with a framebuffer.
States == {"free", "decoded", "shown"}

\* What vpu_decoder_ can be.
Decoders ==
    [ codec : Codecs, vpu : {"opened", "info", "registered"},
      frames : [Framebuffers -> States],
      framebuffers : BOOLEAN, userData : BOOLEAN, recalculate : BOOLEAN,
      available : Int, decremented : Int, inUse : Int,
      crashed : BOOLEAN, changes : Nat, flushed : BOOLEAN,
      missed : Nat, unreturned : SUBSET Framebuffers ]

\* How many framebuffers are in a state.
Many(d, state) == Cardinality(Are(d, state))

\* Each framebuffer is in one of the three states.
LEMMA AllStates ==
    ASSUME NEW d, d.frames \in [Framebuffers -> States]
    PROVE  /\ Number \in Nat
           /\ \A s \in States : IsFiniteSet(Are(d, s)) /\ Many(d, s) \in Nat
           /\ Many(d, "free") + Many(d, "decoded") + Many(d, "shown") = Number
           /\ \A s \in States : Many(d, s) = 0 <=> Are(d, s) = {}
           /\ Are(d, "free") = Framebuffers
                  => Are(d, "decoded") = {} /\ Are(d, "shown") = {}
<1>1. IsFiniteSet(Framebuffers) /\ Number \in Nat
  BY FramebuffersAssumption, FS_CardinalityType DEF Number
<1>2. \A s \in States : IsFiniteSet(Are(d, s)) /\ Many(d, s) \in Nat
  <2> SUFFICES ASSUME NEW s \in States
               PROVE  IsFiniteSet(Are(d, s)) /\ Many(d, s) \in Nat
    OBVIOUS
  <2>1. Are(d, s) \in SUBSET Framebuffers
    BY DEF Are
  <2>2. IsFiniteSet(Are(d, s))
    BY <1>1, <2>1, FS_Subset
  <2>3. QED  BY <2>2, FS_CardinalityType DEF Many
<1> DEFINE A == Are(d, "free")
           B == Are(d, "decoded")
           C == Are(d, "shown")
<1>3. A \cap B = {} /\ (A \cup B) \cap C = {} /\ (A \cup B) \cup C = Framebuffers
  BY DEF Are, States
<1>4. IsFiniteSet(A) /\ IsFiniteSet(B) /\ IsFiniteSet(C)
  BY <1>2 DEF States
<1> HIDE DEF A, B, C
<1>5. IsFiniteSet(A \cup B) /\ Cardinality(A \cup B) = Cardinality(A) + Cardinality(B)
  <2>1. Cardinality(A \cap B) = 0
    BY <1>3, FS_EmptySet
  <2>2. Cardinality(A) \in Nat /\ Cardinality(B) \in Nat
    BY <1>4, FS_CardinalityType
  <2>3. /\ IsFiniteSet(A \cup B)
        /\ Cardinality(A \cup B) = Cardinality(A) + Cardinality(B) - Cardinality(A \cap B)
    BY <1>4, FS_Union
  <2>4. QED  BY <2>1, <2>2, <2>3
<1>6. Cardinality((A \cup B) \cup C) = Cardinality(A) + Cardinality(B) + Cardinality(C)
  <2>1. Cardinality((A \cup B) \cap C) = 0
    BY <1>3, FS_EmptySet
  <2>2. /\ Cardinality(A) \in Nat /\ Cardinality(B) \in Nat /\ Cardinality(C) \in Nat
    BY <1>4, FS_CardinalityType
  <2>3. Cardinality((A \cup B) \cup C)
            = Cardinality(A \cup B) + Cardinality(C) - Cardinality((A \cup B) \cap C)
    BY <1>4, <1>5, FS_Union
  <2>4. QED  BY <1>5, <2>1, <2>2, <2>3
<1>7. \A s \in States : Many(d, s) = 0 <=> Are(d, s) = {}
  BY <1>2, FS_EmptySet DEF Many
<1>8. Many(d, "free") + Many(d, "decoded") + Many(d, "shown") = Number
  BY <1>3, <1>6 DEF Many, Number, A, B, C
<1>9. Are(d, "free") = Framebuffers => Are(d, "decoded") = {} /\ Are(d, "shown") = {}
  BY DEF Are
<1>10. QED  BY <1>1, <1>2, <1>7, <1>8, <1>9

\* A framebuffer goes from one state to another.
LEMMA Moved ==
    ASSUME NEW d \in Decoders, NEW f \in Framebuffers, NEW t \in States, d.frames[f] # t
    PROVE  LET e == Set(d, f, t)
           IN  /\ e = [d EXCEPT !.frames = [d.frames EXCEPT ![f] = t]]
               /\ e.frames \in [Framebuffers -> States]
               /\ \A s \in States \ {t} : Are(e, s) = Are(d, s) \ {f}
               /\ Are(e, t) = Are(d, t) \cup {f}
               /\ Many(e, t) = Many(d, t) + 1
               /\ \A s \in States \ {t} :
                    Many(e, s) = IF d.frames[f] = s THEN Many(d, s) - 1 ELSE Many(d, s)
<1> DEFINE e == Set(d, f, t)
<1>1. e = [d EXCEPT !.frames = [d.frames EXCEPT ![f] = t]] /\ d.frames \in [Framebuffers -> States]
  BY DEF Set, Decoders
<1>2. e.frames = [d.frames EXCEPT ![f] = t]
  BY <1>1 DEF Decoders
<1> HIDE DEF e
<1>3. e.frames \in [Framebuffers -> States]
  BY <1>1, <1>2
<1>4. \A s \in States \ {t} : Are(e, s) = Are(d, s) \ {f}
  BY <1>1, <1>2 DEF Are
<1>5. Are(e, t) = Are(d, t) \cup {f}
  BY <1>1, <1>2 DEF Are
<1>6. \A s \in States : IsFiniteSet(Are(d, s))
  BY <1>1, AllStates
<1>7. f \notin Are(d, t) /\ \A s \in States : f \in Are(d, s) <=> d.frames[f] = s
  BY DEF Are
<1>8. Many(e, t) = Many(d, t) + 1
  BY <1>5, <1>6, <1>7, FS_AddElement DEF Many
<1>9. \A s \in States \ {t} :
         Many(e, s) = IF d.frames[f] = s THEN Many(d, s) - 1 ELSE Many(d, s)
  BY <1>4, <1>6, <1>7, FS_RemoveElement DEF Many
<1>10. QED  BY <1>1, <1>3, <1>4, <1>5, <1>8, <1>9 DEF e

----------------------------------------------------------------------------
\* The counters while a buffer is decoded

\* How many frames changes of the resolution, and calls that failed, may have
\* left in use.
Leaked(d) == Number * d.changes + d.missed

\* The counters are right but for p frames the VPU has taken and q it shows that
\* have not been counted yet, and for those that never will be.
Tally(d, p, q) ==
    /\ Many(d, "decoded") + Many(d, "shown") <= d.decremented + p + d.missed
    /\ 0 <= d.decremented /\ d.decremented <= Number
    /\ Many(d, "shown") <= d.inUse + q + d.missed
    /\ d.inUse + q <= Many(d, "shown") + Leaked(d)
    /\ Many(d, "decoded") + d.inUse + q <= d.decremented + p + Leaked(d)
    /\ d.available <= Many(d, "free") + p + d.missed
    /\ 0 <= d.available + Leaked(d)
    /\ d.recalculate => /\ p <= Many(d, "decoded") + q
                        /\ Many(d, "decoded") + Many(d, "shown") <= d.inUse + p + d.missed
    /\ ~d.recalculate => p <= d.available + Leaked(d)
    /\ d.vpu = "registered" /\ d.changes + d.missed = 0 /\ ~d.recalculate /\ ~d.flushed
           => d.available = Many(d, "free") + p

\* What the counting leaves alone.
Alike(d, e) ==
    /\ e.codec = d.codec /\ e.vpu = d.vpu /\ e.frames = d.frames /\ e.changes = d.changes
    /\ e.framebuffers = d.framebuffers /\ e.userData = d.userData
    /\ e.missed = d.missed /\ e.unreturned = d.unreturned

\* It leaves the framebuffers as they are.
LEMMA AlikeMany ==
    ASSUME NEW d, NEW e, Alike(d, e)
    PROVE  /\ \A s \in States : Are(e, s) = Are(d, s) /\ Many(e, s) = Many(d, s)
           /\ Leaked(e) = Leaked(d)
BY DEF Alike, Are, Many, Leaked

\* One more change of the resolution may leave all frames in use.
LEMMA LeakedType ==
    ASSUME NEW d \in Decoders
    PROVE  /\ Leaked(d) \in Nat /\ d.missed \in Nat /\ d.changes \in Nat
           /\ d.missed <= Leaked(d)
           /\ d.changes + d.missed = 0 => Leaked(d) = 0
           /\ Number * (d.changes + 1) + d.missed = Leaked(d) + Number
<1>1. Number \in Nat /\ d.changes \in Nat /\ d.missed \in Nat
  BY FramebuffersAssumption, FS_CardinalityType DEF Number, Decoders
<1>2. \A n, c \in Nat : n * c \in Nat /\ n * 0 = 0 /\ n * (c + 1) = n * c + n
  OBVIOUS
<1>3. Number * d.changes \in Nat /\ Number * (d.changes + 1) = Number * d.changes + Number
  BY <1>1, <1>2
<1>4. d.changes + d.missed = 0 => Number * d.changes = 0 /\ d.missed = 0
  BY <1>1, <1>2
<1>5. QED  BY <1>1, <1>3, <1>4 DEF Leaked

\* One field of a decoder is given another value.
LEMMA Assigned ==
    ASSUME NEW d \in Decoders
    PROVE  /\ \A x \in Int : [d EXCEPT !.available = x] \in Decoders
           /\ \A x \in Int : [d EXCEPT !.decremented = x] \in Decoders
           /\ \A x \in Int : [d EXCEPT !.inUse = x] \in Decoders
           /\ \A x \in Nat : [d EXCEPT !.changes = x] \in Decoders
           /\ \A x \in BOOLEAN : [d EXCEPT !.recalculate = x] \in Decoders
           /\ \A x \in BOOLEAN : [d EXCEPT !.framebuffers = x] \in Decoders
           /\ \A x \in BOOLEAN : [d EXCEPT !.userData = x] \in Decoders
           /\ \A x \in BOOLEAN : [d EXCEPT !.crashed = x] \in Decoders
           /\ \A x \in BOOLEAN : [d EXCEPT !.flushed = x] \in Decoders
           /\ \A x \in Nat : [d EXCEPT !.missed = x] \in Decoders
           /\ \A x \in SUBSET Framebuffers : [d EXCEPT !.unreturned = x] \in Decoders
           /\ \A x \in {"opened", "info", "registered"} : [d EXCEPT !.vpu = x] \in Decoders
           /\ \A x \in [Framebuffers -> States] : [d EXCEPT !.frames = x] \in Decoders
BY DEF Decoders

\* The numbers the counters are compared with.
LEMMA Numbers ==
    ASSUME NEW d \in Decoders
    PROVE  /\ Number \in Nat /\ Leaked(d) \in Nat
           /\ Many(d, "free") \in Nat /\ Many(d, "decoded") \in Nat /\ Many(d, "shown") \in Nat
           /\ Many(d, "free") + Many(d, "decoded") + Many(d, "shown") = Number
           /\ d.available \in Int /\ d.decremented \in Int /\ d.inUse \in Int
           /\ d.missed \in Nat /\ d.changes \in Nat
<1>1. d.frames \in [Framebuffers -> States]
  BY DEF Decoders
<1>2. /\ Number \in Nat
      /\ \A s \in States : Many(d, s) \in Nat
      /\ Many(d, "free") + Many(d, "decoded") + Many(d, "shown") = Number
  BY <1>1, AllStates
<1>3. Leaked(d) \in Nat /\ d.missed \in Nat /\ d.changes \in Nat
  BY LeakedType
<1>4. d.available \in Int /\ d.decremented \in Int /\ d.inUse \in Int
  BY DEF Decoders
<1>5. QED  BY <1>2, <1>3, <1>4 DEF States

\* The counter is calculated again.
LEMMA Recalculated ==
    ASSUME NEW d \in Decoders, NEW p \in 0 .. 1, NEW q \in 0 .. 1, Tally(d, p, q)
    PROVE  LET e == Recalculate(d)
           IN  /\ e \in Decoders /\ Alike(d, e) /\ e.crashed = d.crashed
               /\ ~e.recalculate /\ e.flushed = d.flushed
               /\ Tally(e, p, q)
<1> DEFINE e == Recalculate(d)
<1>1. /\ Number \in Nat /\ d.frames \in [Framebuffers -> States]
      /\ \A s \in States : Many(d, s) \in Nat
      /\ Many(d, "free") + Many(d, "decoded") + Many(d, "shown") = Number
  BY AllStates DEF Decoders
<1>2. /\ Leaked(d) \in Nat /\ d.missed \in Nat /\ d.changes \in Nat
      /\ d.changes + d.missed = 0 => Leaked(d) = 0 /\ d.missed = 0
  BY LeakedType
<1>3. CASE ~d.recalculate
  BY <1>3 DEF Recalculate, Alike
<1>4. CASE d.recalculate
  <2> DEFINE g == [d EXCEPT !.available = Number - d.inUse]
  <2>0. e = [g EXCEPT !.recalculate = FALSE]
    BY <1>4 DEF Recalculate
  <2>1. /\ e \in Decoders /\ Alike(d, e) /\ e.crashed = d.crashed
        /\ ~e.recalculate /\ e.flushed = d.flushed
        /\ e.available = Number - d.inUse
        /\ e.decremented = d.decremented /\ e.inUse = d.inUse
    <3>1. Number - d.inUse \in Int
      BY <1>1 DEF Decoders
    <3>2. g \in Decoders /\ Alike(d, g) /\ g.crashed = d.crashed
          /\ g.flushed = d.flushed /\ g.available = Number - d.inUse
          /\ g.decremented = d.decremented /\ g.inUse = d.inUse
      <4>1. g \in Decoders
        BY <3>1, Assigned
      <4>2. QED  BY <4>1 DEF Decoders, Alike
    <3> HIDE DEF g, e
    <3>3. e \in Decoders
      BY <3>2, <2>0, Assigned
    <3>4. QED  BY <3>2, <3>3, <2>0 DEF Decoders, Alike
  <2> HIDE DEF e
  <2>2. /\ \A s \in States : Many(e, s) = Many(d, s)
        /\ Leaked(e) = Leaked(d) /\ e.vpu = d.vpu /\ e.changes = d.changes
        /\ e.missed = d.missed
    BY <2>1, AlikeMany DEF Alike
  <2>3. d.inUse \in Int /\ d.decremented \in Int
    BY DEF Decoders
  <2>4. /\ p <= Many(d, "decoded") + q
        /\ Many(d, "decoded") + Many(d, "shown") <= d.inUse + p + d.missed
        /\ Many(d, "shown") <= d.inUse + q + d.missed
        /\ d.inUse + q <= Many(d, "shown") + Leaked(d)
    BY <1>4 DEF Tally
  <2>5. /\ Many(d, "free") \in Nat /\ Many(d, "decoded") \in Nat /\ Many(d, "shown") \in Nat
    BY <1>1 DEF States
  <2>6. e.available <= Many(d, "free") + p + d.missed
    BY <1>1, <1>2, <2>1, <2>3, <2>4, <2>5
  <2>7. p <= e.available + Leaked(d) /\ 0 <= e.available + Leaked(d)
    BY <1>1, <1>2, <2>1, <2>3, <2>4, <2>5
  <2>8. d.changes + d.missed = 0 => e.available = Many(d, "free") + p
    BY <1>1, <1>2, <2>1, <2>3, <2>4, <2>5
  <2>9. Tally(e, p, q)
    BY <2>1, <2>2, <2>6, <2>7, <2>8 DEF Tally, States
  <2>10. QED  BY <2>1, <2>9 DEF e
<1>5. QED  BY <1>3, <1>4

\* A frame that was taken is counted.
LEMMA Decremented ==
    ASSUME NEW d \in Decoders, NEW q \in 0 .. 1, Tally(d, 1, q), ~d.recalculate
    PROVE  LET e == Decrement(d)
           IN  /\ e \in Decoders /\ Alike(d, e) /\ e.crashed = d.crashed
               /\ ~e.recalculate /\ e.flushed = d.flushed
               /\ Tally(e, 0, q)
<1> DEFINE e == Decrement(d)
<1>1. /\ Number \in Nat /\ d.frames \in [Framebuffers -> States]
      /\ \A s \in States : Many(d, s) \in Nat
      /\ Many(d, "free") + Many(d, "decoded") + Many(d, "shown") = Number
  BY AllStates DEF Decoders
<1>2. Leaked(d) \in Nat /\ d.missed \in Nat /\ d.changes \in Nat
  BY LeakedType
<1>3. /\ e \in Decoders /\ Alike(d, e) /\ e.crashed = d.crashed
      /\ e.recalculate = d.recalculate /\ e.flushed = d.flushed
      /\ e.available = d.available - 1 /\ e.inUse = d.inUse
      /\ e.decremented = IF d.decremented < Number THEN d.decremented + 1 ELSE d.decremented
  <2> DEFINE g == [d EXCEPT !.available = d.available - 1]
             more == IF d.decremented < Number THEN d.decremented + 1 ELSE d.decremented
  <2>1. d.available - 1 \in Int /\ more \in Int
    BY <1>1 DEF Decoders
  <2>2. /\ g \in Decoders /\ Alike(d, g) /\ g.crashed = d.crashed
        /\ g.recalculate = d.recalculate /\ g.flushed = d.flushed
        /\ g.available = d.available - 1 /\ g.inUse = d.inUse
        /\ g.decremented = d.decremented
    <3>1. g \in Decoders
      BY <2>1, Assigned
    <3>2. QED  BY <3>1 DEF Decoders, Alike
  <2>3. e = [g EXCEPT !.decremented = more]
    BY <2>2 DEF Decrement
  <2> HIDE DEF g, e, more
  <2>4. e \in Decoders
    BY <2>1, <2>2, <2>3, Assigned
  <2>5. e.decremented = more
    BY <2>2, <2>3 DEF Decoders
  <2>6. QED  BY <2>2, <2>3, <2>4, <2>5 DEF Decoders, Alike, more
<1> HIDE DEF e
<1>4. /\ \A s \in States : Many(e, s) = Many(d, s)
      /\ Leaked(e) = Leaked(d) /\ e.vpu = d.vpu /\ e.changes = d.changes
      /\ e.missed = d.missed
  BY <1>3, AlikeMany DEF Alike
<1>5. d.inUse \in Int /\ d.decremented \in Int /\ d.available \in Int
  BY DEF Decoders
<1>6. Tally(e, 0, q)
  BY <1>1, <1>2, <1>3, <1>4, <1>5 DEF Tally, States
<1>7. QED  BY <1>3, <1>6 DEF e

\* A frame is fetched.
LEMMA Fetched ==
    ASSUME NEW d \in Decoders, NEW p \in 0 .. 1, Tally(d, p, 1), ~d.recalculate \/ p = 0
    PROVE  LET e == [d EXCEPT !.inUse = @ + 1]
           IN  /\ e \in Decoders /\ Alike(d, e) /\ e.crashed = d.crashed
               /\ e.recalculate = d.recalculate /\ e.flushed = d.flushed
               /\ Tally(e, p, 0)
<1> DEFINE e == [d EXCEPT !.inUse = @ + 1]
<1>1. /\ Number \in Nat /\ d.frames \in [Framebuffers -> States]
      /\ \A s \in States : Many(d, s) \in Nat
  BY AllStates DEF Decoders
<1>2. Leaked(d) \in Nat /\ d.missed \in Nat /\ d.changes \in Nat
  BY LeakedType
<1>3. /\ e \in Decoders /\ Alike(d, e) /\ e.crashed = d.crashed
      /\ e.recalculate = d.recalculate /\ e.flushed = d.flushed
      /\ e.available = d.available /\ e.inUse = d.inUse + 1
      /\ e.decremented = d.decremented
  BY DEF Decoders, Alike
<1> HIDE DEF e
<1>4. /\ \A s \in States : Many(e, s) = Many(d, s)
      /\ Leaked(e) = Leaked(d) /\ e.vpu = d.vpu /\ e.changes = d.changes
      /\ e.missed = d.missed
  BY <1>3, AlikeMany DEF Alike
<1>5. d.inUse \in Int /\ d.decremented \in Int /\ d.available \in Int
  BY DEF Decoders
<1>6. Tally(e, p, 0)
  BY <1>1, <1>2, <1>3, <1>4, <1>5 DEF Tally, States
<1>7. QED  BY <1>3, <1>6 DEF e

\* The frames nobody gives back are shown, and the VPU's failures are bounded.
Within(d) == d.unreturned \subseteq Are(d, "shown") /\ d.changes + d.missed <= MaxUpsets

\* e is d but for the counters, and for the frames of F, which are not owed any more.
LeftAs(d, e, F) ==
    /\ e \in Decoders
    /\ e.codec = d.codec /\ e.vpu = d.vpu /\ e.changes = d.changes
    /\ e.framebuffers = d.framebuffers /\ e.userData = d.userData
    /\ e.crashed = d.crashed
    /\ Are(e, "decoded") = Are(d, "decoded") /\ Are(d, "free") \subseteq Are(e, "free")
    /\ Owed(e) = Owed(d) \ F
    /\ Within(e) /\ Tally(e, 0, 0)

\* A call fails: what it was to count is not counted, and of F nobody hears.
LEMMA Overlooked ==
    ASSUME NEW d \in Decoders, NEW p \in 0 .. 1, NEW q \in 0 .. 1, Tally(d, p, q),
           ~d.recalculate \/ p = 0, Within(d), Upsets(d) < MaxUpsets,
           NEW F \in SUBSET Are(d, "shown")
    PROVE  LeftAs(d, Missing(d, F), F)
<1> DEFINE g == [d EXCEPT !.missed = d.missed + 1]
           U == d.unreturned \cup F
           e == [g EXCEPT !.unreturned = U]
<1>1. /\ Leaked(d) \in Nat /\ d.missed \in Nat /\ d.changes \in Nat /\ Number \in Nat
      /\ Many(d, "free") \in Nat /\ Many(d, "decoded") \in Nat /\ Many(d, "shown") \in Nat
      /\ d.available \in Int /\ d.decremented \in Int /\ d.inUse \in Int
  BY LeakedType, Numbers
<1>2. d.missed + 1 \in Nat /\ U \in SUBSET Framebuffers
  BY <1>1 DEF Are, Decoders
<1>3. g \in Decoders
  BY <1>2, Assigned
<1>4. e = Missing(d, F)
  BY <1>3 DEF Missing, Decoders
<1>5. /\ g.codec = d.codec /\ g.vpu = d.vpu /\ g.changes = d.changes /\ g.frames = d.frames
      /\ g.framebuffers = d.framebuffers /\ g.userData = d.userData /\ g.crashed = d.crashed
      /\ g.recalculate = d.recalculate /\ g.flushed = d.flushed
      /\ g.available = d.available /\ g.decremented = d.decremented /\ g.inUse = d.inUse
      /\ g.missed = d.missed + 1
  BY DEF Decoders
<1> HIDE DEF g, U
<1>6. e \in Decoders
  BY <1>2, <1>3, Assigned
<1>7. /\ e.codec = d.codec /\ e.vpu = d.vpu /\ e.changes = d.changes /\ e.frames = d.frames
      /\ e.framebuffers = d.framebuffers /\ e.userData = d.userData /\ e.crashed = d.crashed
      /\ e.recalculate = d.recalculate /\ e.flushed = d.flushed
      /\ e.available = d.available /\ e.decremented = d.decremented /\ e.inUse = d.inUse
      /\ e.missed = d.missed + 1 /\ e.unreturned = U
  BY <1>3, <1>5 DEF Decoders
<1> HIDE DEF e
<1>8. /\ \A t \in States : Are(e, t) = Are(d, t) /\ Many(e, t) = Many(d, t)
      /\ Leaked(e) = Leaked(d) + 1
  <2>1. Leaked(e) = Number * d.changes + (d.missed + 1) /\ Number * d.changes \in Int
    BY <1>1, <1>7 DEF Leaked
  <2>2. QED  BY <1>1, <1>7, <2>1 DEF Are, Many, Leaked
<1>9. Tally(e, 0, 0)
  BY <1>1, <1>7, <1>8 DEF Tally, States
<1>10. Within(e) /\ Owed(e) = Owed(d) \ F
  <2>1. e.changes + e.missed <= MaxUpsets
    BY <1>1, <1>7, FramebuffersAssumption DEF Upsets
  <2>2. Are(e, "shown") = Are(d, "shown")
    BY <1>8 DEF States
  <2>3. e.unreturned \subseteq Are(d, "shown")
    BY <1>7 DEF Within, U
  <2>4. Owed(e) = Owed(d) \ F
    BY <1>7, <2>2 DEF Owed, U
  <2>5. QED  BY <2>1, <2>2, <2>3, <2>4 DEF Within
<1>11. LeftAs(d, e, F)
  BY <1>6, <1>7, <1>8, <1>9, <1>10 DEF LeftAs, States
<1>12. QED  BY <1>4, <1>11

\* The frame is refused: nobody gives it back any more.
LEMMA Refused ==
    ASSUME NEW d \in Decoders, Tally(d, 0, 0), Within(d), NEW f \in Are(d, "shown")
    PROVE  LeftAs(d, [d EXCEPT !.unreturned = @ \cup {f}], {f})
<1> DEFINE U == d.unreturned \cup {f}
           e == [d EXCEPT !.unreturned = U]
<1>1. U \in SUBSET Framebuffers
  BY DEF Are, Decoders
<1>2. e \in Decoders
  BY <1>1, Assigned
<1>3. /\ e.codec = d.codec /\ e.vpu = d.vpu /\ e.changes = d.changes /\ e.frames = d.frames
      /\ e.framebuffers = d.framebuffers /\ e.userData = d.userData /\ e.crashed = d.crashed
      /\ e.recalculate = d.recalculate /\ e.flushed = d.flushed
      /\ e.available = d.available /\ e.decremented = d.decremented /\ e.inUse = d.inUse
      /\ e.missed = d.missed /\ e.unreturned = U
  BY DEF Decoders
<1> HIDE DEF e
<1>4. /\ \A t \in States : Are(e, t) = Are(d, t) /\ Many(e, t) = Many(d, t)
      /\ Leaked(e) = Leaked(d)
  BY <1>3 DEF Are, Many, Leaked
<1>5. Tally(e, 0, 0)
  BY <1>3, <1>4 DEF Tally, States
<1>6. Within(e) /\ Owed(e) = Owed(d) \ {f}
  BY <1>3, <1>4 DEF Within, Owed, States
<1>7. LeftAs(d, e, {f})
  BY <1>2, <1>3, <1>4, <1>5, <1>6 DEF LeftAs, States
<1>8. QED  BY <1>7 DEF e

\* A frame that is shown is given back: it is counted, if one was counted before.
LEMMA Displayed ==
    ASSUME NEW d \in Decoders, Tally(d, 0, 0), Within(d), NEW f \in Are(d, "shown")
    PROVE  LeftAs(d, Returned(d, f), {f})
<1> DEFINE e == Returned(d, f)
           g == Set(d, f, "free")
           U == d.unreturned \ {f}
           h == [g EXCEPT !.unreturned = U]
<1>1. f \in Framebuffers /\ d.frames[f] = "shown" /\ f \notin Are(d, "decoded")
  BY DEF Are
<1>2. /\ g = [d EXCEPT !.frames = [d.frames EXCEPT ![f] = "free"]]
      /\ g.frames \in [Framebuffers -> States]
      /\ Are(g, "decoded") = Are(d, "decoded") \ {f}
      /\ Are(g, "shown") = Are(d, "shown") \ {f}
      /\ Are(g, "free") = Are(d, "free") \cup {f}
      /\ Many(g, "free") = Many(d, "free") + 1
      /\ Many(g, "decoded") = Many(d, "decoded")
      /\ Many(g, "shown") = Many(d, "shown") - 1
  BY <1>1, Moved DEF States
<1>3. /\ Number \in Nat /\ Leaked(d) \in Nat /\ d.missed \in Nat /\ d.changes \in Nat
      /\ Many(d, "free") \in Nat /\ Many(d, "decoded") \in Nat /\ Many(d, "shown") \in Nat
      /\ d.available \in Int /\ d.decremented \in Int /\ d.inUse \in Int
  BY LeakedType, Numbers
<1>4. Many(g, "shown") \in Nat
  BY <1>2, AllStates DEF States
<1>5. U \in SUBSET Framebuffers
  BY DEF Decoders
<1>6. g \in Decoders
  <2>1. [d.frames EXCEPT ![f] = "free"] \in [Framebuffers -> States]
    BY <1>1 DEF Decoders, States
  <2>2. QED  BY <1>2, <2>1 DEF Decoders
<1>7. /\ g.codec = d.codec /\ g.vpu = d.vpu /\ g.changes = d.changes
      /\ g.framebuffers = d.framebuffers /\ g.userData = d.userData
      /\ g.crashed = d.crashed /\ g.recalculate = d.recalculate
      /\ g.flushed = d.flushed /\ g.available = d.available /\ g.inUse = d.inUse
      /\ g.decremented = d.decremented /\ g.missed = d.missed
      /\ g.unreturned = d.unreturned
  BY <1>2 DEF Decoders
<1>8. e = IF d.decremented > 0
          THEN [h EXCEPT !.available = @ + 1, !.decremented = @ - 1, !.inUse = @ - 1]
          ELSE h
  BY <1>7 DEF Returned
<1> HIDE DEF g, e
<1>9. h \in Decoders
  BY <1>5, <1>6, Assigned
<1>10. /\ h.codec = d.codec /\ h.vpu = d.vpu /\ h.changes = d.changes
       /\ h.framebuffers = d.framebuffers /\ h.userData = d.userData
       /\ h.crashed = d.crashed /\ h.recalculate = d.recalculate
       /\ h.flushed = d.flushed /\ h.available = d.available /\ h.inUse = d.inUse
       /\ h.decremented = d.decremented /\ h.missed = d.missed
       /\ h.unreturned = U /\ h.frames = g.frames
  BY <1>6, <1>7 DEF Decoders
<1> HIDE DEF h
<1>11. /\ e \in Decoders
       /\ e.codec = d.codec /\ e.vpu = d.vpu /\ e.changes = d.changes
       /\ e.framebuffers = d.framebuffers /\ e.userData = d.userData
       /\ e.crashed = d.crashed /\ e.recalculate = d.recalculate
       /\ e.flushed = d.flushed /\ e.missed = d.missed
       /\ e.unreturned = U /\ e.frames = g.frames
       /\ e.available = IF d.decremented > 0 THEN d.available + 1 ELSE d.available
       /\ e.decremented = IF d.decremented > 0 THEN d.decremented - 1 ELSE d.decremented
       /\ e.inUse = IF d.decremented > 0 THEN d.inUse - 1 ELSE d.inUse
  <2>1. CASE ~(d.decremented > 0)
    BY <1>8, <1>9, <1>10, <2>1
  <2>2. CASE d.decremented > 0
    <3> DEFINE i == [h EXCEPT !.available = d.available + 1]
               k == [i EXCEPT !.decremented = d.decremented - 1]
    <3>1. d.available + 1 \in Int /\ d.decremented - 1 \in Int /\ d.inUse - 1 \in Int
      BY <1>3
    <3>2. e = [k EXCEPT !.inUse = d.inUse - 1]
      BY <1>8, <1>9, <1>10, <2>2 DEF Decoders
    <3>3. i \in Decoders
      BY <1>9, <3>1, Assigned
    <3>5. /\ i.codec = d.codec /\ i.vpu = d.vpu /\ i.changes = d.changes
          /\ i.framebuffers = d.framebuffers /\ i.userData = d.userData
          /\ i.crashed = d.crashed /\ i.recalculate = d.recalculate
          /\ i.flushed = d.flushed /\ i.missed = d.missed
          /\ i.unreturned = U /\ i.frames = g.frames /\ i.available = d.available + 1
          /\ i.decremented = d.decremented /\ i.inUse = d.inUse
      BY <1>9, <1>10 DEF Decoders
    <3> HIDE DEF i
    <3>6. k \in Decoders
      BY <3>1, <3>3, Assigned
    <3>7. /\ k.codec = d.codec /\ k.vpu = d.vpu /\ k.changes = d.changes
          /\ k.framebuffers = d.framebuffers /\ k.userData = d.userData
          /\ k.crashed = d.crashed /\ k.recalculate = d.recalculate
          /\ k.flushed = d.flushed /\ k.missed = d.missed
          /\ k.unreturned = U /\ k.frames = g.frames /\ k.available = d.available + 1
          /\ k.decremented = d.decremented - 1 /\ k.inUse = d.inUse
      BY <3>3, <3>5 DEF Decoders
    <3> HIDE DEF k
    <3>8. e \in Decoders
      BY <3>1, <3>2, <3>6, Assigned
    <3>9. QED  BY <2>2, <3>2, <3>6, <3>7, <3>8 DEF Decoders
  <2>3. QED  BY <2>1, <2>2
<1>12. /\ \A t \in States : Many(e, t) = Many(g, t) /\ Are(e, t) = Are(g, t)
       /\ Leaked(e) = Leaked(d)
  BY <1>11 DEF Are, Many, Leaked
<1>13. Tally(e, 0, 0)
  <2>1. /\ Many(e, "free") = Many(d, "free") + 1 /\ Many(e, "decoded") = Many(d, "decoded")
        /\ Many(e, "shown") = Many(d, "shown") - 1 /\ Many(d, "shown") >= 1
    BY <1>2, <1>3, <1>4, <1>12 DEF States
  <2>2. CASE d.decremented > 0
    BY <1>3, <1>11, <1>12, <2>1, <2>2 DEF Tally
  <2>3. CASE ~(d.decremented > 0)
    BY <1>3, <1>11, <1>12, <2>1, <2>3 DEF Tally
  <2>4. QED  BY <2>2, <2>3
<1>14. Within(e) /\ Owed(e) = Owed(d) \ {f}
  BY <1>2, <1>11, <1>12 DEF Within, Owed, States
<1>15. Are(e, "decoded") = Are(d, "decoded") /\ Are(d, "free") \subseteq Are(e, "free")
  BY <1>1, <1>2, <1>12 DEF States
<1>16. QED  BY <1>11, <1>13, <1>14, <1>15 DEF e, LeftAs

\* Whether the VPU takes the frame or refuses it.
LEMMA Marked ==
    ASSUME NEW d \in Decoders, Tally(d, 0, 0), Within(d), NEW f \in Are(d, "shown"),
           NEW r \in MarkDisplayed(d, f)
    PROVE  LeftAs(d, r.decoder, {f}) /\ r.ok \in BOOLEAN
<1>1. d.frames[f] = "shown"
  BY DEF Are
<1>2. /\ r.ok \in BOOLEAN
      /\ r.decoder = Returned(d, f) \/ r.decoder = [d EXCEPT !.unreturned = @ \cup {f}]
  <2> DEFINE back == Returned(d, f)
             kept == [d EXCEPT !.unreturned = @ \cup {f}]
  <2>1. MarkDisplayed(d, f) = {[ok |-> TRUE, decoder |-> back], [ok |-> FALSE, decoder |-> kept]}
    BY <1>1 DEF MarkDisplayed
  <2> HIDE DEF back, kept
  <2>2. (r.ok = TRUE /\ r.decoder = back) \/ (r.ok = FALSE /\ r.decoder = kept)
    BY <2>1
  <2>3. QED  BY <2>2 DEF back, kept
<1>3. QED  BY <1>2, Displayed, Refused

\* Whether the frame is to be had or not.
LEMMA Getting ==
    ASSUME NEW d \in Decoders, Tally(d, 0, 1), Within(d), NEW f \in Are(d, "shown"),
           NEW r \in GetDecodedFrame(d, f)
    PROVE  /\ r.ok \in BOOLEAN
           /\ r.ok => /\ r.decoder \in Decoders /\ Alike(d, r.decoder)
                      /\ r.decoder.crashed = d.crashed /\ Tally(r.decoder, 0, 0)
           /\ ~r.ok => LeftAs(d, r.decoder, {f})
<1> DEFINE got == [d EXCEPT !.inUse = @ + 1]
<1>1. \/ r.ok = TRUE /\ r.decoder = got
      \/ r.ok = FALSE /\ Upsets(d) < MaxUpsets /\ r.decoder = Missing(d, {f})
  BY DEF GetDecodedFrame, MayMiss
<1>2. got \in Decoders /\ Alike(d, got) /\ got.crashed = d.crashed /\ Tally(got, 0, 0)
  BY Fetched
<1> HIDE DEF got
<1>3. CASE r.ok
  BY <1>1, <1>2, <1>3
<1>4. CASE ~r.ok
  <2>1. 0 \in 0 .. 1 /\ 1 \in 0 .. 1 /\ {f} \in SUBSET Are(d, "shown")
    OBVIOUS
  <2>2. LeftAs(d, Missing(d, {f}), {f})
    BY <1>1, <1>4, <2>1, Overlooked
  <2>3. QED  BY <1>1, <1>4, <2>2
<1>5. QED  BY <1>1, <1>3, <1>4

\* What is left as it was of something like d, is left as it was of d.
LEMMA AlikeLeft ==
    ASSUME NEW d, NEW e, NEW F, NEW g, Alike(d, e), e.crashed = d.crashed, LeftAs(e, g, F)
    PROVE  LeftAs(d, g, F)
<1>1. \A t \in States : Are(e, t) = Are(d, t)
  BY AlikeMany
<1>2. Owed(e) = Owed(d)
  BY <1>1 DEF Owed, Alike, States
<1>3. QED  BY <1>1, <1>2 DEF LeftAs, Alike, States

\* The same of the bounds.
LEMMA AlikeWithin ==
    ASSUME NEW d, NEW e, Alike(d, e), Within(d)
    PROVE  Within(e) /\ Upsets(e) = Upsets(d) /\ Owed(e) = Owed(d)
<1>1. \A t \in States : Are(e, t) = Are(d, t)
  BY AlikeMany
<1>2. QED  BY <1>1 DEF Within, Upsets, Owed, Alike, States

\* Only frames go from one state to another.
OnlyFrames(d, e) ==
    /\ e.codec = d.codec /\ e.vpu = d.vpu /\ e.changes = d.changes
    /\ e.framebuffers = d.framebuffers /\ e.userData = d.userData
    /\ e.recalculate = d.recalculate /\ e.available = d.available
    /\ e.decremented = d.decremented /\ e.inUse = d.inUse
    /\ e.crashed = d.crashed /\ e.flushed = d.flushed
    /\ e.missed = d.missed /\ e.unreturned = d.unreturned

\* Nothing else changes with the state of a framebuffer.
LEMMA SetFrames ==
    ASSUME NEW d \in Decoders, NEW f \in Framebuffers, NEW t \in States, d.frames[f] # t
    PROVE  Set(d, f, t) \in Decoders /\ OnlyFrames(d, Set(d, f, t))
<1> DEFINE e == Set(d, f, t)
           fr == [d.frames EXCEPT ![f] = t]
<1>1. e = [d EXCEPT !.frames = fr] /\ e.frames \in [Framebuffers -> States]
  BY Moved
<1>2. e.frames = fr
  BY <1>1 DEF Decoders
<1> HIDE DEF e, fr
<1>3. e \in Decoders
  BY <1>1, <1>2, Assigned
<1>4. OnlyFrames(d, e)
  BY <1>1 DEF OnlyFrames, Decoders
<1>5. QED  BY <1>3, <1>4 DEF e

\* The VPU decodes into a free frame and keeps it back.
LEMMA Taken ==
    ASSUME NEW d \in Decoders, Tally(d, 0, 0), NEW f \in Are(d, "free"),
           ~d.recalculate => d.available >= 1
    PROVE  LET e == Set(d, f, "decoded")
           IN  /\ e \in Decoders /\ OnlyFrames(d, e)
               /\ Are(e, "free") = Are(d, "free") \ {f}
               /\ Are(e, "decoded") = Are(d, "decoded") \cup {f}
               /\ Are(e, "shown") = Are(d, "shown")
               /\ Tally(e, 1, 0)
<1> DEFINE e == Set(d, f, "decoded")
<1>1. f \in Framebuffers /\ d.frames[f] = "free" /\ f \notin Are(d, "shown")
  BY DEF Are
<1>2. e \in Decoders /\ OnlyFrames(d, e)
  BY <1>1, SetFrames DEF States
<1>3. /\ Are(e, "free") = Are(d, "free") \ {f}
      /\ Are(e, "decoded") = Are(d, "decoded") \cup {f}
      /\ Are(e, "shown") = Are(d, "shown") \ {f}
      /\ Many(e, "free") = Many(d, "free") - 1
      /\ Many(e, "decoded") = Many(d, "decoded") + 1
      /\ Many(e, "shown") = Many(d, "shown")
  BY <1>1, Moved DEF States
<1> HIDE DEF e
<1>4. /\ Leaked(d) \in Nat /\ Leaked(e) = Leaked(d)
      /\ Many(d, "free") \in Nat /\ Many(d, "decoded") \in Nat /\ Many(d, "shown") \in Nat
      /\ d.available \in Int /\ d.decremented \in Int /\ d.inUse \in Int
      /\ d.missed \in Nat /\ d.changes \in Nat
  BY <1>2, Numbers DEF OnlyFrames, Leaked
<1>5. Tally(e, 1, 0)
  BY <1>2, <1>3, <1>4 DEF Tally, OnlyFrames
<1>6. QED  BY <1>1, <1>2, <1>3, <1>5 DEF e

\* A frame that was kept back is shown.
LEMMA Put ==
    ASSUME NEW d \in Decoders, NEW p \in 0 .. 1, Tally(d, p, 0), NEW f \in Are(d, "decoded")
    PROVE  LET e == Set(d, f, "shown")
           IN  /\ e \in Decoders /\ OnlyFrames(d, e)
               /\ Are(e, "free") = Are(d, "free")
               /\ Are(e, "decoded") = Are(d, "decoded") \ {f}
               /\ Are(e, "shown") = Are(d, "shown") \cup {f}
               /\ Tally(e, p, 1)
<1> DEFINE e == Set(d, f, "shown")
<1>1. f \in Framebuffers /\ d.frames[f] = "decoded" /\ f \notin Are(d, "free")
  BY DEF Are
<1>2. e \in Decoders /\ OnlyFrames(d, e)
  BY <1>1, SetFrames DEF States
<1>3. /\ Are(e, "free") = Are(d, "free") \ {f}
      /\ Are(e, "decoded") = Are(d, "decoded") \ {f}
      /\ Are(e, "shown") = Are(d, "shown") \cup {f}
      /\ Many(e, "free") = Many(d, "free")
      /\ Many(e, "decoded") = Many(d, "decoded") - 1
      /\ Many(e, "shown") = Many(d, "shown") + 1
  BY <1>1, Moved DEF States
<1> HIDE DEF e
<1>4. /\ Leaked(d) \in Nat /\ Leaked(e) = Leaked(d)
      /\ Many(d, "free") \in Nat /\ Many(d, "decoded") \in Nat /\ Many(d, "shown") \in Nat
      /\ d.available \in Int /\ d.decremented \in Int /\ d.inUse \in Int
      /\ d.missed \in Nat /\ d.changes \in Nat
  BY <1>2, Numbers DEF OnlyFrames, Leaked
<1>5. Tally(e, p, 1)
  BY <1>2, <1>3, <1>4 DEF Tally, OnlyFrames
<1>6. QED  BY <1>1, <1>2, <1>3, <1>5 DEF e

\* The VPU decodes into a free frame and shows it at once.
LEMMA ShownAtOnce ==
    ASSUME NEW d \in Decoders, Tally(d, 0, 0), NEW f \in Are(d, "free"),
           ~d.recalculate => d.available >= 1
    PROVE  LET e == Set(d, f, "shown")
           IN  /\ e \in Decoders /\ OnlyFrames(d, e)
               /\ Are(e, "free") = Are(d, "free") \ {f}
               /\ Are(e, "decoded") = Are(d, "decoded")
               /\ Are(e, "shown") = Are(d, "shown") \cup {f}
               /\ Tally(e, 1, 1)
<1> DEFINE e == Set(d, f, "shown")
<1>1. f \in Framebuffers /\ d.frames[f] = "free" /\ f \notin Are(d, "decoded")
  BY DEF Are
<1>2. e \in Decoders /\ OnlyFrames(d, e)
  BY <1>1, SetFrames DEF States
<1>3. /\ Are(e, "free") = Are(d, "free") \ {f}
      /\ Are(e, "decoded") = Are(d, "decoded") \ {f}
      /\ Are(e, "shown") = Are(d, "shown") \cup {f}
      /\ Many(e, "free") = Many(d, "free") - 1
      /\ Many(e, "decoded") = Many(d, "decoded")
      /\ Many(e, "shown") = Many(d, "shown") + 1
  BY <1>1, Moved DEF States
<1> HIDE DEF e
<1>4. /\ Leaked(d) \in Nat /\ Leaked(e) = Leaked(d)
      /\ Many(d, "free") \in Nat /\ Many(d, "decoded") \in Nat /\ Many(d, "shown") \in Nat
      /\ d.available \in Int /\ d.decremented \in Int /\ d.inUse \in Int
      /\ d.missed \in Nat /\ d.changes \in Nat
  BY <1>2, Numbers DEF OnlyFrames, Leaked
<1>5. Tally(e, 1, 1)
  BY <1>2, <1>3, <1>4 DEF Tally, OnlyFrames
<1>6. QED  BY <1>1, <1>2, <1>3, <1>5 DEF e

\* All frames the VPU keeps back are free again.
LEMMA Flushed ==
    ASSUME NEW d \in Decoders
    PROVE  LET e == FlushAll(d)
           IN  /\ e \in Decoders /\ OnlyFrames(d, e)
               /\ Are(e, "free") = Are(d, "free") \cup Are(d, "decoded")
               /\ Are(e, "decoded") = {} /\ Are(e, "shown") = Are(d, "shown")
               /\ Many(e, "free") = Many(d, "free") + Many(d, "decoded")
               /\ Many(e, "decoded") = 0 /\ Many(e, "shown") = Many(d, "shown")
<1> DEFINE e == FlushAll(d)
           fr == [f \in Framebuffers |-> IF d.frames[f] = "decoded" THEN "free" ELSE d.frames[f]]
<1>1. e = [d EXCEPT !.frames = fr] /\ d.frames \in [Framebuffers -> States]
  BY DEF FlushAll, Decoders
<1>2. fr \in [Framebuffers -> States]
  BY <1>1 DEF States
<1>3. e.frames = fr
  BY <1>1 DEF Decoders
<1>4. /\ Are(e, "free") = Are(d, "free") \cup Are(d, "decoded")
      /\ Are(e, "decoded") = {} /\ Are(e, "shown") = Are(d, "shown")
  <2> HIDE DEF e
  <2>1. \A f \in Framebuffers :
            e.frames[f] = IF d.frames[f] = "decoded" THEN "free" ELSE d.frames[f]
    BY <1>3
  <2>2. QED  BY <2>1 DEF Are
<1> HIDE DEF e, fr
<1>5. e \in Decoders
  BY <1>1, <1>2, Assigned
<1>6. OnlyFrames(d, e)
  BY <1>1 DEF OnlyFrames, Decoders
<1>7. Many(e, "decoded") = 0 /\ Many(e, "shown") = Many(d, "shown")
  BY <1>4, FS_EmptySet DEF Many
<1>8. Many(e, "free") = Many(d, "free") + Many(d, "decoded")
  <2>1. Many(d, "free") + Many(d, "decoded") + Many(d, "shown") = Number
    BY Numbers
  <2>2. Many(e, "free") + Many(e, "decoded") + Many(e, "shown") = Number
    BY <1>5, Numbers
  <2>3. /\ Many(d, "free") \in Nat /\ Many(d, "decoded") \in Nat /\ Many(d, "shown") \in Nat
    BY Numbers
  <2>4. Many(e, "free") \in Nat
    BY <1>5, Numbers
  <2>5. QED  BY <1>7, <2>1, <2>2, <2>3, <2>4
<1>9. QED  BY <1>4, <1>5, <1>6, <1>7, <1>8 DEF e

----------------------------------------------------------------------------
\* Flushes, and the calls that change the stage

\* A reset: the counter is not right until the next buffer. The VPU may keep its frames.
LEMMA Resetting ==
    ASSUME NEW d \in Decoders, Tally(d, 0, 0), Within(d), NEW x \in DecFlush(d)
    PROVE  /\ x \in Decoders /\ x.codec = d.codec /\ x.vpu = d.vpu /\ x.changes = d.changes
           /\ x.userData = d.userData /\ x.crashed = d.crashed /\ x.recalculate
           /\ Are(d, "free") \subseteq Are(x, "free")
           /\ Are(x, "decoded") \subseteq Are(d, "decoded") /\ Owed(x) = Owed(d)
           /\ Tally(x, 0, 0) /\ Within(x)
<1> DEFINE g == FlushAll(d)
           e == [g EXCEPT !.recalculate = TRUE]
           h == [d EXCEPT !.recalculate = TRUE]
           y == [h EXCEPT !.missed = d.missed + Many(d, "decoded")]
<1>1. /\ Leaked(d) \in Nat /\ d.missed \in Nat /\ d.changes \in Nat /\ Number \in Nat
      /\ Many(d, "free") \in Nat /\ Many(d, "decoded") \in Nat /\ Many(d, "shown") \in Nat
      /\ d.available \in Int /\ d.decremented \in Int /\ d.inUse \in Int
  BY Numbers
<1>2. /\ g \in Decoders /\ OnlyFrames(d, g)
      /\ Are(g, "free") = Are(d, "free") \cup Are(d, "decoded")
      /\ Are(g, "decoded") = {} /\ Are(g, "shown") = Are(d, "shown")
      /\ Many(g, "free") = Many(d, "free") + Many(d, "decoded")
      /\ Many(g, "decoded") = 0 /\ Many(g, "shown") = Many(d, "shown")
  BY Flushed
<1>3. h \in Decoders
  BY Assigned
<1>4. x = e \/ (x = y /\ Upsets(x) <= MaxUpsets)
  <2>1. [d EXCEPT !.recalculate = TRUE, !.missed = @ + Cardinality(Are(d, "decoded"))] = y
    BY DEF Many, Decoders
  <2>2. \/ x = [FlushAll(d) EXCEPT !.recalculate = TRUE]
        \/ /\ x = [d EXCEPT !.recalculate = TRUE, !.missed = @ + Cardinality(Are(d, "decoded"))]
           /\ Upsets(x) <= MaxUpsets
    BY DEF DecFlush
  <2> HIDE DEF y
  <2>3. x = e \/ x = y
    BY <2>1, <2>2
  <2>4. x = e \/ Upsets(x) <= MaxUpsets
    BY <2>2
  <2> HIDE DEF e
  <2>5. QED  BY <2>3, <2>4
<1>5. CASE x = e
  <2> HIDE DEF g
  <2>1. x \in Decoders
    BY <1>2, <1>5, Assigned
  <2>2. /\ Alike(g, x) /\ x.recalculate /\ x.available = g.available /\ x.inUse = g.inUse
        /\ x.decremented = g.decremented /\ x.crashed = g.crashed
    BY <1>2, <1>5 DEF Alike, Decoders
  <2>3. /\ Are(x, "free") = Are(g, "free") /\ Are(x, "decoded") = Are(g, "decoded")
        /\ Are(x, "shown") = Are(g, "shown")
        /\ Many(x, "free") = Many(g, "free") /\ Many(x, "decoded") = Many(g, "decoded")
        /\ Many(x, "shown") = Many(g, "shown") /\ Leaked(x) = Leaked(d)
    BY <1>2, <2>2, AlikeMany DEF States, OnlyFrames, Leaked
  <2>4. Tally(x, 0, 0)
    BY <1>1, <1>2, <2>2, <2>3 DEF Tally, OnlyFrames, Alike
  <2>5. Within(x) /\ Owed(x) = Owed(d)
    BY <1>2, <2>2, <2>3 DEF Within, Owed, OnlyFrames, Alike
  <2>6. QED  BY <1>2, <2>1, <2>2, <2>3, <2>4, <2>5 DEF OnlyFrames, Alike
<1>6. CASE x = y /\ Upsets(x) <= MaxUpsets
  <2>1. d.missed + Many(d, "decoded") \in Nat
    BY <1>1
  <2>2. /\ h.codec = d.codec /\ h.vpu = d.vpu /\ h.changes = d.changes
        /\ h.userData = d.userData /\ h.crashed = d.crashed /\ h.recalculate
        /\ h.available = d.available /\ h.inUse = d.inUse /\ h.decremented = d.decremented
        /\ h.unreturned = d.unreturned /\ h.frames = d.frames
    BY DEF Decoders
  <2> HIDE DEF h
  <2>3. x \in Decoders
    BY <1>3, <1>6, <2>1, Assigned
  <2>4. /\ x.codec = d.codec /\ x.vpu = d.vpu /\ x.changes = d.changes
        /\ x.userData = d.userData /\ x.crashed = d.crashed /\ x.recalculate
        /\ x.available = d.available /\ x.inUse = d.inUse /\ x.decremented = d.decremented
        /\ x.unreturned = d.unreturned /\ x.frames = d.frames
        /\ x.missed = d.missed + Many(d, "decoded")
    BY <1>3, <1>6, <2>2 DEF Decoders
  <2>5. /\ \A t \in States : Are(x, t) = Are(d, t) /\ Many(x, t) = Many(d, t)
        /\ Leaked(x) = Leaked(d) + Many(d, "decoded")
    <3>1. Number * d.changes \in Int
      BY <1>1
    <3>2. Leaked(x) = Number * d.changes + (d.missed + Many(d, "decoded"))
      BY <2>4 DEF Leaked
    <3>3. QED  BY <1>1, <2>4, <3>1, <3>2 DEF Are, Many, Leaked
  <2>6. Tally(x, 0, 0)
    <3>1. /\ Many(x, "free") = Many(d, "free") /\ Many(x, "decoded") = Many(d, "decoded")
          /\ Many(x, "shown") = Many(d, "shown")
      BY <2>5 DEF States
    <3>2. QED  BY <1>1, <2>4, <2>5, <3>1 DEF Tally
  <2>7. Within(x) /\ Owed(x) = Owed(d)
    BY <1>6, <2>4, <2>5 DEF Within, Owed, Upsets, States
  <2>8. QED  BY <2>3, <2>4, <2>5, <2>6, <2>7 DEF States
<1>7. QED  BY <1>4, <1>5, <1>6

\* The VPU flushes itself.
LEMMA FlushesItself ==
    ASSUME NEW d \in Decoders, Tally(d, 0, 0), ~d.recalculate
    PROVE  LET e == [FlushAll(d) EXCEPT !.flushed = TRUE]
           IN  /\ e \in Decoders /\ e.codec = d.codec /\ e.vpu = d.vpu /\ e.changes = d.changes
               /\ e.userData = d.userData /\ e.crashed = d.crashed /\ ~e.recalculate
               /\ Are(e, "free") = Are(d, "free") \cup Are(d, "decoded")
               /\ Are(e, "decoded") = {} /\ Are(e, "shown") = Are(d, "shown")
               /\ e.missed = d.missed /\ e.unreturned = d.unreturned
               /\ Tally(e, 0, 0)
<1> DEFINE g == FlushAll(d)
           e == [g EXCEPT !.flushed = TRUE]
<1>1. /\ g \in Decoders /\ OnlyFrames(d, g)
      /\ Are(g, "free") = Are(d, "free") \cup Are(d, "decoded")
      /\ Are(g, "decoded") = {} /\ Are(g, "shown") = Are(d, "shown")
      /\ Many(g, "free") = Many(d, "free") + Many(d, "decoded")
      /\ Many(g, "decoded") = 0 /\ Many(g, "shown") = Many(d, "shown")
  BY Flushed
<1> HIDE DEF g
<1>3. e \in Decoders
  BY <1>1, Assigned
<1>4. Alike(g, e) /\ e.recalculate = g.recalculate /\ e.available = g.available
      /\ e.inUse = g.inUse /\ e.decremented = g.decremented /\ e.crashed = g.crashed
      /\ e.flushed
  BY <1>1 DEF Alike, Decoders
<1> HIDE DEF e
<1>5. /\ Are(e, "free") = Are(g, "free") /\ Are(e, "decoded") = Are(g, "decoded")
      /\ Are(e, "shown") = Are(g, "shown")
      /\ Many(e, "free") = Many(g, "free") /\ Many(e, "decoded") = Many(g, "decoded")
      /\ Many(e, "shown") = Many(g, "shown") /\ Leaked(e) = Leaked(d)
  BY <1>1, <1>4, AlikeMany DEF States, OnlyFrames, Leaked
<1>6. /\ Leaked(d) \in Nat
      /\ Many(d, "free") \in Nat /\ Many(d, "decoded") \in Nat /\ Many(d, "shown") \in Nat
      /\ d.available \in Int /\ d.decremented \in Int /\ d.inUse \in Int
      /\ d.missed \in Nat /\ d.changes \in Nat
  BY Numbers
<1>7. Tally(e, 0, 0)
  BY <1>1, <1>4, <1>5, <1>6 DEF Tally, OnlyFrames, Alike
<1>8. QED  BY <1>1, <1>3, <1>4, <1>5, <1>7 DEF e, g, OnlyFrames, Alike

\* The flush the VPU asked for failed.
LEMMA FlushFails ==
    ASSUME NEW d \in Decoders, Tally(d, 0, 0)
    PROVE  LET e == [d EXCEPT !.flushed = TRUE]
           IN  /\ e \in Decoders /\ Alike(d, e)
               /\ e.crashed = d.crashed /\ e.recalculate = d.recalculate
               /\ Tally(e, 0, 0)
<1> DEFINE e == [d EXCEPT !.flushed = TRUE]
<1>1. e \in Decoders
  BY Assigned
<1>2. Alike(d, e) /\ e.recalculate = d.recalculate /\ e.available = d.available
      /\ e.inUse = d.inUse /\ e.decremented = d.decremented /\ e.crashed = d.crashed
      /\ e.flushed
  BY DEF Alike, Decoders
<1> HIDE DEF e
<1>3. /\ Many(e, "free") = Many(d, "free") /\ Many(e, "decoded") = Many(d, "decoded")
      /\ Many(e, "shown") = Many(d, "shown") /\ Leaked(e) = Leaked(d)
  BY <1>2, AlikeMany DEF States
<1>4. Tally(e, 0, 0)
  BY <1>2, <1>3, Numbers DEF Tally, Alike
<1>5. QED  BY <1>1, <1>2, <1>4 DEF e

\* The user data of a frame is stored: only a null pointer makes a difference.
LEMMA Stored ==
    ASSUME NEW d \in Decoders, NEW codes, NEW p, NEW q, Tally(d, p, q)
    PROVE  LET e == StoreUserData(d, codes)
           IN  /\ e \in Decoders /\ Alike(d, e) /\ e.recalculate = d.recalculate
               /\ e.flushed = d.flushed /\ Tally(e, p, q)
               /\ d.userData /\ ~d.crashed => ~e.crashed
               /\ Consumed(codes) => e = d
<1> DEFINE e == StoreUserData(d, codes)
<1>1. CASE Consumed(codes) \/ ConsumptionInfo(d) \/ ~d.framebuffers
  BY <1>1 DEF StoreUserData, Alike
<1>2. CASE ~(Consumed(codes) \/ ConsumptionInfo(d) \/ ~d.framebuffers)
  <2>1. e = [d EXCEPT !.crashed = ~d.userData]
    BY <1>2 DEF StoreUserData
  <2>2. e \in Decoders
    BY <2>1, Assigned
  <2>3. Alike(d, e) /\ e.recalculate = d.recalculate /\ e.available = d.available
        /\ e.inUse = d.inUse /\ e.decremented = d.decremented /\ e.crashed = ~d.userData
        /\ e.flushed = d.flushed
    BY <2>1 DEF Alike, Decoders
  <2> HIDE DEF e
  <2>4. /\ Many(e, "free") = Many(d, "free") /\ Many(e, "decoded") = Many(d, "decoded")
        /\ Many(e, "shown") = Many(d, "shown") /\ Leaked(e) = Leaked(d)
    BY <2>3, AlikeMany DEF States
  <2>5. Tally(e, p, q)
    BY <2>3, <2>4 DEF Tally, Alike
  <2>6. QED  BY <1>2, <2>2, <2>3, <2>5 DEF e
<1>3. QED  BY <1>1, <1>2

\* The resolution changes: every frame is free, and what is in use is not known any more.
LEMMA Changed ==
    ASSUME NEW d \in Decoders, Tally(d, 0, 0)
    PROVE  LET e == [d EXCEPT !.vpu = "info", !.changes = @ + 1,
                              !.frames = [f \in Framebuffers |-> "free"], !.unreturned = {}]
           IN  /\ e \in Decoders /\ e.vpu = "info" /\ e.changes = d.changes + 1
               /\ e.codec = d.codec /\ Are(e, "free") = Framebuffers
               /\ e.missed = d.missed /\ e.unreturned = {}
               /\ Tally(e, 0, 0)
<1> DEFINE g == [d EXCEPT !.vpu = "info"]
           h == [g EXCEPT !.changes = d.changes + 1]
           fr == [f \in Framebuffers |-> "free"]
           i == [h EXCEPT !.frames = fr]
           e == [i EXCEPT !.unreturned = {}]
<1>1. g \in Decoders /\ d.changes + 1 \in Nat /\ fr \in [Framebuffers -> States]
  <2>1. g \in Decoders
    BY Assigned
  <2>2. d.changes \in Nat
    BY DEF Decoders
  <2>3. QED  BY <2>1, <2>2 DEF States
<1>2. /\ g.vpu = "info" /\ g.codec = d.codec /\ g.changes = d.changes
      /\ g.available = d.available /\ g.inUse = d.inUse /\ g.decremented = d.decremented
      /\ g.recalculate = d.recalculate /\ g.missed = d.missed
  BY DEF Decoders
<1>3. e = [d EXCEPT !.vpu = "info", !.changes = @ + 1, !.frames = fr, !.unreturned = {}]
  BY <1>2
<1> HIDE DEF g
<1>4. h \in Decoders
  BY <1>1, Assigned
<1>5. /\ h.vpu = "info" /\ h.codec = d.codec /\ h.changes = d.changes + 1
      /\ h.available = d.available /\ h.inUse = d.inUse /\ h.decremented = d.decremented
      /\ h.recalculate = d.recalculate /\ h.missed = d.missed
  BY <1>1, <1>2 DEF Decoders
<1> HIDE DEF h
<1>6. i \in Decoders
  BY <1>1, <1>4, Assigned
<1>7. /\ i.vpu = "info" /\ i.codec = d.codec /\ i.changes = d.changes + 1
      /\ i.available = d.available /\ i.inUse = d.inUse /\ i.decremented = d.decremented
      /\ i.recalculate = d.recalculate /\ i.missed = d.missed /\ i.frames = fr
  BY <1>4, <1>5 DEF Decoders
<1> HIDE DEF i
<1>8. e \in Decoders
  <2>1. {} \in SUBSET Framebuffers
    OBVIOUS
  <2>2. QED  BY <1>6, <2>1, Assigned
<1>9. /\ e.vpu = "info" /\ e.codec = d.codec /\ e.changes = d.changes + 1
      /\ e.available = d.available /\ e.inUse = d.inUse /\ e.decremented = d.decremented
      /\ e.recalculate = d.recalculate /\ e.missed = d.missed /\ e.frames = fr
      /\ e.unreturned = {}
  BY <1>6, <1>7 DEF Decoders
<1> HIDE DEF e
<1>10. Are(e, "free") = Framebuffers /\ Are(e, "decoded") = {} /\ Are(e, "shown") = {}
  BY <1>9 DEF Are
<1>11. Many(e, "free") = Number /\ Many(e, "decoded") = 0 /\ Many(e, "shown") = 0
  BY <1>10, FS_EmptySet DEF Many, Number
<1>12. Leaked(e) = Leaked(d) + Number
  <2>1. Leaked(e) = Number * (d.changes + 1) + d.missed
    BY <1>9 DEF Leaked
  <2>2. QED  BY <2>1, LeakedType
<1>13. /\ Number \in Nat /\ Leaked(d) \in Nat
       /\ Many(d, "free") \in Nat /\ Many(d, "decoded") \in Nat /\ Many(d, "shown") \in Nat
       /\ Many(d, "free") + Many(d, "decoded") + Many(d, "shown") = Number
       /\ d.available \in Int /\ d.decremented \in Int /\ d.inUse \in Int
       /\ d.missed \in Nat /\ d.changes \in Nat
  BY Numbers
<1>14. Tally(e, 0, 0)
  <2>1. /\ 0 <= d.decremented /\ d.decremented <= Number
        /\ Many(d, "shown") <= d.inUse + d.missed /\ d.inUse <= Many(d, "shown") + Leaked(d)
        /\ d.available <= Many(d, "free") + d.missed /\ 0 <= d.available + Leaked(d)
    BY <1>13 DEF Tally
  <2>2. /\ 0 <= d.inUse + d.missed /\ d.inUse <= Leaked(d) + Number
        /\ d.available <= Number + d.missed /\ 0 <= d.available + (Leaked(d) + Number)
    BY <1>13, <2>1
  <2>3. QED  BY <1>9, <1>11, <1>12, <1>13, <2>1, <2>2 DEF Tally
<1>15. QED  BY <1>3, <1>8, <1>9, <1>10, <1>14 DEF e

\* Framebuffers are registered: all of them are free, and counted.
LEMMA Registering ==
    ASSUME NEW d \in Decoders, Tally(d, 0, 0), Are(d, "free") = Framebuffers
    PROVE  LET e == RegisterFramebuffers(d)
           IN  /\ e \in Decoders /\ e.vpu = "registered" /\ e.changes = d.changes
               /\ e.codec = d.codec /\ e.userData /\ e.crashed = d.crashed
               /\ e.recalculate = d.recalculate
               /\ Are(e, "free") = Framebuffers
               /\ e.missed = d.missed /\ e.unreturned = d.unreturned
               /\ Tally(e, 0, 0)
<1> DEFINE g == [d EXCEPT !.vpu = "registered"]
           h == [g EXCEPT !.framebuffers = TRUE]
           i == [h EXCEPT !.userData = TRUE]
           e == [i EXCEPT !.available = Number]
<1>1. e = RegisterFramebuffers(d)
  BY DEF RegisterFramebuffers
<1>2. g \in Decoders /\ Number \in Int
  <2>1. g \in Decoders
    BY Assigned
  <2>2. QED  BY <2>1, Numbers
<1>3. /\ g.vpu = "registered" /\ g.codec = d.codec /\ g.changes = d.changes
      /\ g.available = d.available /\ g.inUse = d.inUse /\ g.decremented = d.decremented
      /\ g.recalculate = d.recalculate /\ g.crashed = d.crashed /\ g.frames = d.frames
      /\ g.missed = d.missed /\ g.unreturned = d.unreturned
  BY DEF Decoders
<1> HIDE DEF g
<1>4. h \in Decoders
  BY <1>2, Assigned
<1>5. /\ h.vpu = "registered" /\ h.codec = d.codec /\ h.changes = d.changes
      /\ h.available = d.available /\ h.inUse = d.inUse /\ h.decremented = d.decremented
      /\ h.recalculate = d.recalculate /\ h.crashed = d.crashed /\ h.frames = d.frames
      /\ h.missed = d.missed /\ h.unreturned = d.unreturned
  BY <1>2, <1>3 DEF Decoders
<1> HIDE DEF h
<1>6. i \in Decoders
  BY <1>4, Assigned
<1>7. /\ i.vpu = "registered" /\ i.codec = d.codec /\ i.changes = d.changes
      /\ i.available = d.available /\ i.inUse = d.inUse /\ i.decremented = d.decremented
      /\ i.recalculate = d.recalculate /\ i.crashed = d.crashed /\ i.frames = d.frames
      /\ i.missed = d.missed /\ i.unreturned = d.unreturned
      /\ i.userData
  BY <1>4, <1>5 DEF Decoders
<1> HIDE DEF i
<1>8. e \in Decoders
  BY <1>2, <1>6, Assigned
<1>9. /\ e.vpu = "registered" /\ e.codec = d.codec /\ e.changes = d.changes
      /\ e.available = Number /\ e.inUse = d.inUse /\ e.decremented = d.decremented
      /\ e.recalculate = d.recalculate /\ e.crashed = d.crashed /\ e.frames = d.frames
      /\ e.missed = d.missed /\ e.unreturned = d.unreturned
      /\ e.userData
  BY <1>6, <1>7 DEF Decoders
<1> HIDE DEF e
<1>10. /\ \A s \in States : Are(e, s) = Are(d, s) /\ Many(e, s) = Many(d, s)
       /\ Leaked(e) = Leaked(d)
  BY <1>9 DEF Are, Many, Leaked
<1>11. Many(d, "free") = Number
  BY DEF Many, Number
<1>12. /\ Number \in Nat /\ Leaked(d) \in Nat
       /\ Many(d, "free") \in Nat /\ Many(d, "decoded") \in Nat /\ Many(d, "shown") \in Nat
       /\ d.available \in Int /\ d.decremented \in Int /\ d.inUse \in Int
       /\ d.missed \in Nat /\ d.changes \in Nat
  BY Numbers
<1>13. /\ Many(e, "free") = Number /\ Many(e, "decoded") = Many(d, "decoded")
       /\ Many(e, "shown") = Many(d, "shown")
  BY <1>10, <1>11 DEF States
<1>14. Tally(e, 0, 0)
  BY <1>9, <1>10, <1>12, <1>13 DEF Tally
<1>15. QED  BY <1>1, <1>8, <1>9, <1>10, <1>14 DEF States

\* What is remembered of the frames is given up when the resolution changes.
LEMMA Forgotten ==
    ASSUME NEW d \in Decoders, Tally(d, 0, 0), ~d.recalculate,
           NEW codes, "RESOLUTION_CHANGED" \in codes
    PROVE  LET e == ForgetFrames(d, codes)
           IN  /\ e \in Decoders /\ e.codec = d.codec /\ e.vpu = d.vpu
               /\ e.changes = d.changes /\ e.frames = d.frames /\ ~e.recalculate
               /\ e.missed = d.missed /\ e.unreturned = d.unreturned
               /\ Tally(e, 0, 0)
<1> DEFINE g == [d EXCEPT !.recalculate = FALSE]
           e == [g EXCEPT !.userData = FALSE]
<1>1. e = ForgetFrames(d, codes)
  BY DEF ForgetFrames
<1>2. g \in Decoders
  BY Assigned
<1>3. /\ g.vpu = d.vpu /\ g.codec = d.codec /\ g.changes = d.changes
      /\ g.available = d.available /\ g.inUse = d.inUse /\ g.decremented = d.decremented
      /\ ~g.recalculate /\ g.frames = d.frames /\ g.flushed = d.flushed
      /\ g.missed = d.missed /\ g.unreturned = d.unreturned
  BY DEF Decoders
<1> HIDE DEF g
<1>4. e \in Decoders
  BY <1>2, Assigned
<1>5. /\ e.vpu = d.vpu /\ e.codec = d.codec /\ e.changes = d.changes
      /\ e.available = d.available /\ e.inUse = d.inUse /\ e.decremented = d.decremented
      /\ ~e.recalculate /\ e.frames = d.frames /\ e.flushed = d.flushed
      /\ e.missed = d.missed /\ e.unreturned = d.unreturned
  BY <1>2, <1>3 DEF Decoders
<1> HIDE DEF e
<1>6. /\ \A s \in States : Many(e, s) = Many(d, s)
      /\ Leaked(e) = Leaked(d)
  BY <1>5 DEF Are, Many, Leaked
<1>7. /\ Many(e, "free") = Many(d, "free") /\ Many(e, "decoded") = Many(d, "decoded")
      /\ Many(e, "shown") = Many(d, "shown")
  BY <1>6 DEF States
<1>8. Tally(e, 0, 0)
  BY <1>5, <1>6, <1>7, Numbers DEF Tally
<1>9. QED  BY <1>1, <1>4, <1>5, <1>8

----------------------------------------------------------------------------
\* What imx_vpu_dec_decode_frame makes of an answer

\* What it comes to, in the order of the code.
LEMMA AfterForms ==
    ASSUME NEW a, NEW b \in AfterFlush(a)
    PROVE  LET forgot == ForgetFrames(FlushInside(Recalculate(a.decoder), a.codes), a.codes)
               counted == Count(StoreUserData(forgot, a.codes), a.codes)
           IN  \/ \E r \in CountShown(counted, a.codes, a.frame) :
                    b = IF r.ok THEN [a EXCEPT !.decoder = r.decoder] ELSE Failure(r.decoder)
               \/ /\ Consumed(a.codes) /\ Upsets(forgot) < MaxUpsets
                  /\ b = Failure(Missing(forgot, Shown(a)))
               \/ /\ "FLUSH" \in a.codes
                  /\ b = Failure([Recalculate(a.decoder) EXCEPT !.flushed = TRUE])
<1> DEFINE x == Recalculate(a.decoder)
           forgot == ForgetFrames(FlushInside(x, a.codes), a.codes)
           S == CountShown(Count(StoreUserData(forgot, a.codes), a.codes), a.codes, a.frame)
           gone == Failure([x EXCEPT !.flushed = TRUE])
<1>1. AfterFlush(a) =
          {IF r.ok THEN [a EXCEPT !.decoder = r.decoder] ELSE Failure(r.decoder) : r \in S}
          \cup {Failure(d) : d \in {e \in MayMiss(forgot, Shown(a)) : Consumed(a.codes)}}
          \cup {c \in {gone} : "FLUSH" \in a.codes}
  BY DEF AfterFlush
<1> HIDE DEF forgot, S, gone
<1>2. \/ b \in {IF r.ok THEN [a EXCEPT !.decoder = r.decoder] ELSE Failure(r.decoder) : r \in S}
      \/ b \in {Failure(d) : d \in {e \in MayMiss(forgot, Shown(a)) : Consumed(a.codes)}}
      \/ "FLUSH" \in a.codes /\ b = gone
  BY <1>1
<1>3. CASE b \in {IF r.ok THEN [a EXCEPT !.decoder = r.decoder] ELSE Failure(r.decoder) : r \in S}
  <2>1. PICK r \in S : b = IF r.ok THEN [a EXCEPT !.decoder = r.decoder] ELSE Failure(r.decoder)
    BY <1>3
  <2>2. QED  BY <2>1 DEF S, forgot
<1>4. CASE b \in {Failure(d) : d \in {e \in MayMiss(forgot, Shown(a)) : Consumed(a.codes)}}
  <2>1. /\ Consumed(a.codes) /\ Upsets(forgot) < MaxUpsets
        /\ b = Failure(Missing(forgot, Shown(a)))
    BY <1>4 DEF MayMiss
  <2>2. QED  BY <2>1 DEF forgot
<1>5. CASE "FLUSH" \in a.codes /\ b = gone
  BY <1>5 DEF gone
<1>6. QED  BY <1>2, <1>3, <1>4, <1>5

\* Only the decoder of an answer is another one.
LEMMA AnswerOf ==
    ASSUME NEW codes, NEW d, NEW f, NEW x
    PROVE  [Answer(codes, d, f) EXCEPT !.decoder = x] = Answer(codes, x, f)
<1> DEFINE a == Answer(codes, d, f)
           b == [a EXCEPT !.decoder = x]
<1>1. b = [ok |-> TRUE, codes |-> codes, decoder |-> x, frame |-> f]
  <2>1. a = [ok |-> TRUE, codes |-> codes, decoder |-> d, frame |-> f]
    BY DEF Answer
  <2>2. DOMAIN b = {"ok", "codes", "decoder", "frame"} /\ b = [i \in DOMAIN b |-> b[i]]
    <3> HIDE DEF a
    <3>1. QED  BY <2>1
  <2>3. b.ok = TRUE /\ b.codes = codes /\ b.decoder = x /\ b.frame = f
    <3> HIDE DEF a
    <3>1. QED  BY <2>1
  <2> HIDE DEF b
  <2>4. QED  BY <2>2, <2>3
<1>2. QED  BY <1>1 DEF Answer

\* Without a flush or a change of the resolution.
LEMMA NoFlush ==
    ASSUME NEW d, NEW codes, NEW f, "FLUSH" \notin codes, "RESOLUTION_CHANGED" \notin codes,
           NEW b \in AfterFlush(Answer(codes, d, f))
    PROVE  LET g == Recalculate(d)
               counted == Count(StoreUserData(g, codes), codes)
           IN  \/ \E r \in CountShown(counted, codes, f) :
                    b = IF r.ok THEN Answer(codes, r.decoder, f) ELSE Failure(r.decoder)
               \/ /\ Consumed(codes) /\ Upsets(g) < MaxUpsets
                  /\ b = Failure(Missing(g, Shown(Answer(codes, d, f))))
<1> DEFINE a == Answer(codes, d, f)
           g == Recalculate(d)
           forgot == ForgetFrames(FlushInside(Recalculate(a.decoder), a.codes), a.codes)
           S == CountShown(Count(StoreUserData(g, codes), codes), codes, f)
           T == CountShown(Count(StoreUserData(forgot, a.codes), a.codes), a.codes, a.frame)
<1>1. a.codes = codes /\ a.decoder = d /\ a.frame = f
  BY DEF Answer
<1>2. \A x : [a EXCEPT !.decoder = x] = Answer(codes, x, f)
  BY AnswerOf
<1> HIDE DEF a
<1>3. forgot = g
  BY <1>1 DEF ForgetFrames, FlushInside
<1> HIDE DEF g, forgot
<1>4. T = S
  BY <1>1, <1>3
<1> HIDE DEF S, T
<1>5. b \in AfterFlush(a)
  BY DEF a
<1>6. \/ \E r \in T : b = IF r.ok THEN [a EXCEPT !.decoder = r.decoder] ELSE Failure(r.decoder)
      \/ /\ Consumed(a.codes) /\ Upsets(forgot) < MaxUpsets
         /\ b = Failure(Missing(forgot, Shown(a)))
      \/ "FLUSH" \in a.codes
  BY <1>5, AfterForms DEF forgot, T
<1>7. CASE \E r \in T : b = IF r.ok THEN [a EXCEPT !.decoder = r.decoder] ELSE Failure(r.decoder)
  <2>1. PICK r \in S : b = IF r.ok THEN [a EXCEPT !.decoder = r.decoder] ELSE Failure(r.decoder)
    BY <1>4, <1>7
  <2>2. b = IF r.ok THEN Answer(codes, r.decoder, f) ELSE Failure(r.decoder)
    BY <1>2, <2>1
  <2>3. QED  BY <2>2 DEF S, g
<1>8. CASE /\ Consumed(a.codes) /\ Upsets(forgot) < MaxUpsets
           /\ b = Failure(Missing(forgot, Shown(a)))
  BY <1>1, <1>3, <1>8 DEF g, a
<1>9. QED  BY <1>1, <1>6, <1>7, <1>8

\* And when no frame has to be fetched.
LEMMA Counted ==
    ASSUME NEW d, NEW codes, NEW f, "FLUSH" \notin codes, "RESOLUTION_CHANGED" \notin codes,
           NEW b \in AfterFlush(Answer(codes, d, f)), NEW e
    PROVE  CountShown(Count(StoreUserData(Recalculate(d), codes), codes), codes, f)
               = {[ok |-> TRUE, decoder |-> e]}
           => \/ b = Answer(codes, e, f) /\ b.decoder = e
              \/ /\ Consumed(codes) /\ Upsets(Recalculate(d)) < MaxUpsets
                 /\ b = Failure(Missing(Recalculate(d), Shown(Answer(codes, d, f))))
<1> DEFINE g == Recalculate(d)
           miss == Failure(Missing(g, Shown(Answer(codes, d, f))))
           S == CountShown(Count(StoreUserData(g, codes), codes), codes, f)
<1>1. \/ \E r \in S : b = IF r.ok THEN Answer(codes, r.decoder, f) ELSE Failure(r.decoder)
      \/ Consumed(codes) /\ Upsets(g) < MaxUpsets /\ b = miss
  BY NoFlush
<1>2. HAVE S = {[ok |-> TRUE, decoder |-> e]}
<1> HIDE DEF S, g, miss
<1>3. \A r \in S : r.ok = TRUE /\ r.decoder = e
  BY <1>2
<1>4. \/ b = Answer(codes, e, f)
      \/ Consumed(codes) /\ Upsets(g) < MaxUpsets /\ b = miss
  BY <1>1, <1>3
<1>5. b = Answer(codes, e, f) => b.decoder = e
  BY DEF Answer
<1>6. QED  BY <1>4, <1>5 DEF g, miss

\* A buffer without effect on the frames.
LEMMA CountsNothing ==
    ASSUME NEW d \in Decoders, Tally(d, 0, 0), ~d.crashed, NEW codes, NEW f,
           "FLUSH" \notin codes, "RESOLUTION_CHANGED" \notin codes,
           "ONE_FRM_CONSUMED" \notin codes, "OUTPUT_DIS" \notin codes,
           "OUTPUT_MOSAIC_DIS" \notin codes,
           NEW b \in AfterFlush(Answer(codes, d, f))
    PROVE  LET e == b.decoder
           IN  /\ b = Answer(codes, e, f)
               /\ e \in Decoders /\ Alike(d, e) /\ Tally(e, 0, 0)
               /\ d.userData => ~e.crashed
<1> DEFINE g == Recalculate(d)
           e == StoreUserData(g, codes)
<1>1. /\ g \in Decoders /\ Alike(d, g) /\ g.crashed = d.crashed /\ Tally(g, 0, 0)
  BY Recalculated
<1>2. b = Answer(codes, e, f) /\ b.decoder = e
  <2>1. ~Consumed(codes)
    BY DEF Consumed
  <2>2. CountShown(Count(e, codes), codes, f) = {[ok |-> TRUE, decoder |-> e]}
    <3> HIDE DEF e
    <3>1. QED  BY <2>1 DEF CountShown, Count
  <2> HIDE DEF e, g
  <2>3. QED  BY <2>1, <2>2, Counted DEF e, g
<1>3. /\ e \in Decoders /\ Alike(g, e) /\ Tally(e, 0, 0)
      /\ g.userData /\ ~g.crashed => ~e.crashed
  <2> HIDE DEF g
  <2>1. QED  BY <1>1, Stored
<1> HIDE DEF e, g
<1>4. QED  BY <1>1, <1>2, <1>3 DEF Alike

\* What was consumed is not told.
LEMMA CountsMissed ==
    ASSUME NEW d \in Decoders, NEW q \in 0 .. 1, Tally(d, 1, q), Within(d), NEW b,
           NEW F \in SUBSET Are(d, "shown"), Upsets(Recalculate(d)) < MaxUpsets,
           b = Failure(Missing(Recalculate(d), F))
    PROVE  ~b.ok /\ LeftAs(d, b.decoder, F)
<1> DEFINE g == Recalculate(d)
           e == Missing(g, F)
<1>1. /\ g \in Decoders /\ Alike(d, g) /\ g.crashed = d.crashed /\ Tally(g, 1, q)
      /\ ~g.recalculate
  BY Recalculated
<1>2. Upsets(g) < MaxUpsets
  OBVIOUS
<1>3. b.ok = FALSE /\ b.decoder = e
  BY DEF Failure
<1> HIDE DEF g
<1>4. Within(g) /\ F \in SUBSET Are(g, "shown")
  BY <1>1, AlikeMany, AlikeWithin DEF States
<1>5. LeftAs(g, e, F)
  <2>1. 1 \in 0 .. 1
    OBVIOUS
  <2>2. QED  BY <1>1, <1>2, <1>4, <2>1, Overlooked
<1> HIDE DEF e
<1>6. LeftAs(d, e, F)
  BY <1>1, <1>5, AlikeLeft
<1>7. QED  BY <1>3, <1>6

\* A frame is decoded and kept back.
LEMMA CountsTaken ==
    ASSUME NEW d \in Decoders, Tally(d, 1, 0), Within(d), ~d.crashed, NEW codes, NEW f,
           codes = {"INPUT_USED", "ONE_FRM_CONSUMED", "OUTPUT_NODIS"},
           NEW b \in AfterFlush(Answer(codes, d, f))
    PROVE  LET e == b.decoder
           IN  \/ /\ b = Answer(codes, e, f)
                  /\ e \in Decoders /\ Alike(d, e) /\ Tally(e, 0, 0) /\ ~e.crashed
               \/ ~b.ok /\ LeftAs(d, e, {})
<1> DEFINE g == Recalculate(d)
           e == Decrement(g)
<1>1. /\ g \in Decoders /\ Alike(d, g) /\ g.crashed = d.crashed /\ Tally(g, 1, 0)
      /\ ~g.recalculate
  BY Recalculated
<1> HIDE DEF g
<1>2. \/ b = Answer(codes, e, f) /\ b.decoder = e
      \/ Upsets(g) < MaxUpsets /\ b = Failure(Missing(g, {}))
  <2>1. StoreUserData(g, codes) = g
    BY DEF StoreUserData, Consumed
  <2>2. Count(g, codes) = e
    BY DEF Count, Consumed
  <2> HIDE DEF e
  <2>3. CountShown(e, codes, f) = {[ok |-> TRUE, decoder |-> e]}
    BY DEF CountShown
  <2>4. Shown(Answer(codes, d, f)) = {}
    BY DEF Shown, Answer
  <2>5. QED  BY <2>1, <2>2, <2>3, <2>4, Counted DEF g
<1>3. /\ e \in Decoders /\ Alike(g, e) /\ Tally(e, 0, 0) /\ e.crashed = g.crashed
  BY <1>1, Decremented
<1> HIDE DEF e
<1>4. CASE b = Answer(codes, e, f) /\ b.decoder = e
  BY <1>1, <1>3, <1>4 DEF Alike
<1>5. CASE Upsets(g) < MaxUpsets /\ b = Failure(Missing(g, {}))
  BY <1>5, CountsMissed DEF g
<1>6. QED  BY <1>2, <1>4, <1>5

\* A frame is decoded, and one is shown.
LEMMA CountsTakenAndShown ==
    ASSUME NEW d \in Decoders, Tally(d, 1, 1), Within(d), ~d.crashed, d.codec = "H264",
           NEW codes, NEW f \in Are(d, "shown"),
           codes = {"INPUT_USED", "ONE_FRM_CONSUMED", "OUTPUT_DIS"},
           NEW b \in AfterFlush(Answer(codes, d, f))
    PROVE  LET e == b.decoder
           IN  \/ /\ b = Answer(codes, e, f)
                  /\ e \in Decoders /\ Alike(d, e) /\ Tally(e, 0, 1) /\ ~e.crashed
               \/ ~b.ok /\ LeftAs(d, e, {f})
<1> DEFINE g == Recalculate(d)
           e == Decrement(g)
<1>1. /\ g \in Decoders /\ Alike(d, g) /\ g.crashed = d.crashed /\ Tally(g, 1, 1)
      /\ ~g.recalculate
  BY Recalculated
<1> HIDE DEF g
<1>2. /\ e \in Decoders /\ Alike(g, e) /\ Tally(e, 0, 1) /\ e.crashed = g.crashed
  BY <1>1, Decremented
<1>3. \/ b = Answer(codes, e, f) /\ b.decoder = e
      \/ Upsets(g) < MaxUpsets /\ b = Failure(Missing(g, {f}))
  <2>1. StoreUserData(g, codes) = g
    BY DEF StoreUserData, Consumed
  <2>2. Count(g, codes) = e
    BY DEF Count, Consumed
  <2> HIDE DEF e
  <2>3. CountShown(e, codes, f) = {[ok |-> TRUE, decoder |-> e]}
    BY <1>1, <1>2 DEF CountShown, ConsumptionInfo, Alike
  <2>4. Shown(Answer(codes, d, f)) = {f}
    BY DEF Shown, Answer
  <2>5. CountShown(Count(StoreUserData(g, codes), codes), codes, f) = {[ok |-> TRUE, decoder |-> e]}
    BY <2>1, <2>2, <2>3
  <2>6. "FLUSH" \notin codes /\ "RESOLUTION_CHANGED" \notin codes
    OBVIOUS
  <2>7. \/ b = Answer(codes, e, f) /\ b.decoder = e
        \/ Upsets(g) < MaxUpsets /\ b = Failure(Missing(g, Shown(Answer(codes, d, f))))
    BY <2>5, <2>6, Counted DEF g
  <2>8. QED  BY <2>4, <2>7
<1> HIDE DEF e
<1>4. CASE b = Answer(codes, e, f) /\ b.decoder = e
  BY <1>1, <1>2, <1>4 DEF Alike
<1>5. CASE Upsets(g) < MaxUpsets /\ b = Failure(Missing(g, {f}))
  <2>1. {f} \in SUBSET Are(d, "shown") /\ 1 \in 0 .. 1
    OBVIOUS
  <2>2. QED  BY <1>5, <2>1, CountsMissed DEF g
<1>6. QED  BY <1>3, <1>4, <1>5

\* A frame is decoded, and a mosaic frame is given back at once, or nobody gets it.
LEMMA CountsMosaic ==
    ASSUME NEW d \in Decoders, Tally(d, 1, 1), Within(d), ~d.crashed, NEW codes,
           codes = {"INPUT_USED", "ONE_FRM_CONSUMED", "OUTPUT_MOSAIC_DIS"},
           NEW f \in Are(d, "shown"),
           NEW b \in AfterFlush(Answer(codes, d, f))
    PROVE  LeftAs(d, b.decoder, {f}) /\ (b.ok => b.codes = codes)
<1> DEFINE g == Recalculate(d)
           h == Decrement(g)
           S == UNION {IF r.ok THEN MarkDisplayed(r.decoder, f) ELSE {r} : r \in GetDecodedFrame(h, f)}
<1>1. /\ g \in Decoders /\ Alike(d, g) /\ g.crashed = d.crashed /\ Tally(g, 1, 1)
      /\ ~g.recalculate
  BY Recalculated
<1> HIDE DEF g
<1>2. /\ h \in Decoders /\ Alike(g, h) /\ Tally(h, 0, 1) /\ h.crashed = g.crashed
  BY <1>1, Decremented
<1>3. \/ \E m \in S : b = IF m.ok THEN Answer(codes, m.decoder, f) ELSE Failure(m.decoder)
      \/ Upsets(g) < MaxUpsets /\ b = Failure(Missing(g, {f}))
  <2>1. StoreUserData(g, codes) = g
    BY DEF StoreUserData, Consumed
  <2>2. Count(g, codes) = h
    BY DEF Count, Consumed
  <2> HIDE DEF h
  <2>3. CountShown(h, codes, f) = S
    BY DEF CountShown
  <2>4. Shown(Answer(codes, d, f)) = {f}
    BY DEF Shown, Answer
  <2> DEFINE T == CountShown(Count(StoreUserData(g, codes), codes), codes, f)
  <2>5. T = S
    BY <2>1, <2>2, <2>3
  <2> HIDE DEF S, T
  <2>6. \/ \E m \in T : b = IF m.ok THEN Answer(codes, m.decoder, f) ELSE Failure(m.decoder)
        \/ Upsets(g) < MaxUpsets /\ b = Failure(Missing(g, Shown(Answer(codes, d, f))))
    BY NoFlush DEF g, T
  <2>7. QED  BY <2>4, <2>5, <2>6
<1> HIDE DEF h
<1>4. Alike(d, h) /\ h.crashed = d.crashed /\ Within(h) /\ f \in Are(h, "shown")
  <2>1. Alike(d, h) /\ h.crashed = d.crashed
    BY <1>1, <1>2 DEF Alike
  <2>2. QED  BY <2>1, AlikeMany, AlikeWithin DEF States
<1>5. ASSUME NEW m \in S
      PROVE  LeftAs(h, m.decoder, {f})
  <2>1. PICK r \in GetDecodedFrame(h, f) : m \in IF r.ok THEN MarkDisplayed(r.decoder, f) ELSE {r}
    BY <1>5
  <2>2. /\ r.ok \in BOOLEAN
        /\ r.ok => /\ r.decoder \in Decoders /\ Alike(h, r.decoder)
                   /\ r.decoder.crashed = h.crashed /\ Tally(r.decoder, 0, 0)
        /\ ~r.ok => LeftAs(h, r.decoder, {f})
    BY <1>2, <1>4, Getting
  <2>3. CASE ~r.ok
    BY <2>1, <2>2, <2>3
  <2>4. CASE r.ok
    <3> DEFINE i == r.decoder
    <3>1. m \in MarkDisplayed(i, f)
      BY <2>1, <2>4
    <3>2. /\ i \in Decoders /\ Alike(h, i) /\ i.crashed = h.crashed /\ Tally(i, 0, 0)
      BY <2>2, <2>4
    <3> HIDE DEF i
    <3>3. Within(i) /\ f \in Are(i, "shown")
      BY <1>4, <3>2, AlikeMany, AlikeWithin DEF States
    <3>4. LeftAs(i, m.decoder, {f})
      BY <3>1, <3>2, <3>3, Marked
    <3>5. QED  BY <3>2, <3>4, AlikeLeft
  <2>5. QED  BY <2>2, <2>3, <2>4
<1>6. CASE \E m \in S : b = IF m.ok THEN Answer(codes, m.decoder, f) ELSE Failure(m.decoder)
  <2>1. PICK m \in S : b = IF m.ok THEN Answer(codes, m.decoder, f) ELSE Failure(m.decoder)
    BY <1>6
  <2>2. b.decoder = m.decoder /\ (b.ok => b.codes = codes)
    BY <2>1 DEF Answer, Failure
  <2>3. LeftAs(d, m.decoder, {f})
    <3>1. LeftAs(h, m.decoder, {f})
      BY <1>5
    <3>2. QED  BY <1>4, <3>1, AlikeLeft
  <2>4. QED  BY <2>2, <2>3
<1>7. CASE Upsets(g) < MaxUpsets /\ b = Failure(Missing(g, {f}))
  <2>1. {f} \in SUBSET Are(d, "shown") /\ 1 \in 0 .. 1
    OBVIOUS
  <2>2. ~b.ok /\ LeftAs(d, b.decoder, {f})
    BY <1>7, <2>1, CountsMissed DEF g
  <2>3. QED  BY <2>2
<1>8. QED  BY <1>3, <1>6, <1>7

\* Without consumption info what is shown is counted.
LEMMA CountsShown ==
    ASSUME NEW d \in Decoders, Tally(d, 1, 1), ~d.crashed, d.userData, d.codec # "H264",
           NEW codes, NEW f, codes = {"INPUT_USED", "OUTPUT_DIS"},
           NEW b \in AfterFlush(Answer(codes, d, f))
    PROVE  LET e == b.decoder
           IN  /\ b = Answer(codes, e, f)
               /\ e \in Decoders /\ Alike(d, e) /\ Tally(e, 0, 1) /\ ~e.crashed
<1> DEFINE g == Recalculate(d)
           h == StoreUserData(g, codes)
           e == Decrement(h)
<1>1. /\ g \in Decoders /\ Alike(d, g) /\ g.crashed = d.crashed /\ Tally(g, 1, 1)
      /\ ~g.recalculate
  BY Recalculated
<1> HIDE DEF g
<1>2. /\ h \in Decoders /\ Alike(g, h) /\ Tally(h, 1, 1) /\ ~h.recalculate
      /\ g.userData /\ ~g.crashed => ~h.crashed
  BY <1>1, Stored
<1> HIDE DEF h
<1>3. /\ e \in Decoders /\ Alike(h, e) /\ Tally(e, 0, 1) /\ e.crashed = h.crashed
  BY <1>2, Decremented
<1>4. b = Answer(codes, e, f) /\ b.decoder = e
  <2>1. Count(h, codes) = h
    BY DEF Count, Consumed
  <2>2. CountShown(h, codes, f) = {[ok |-> TRUE, decoder |-> e]}
    BY <1>1, <1>2 DEF CountShown, ConsumptionInfo, Alike
  <2> HIDE DEF e
  <2>3. ~Consumed(codes)
    BY DEF Consumed
  <2>4. CountShown(Count(StoreUserData(Recalculate(d), codes), codes), codes, f)
            = {[ok |-> TRUE, decoder |-> e]}
    BY <2>1, <2>2 DEF g, h
  <2>5. "FLUSH" \notin codes /\ "RESOLUTION_CHANGED" \notin codes
    OBVIOUS
  <2>6. QED  BY <2>3, <2>4, <2>5, Counted
<1> HIDE DEF e
<1>5. QED  BY <1>1, <1>2, <1>3, <1>4 DEF Alike

\* A frame is shown while the VPU is drained.
LEMMA CountsDrained ==
    ASSUME NEW d \in Decoders, Tally(d, 0, 1), ~d.crashed, d.userData, d.codec = "H264",
           NEW codes, NEW f, codes = {"OUTPUT_DIS"},
           NEW b \in AfterFlush(Answer(codes, d, f))
    PROVE  LET e == b.decoder
           IN  /\ b = Answer(codes, e, f)
               /\ e \in Decoders /\ Alike(d, e) /\ Tally(e, 0, 1) /\ ~e.crashed
<1> DEFINE g == Recalculate(d)
           e == StoreUserData(g, codes)
<1>1. /\ g \in Decoders /\ Alike(d, g) /\ g.crashed = d.crashed /\ Tally(g, 0, 1)
      /\ ~g.recalculate
  BY Recalculated
<1> HIDE DEF g
<1>2. /\ e \in Decoders /\ Alike(g, e) /\ Tally(e, 0, 1)
      /\ g.userData /\ ~g.crashed => ~e.crashed
  BY <1>1, Stored
<1> HIDE DEF e
<1>3. b = Answer(codes, e, f) /\ b.decoder = e
  <2>1. Count(e, codes) = e
    BY DEF Count, Consumed
  <2>2. CountShown(e, codes, f) = {[ok |-> TRUE, decoder |-> e]}
    BY <1>1, <1>2 DEF CountShown, ConsumptionInfo, Alike
  <2>3. ~Consumed(codes)
    BY DEF Consumed
  <2>4. CountShown(Count(StoreUserData(Recalculate(d), codes), codes), codes, f)
            = {[ok |-> TRUE, decoder |-> e]}
    BY <2>1, <2>2 DEF e, g
  <2>5. "FLUSH" \notin codes /\ "RESOLUTION_CHANGED" \notin codes
    OBVIOUS
  <2>6. QED  BY <2>3, <2>4, <2>5, Counted
<1>4. QED  BY <1>1, <1>2, <1>3 DEF Alike

\* The VPU asks for a flush, which goes right or not.
LEMMA CountsFlushed ==
    ASSUME NEW d \in Decoders, Tally(d, 0, 0), ~d.crashed, NEW codes, NEW f,
           codes = {"INPUT_USED", "OUTPUT_NODIS", "FLUSH"},
           NEW b \in AfterFlush(Answer(codes, d, f))
    PROVE  LET e == b.decoder
           IN  /\ b = Answer(codes, e, f) \/ b = Failure(e)
               /\ e \in Decoders /\ e.codec = d.codec /\ e.vpu = d.vpu /\ e.changes = d.changes
               /\ e.userData = d.userData
               /\ Are(d, "free") \subseteq Are(e, "free")
               /\ Are(e, "decoded") \subseteq Are(d, "decoded")
               /\ Are(e, "shown") = Are(d, "shown")
               /\ e.missed = d.missed /\ e.unreturned = d.unreturned
               /\ Tally(e, 0, 0)
               /\ d.userData => ~e.crashed
<1> DEFINE a == Answer(codes, d, f)
           g == Recalculate(d)
           h == [FlushAll(g) EXCEPT !.flushed = TRUE]
           e == StoreUserData(h, codes)
           x == [g EXCEPT !.flushed = TRUE]
<1>1. /\ g \in Decoders /\ Alike(d, g) /\ g.crashed = d.crashed /\ Tally(g, 0, 0)
      /\ ~g.recalculate
  BY Recalculated
<1>2. /\ Are(g, "free") = Are(d, "free") /\ Are(g, "decoded") = Are(d, "decoded")
      /\ Are(g, "shown") = Are(d, "shown")
  BY <1>1, AlikeMany DEF States
<1>3. a.codes = codes /\ a.decoder = d /\ a.frame = f /\ b \in AfterFlush(a)
  BY DEF Answer
<1>4. b = Answer(codes, e, f) \/ b = Failure(x)
  <2>1. ForgetFrames(FlushInside(g, codes), codes) = h
    <3> HIDE DEF g
    <3>1. QED  BY DEF ForgetFrames, FlushInside
  <2>2. ~Consumed(codes)
    BY DEF Consumed
  <2> HIDE DEF h
  <2>3. CountShown(Count(e, codes), codes, f) = {[ok |-> TRUE, decoder |-> e]}
    <3> HIDE DEF e
    <3>1. QED  BY <2>2 DEF CountShown, Count
  <2> DEFINE forgot == ForgetFrames(FlushInside(Recalculate(a.decoder), a.codes), a.codes)
             S == CountShown(Count(StoreUserData(forgot, a.codes), a.codes), a.codes, a.frame)
  <2> HIDE DEF a
  <2>4. forgot = h
    BY <1>3, <2>1
  <2> HIDE DEF forgot
  <2>5. S = {[ok |-> TRUE, decoder |-> e]}
    BY <1>3, <2>3, <2>4
  <2> HIDE DEF S
  <2>6. \/ \E r \in S : b = IF r.ok THEN [a EXCEPT !.decoder = r.decoder] ELSE Failure(r.decoder)
        \/ Consumed(a.codes)
        \/ b = Failure([Recalculate(a.decoder) EXCEPT !.flushed = TRUE])
    BY <1>3, AfterForms DEF S, forgot
  <2>7. CASE \E r \in S : b = IF r.ok THEN [a EXCEPT !.decoder = r.decoder] ELSE Failure(r.decoder)
    <3> HIDE DEF e
    <3>1. PICK r \in S : b = IF r.ok THEN [a EXCEPT !.decoder = r.decoder] ELSE Failure(r.decoder)
      BY <2>7
    <3>2. r.ok = TRUE /\ r.decoder = e
      BY <2>5
    <3>3. b = [a EXCEPT !.decoder = e]
      BY <3>1, <3>2
    <3>4. QED  BY <3>3, AnswerOf DEF a
  <2>8. CASE b = Failure([Recalculate(a.decoder) EXCEPT !.flushed = TRUE])
    BY <1>3, <2>8
  <2>9. QED  BY <1>3, <2>2, <2>6, <2>7, <2>8
<1>5. CASE b = Answer(codes, e, f)
  <2>1. /\ h \in Decoders /\ h.codec = g.codec /\ h.vpu = g.vpu /\ h.changes = g.changes
        /\ h.userData = g.userData /\ h.crashed = g.crashed
        /\ Are(h, "free") = Are(g, "free") \cup Are(g, "decoded")
        /\ Are(h, "decoded") = {} /\ Are(h, "shown") = Are(g, "shown")
        /\ h.missed = g.missed /\ h.unreturned = g.unreturned
        /\ Tally(h, 0, 0)
    BY <1>1, FlushesItself
  <2> HIDE DEF h
  <2>2. /\ e \in Decoders /\ Alike(h, e) /\ Tally(e, 0, 0)
        /\ h.userData /\ ~h.crashed => ~e.crashed
    BY <2>1, Stored
  <2> HIDE DEF e
  <2>3. b = Answer(codes, e, f) /\ b.decoder = e
    BY <1>5 DEF Answer
  <2>4. /\ Are(e, "free") = Are(h, "free") /\ Are(e, "decoded") = Are(h, "decoded")
        /\ Are(e, "shown") = Are(h, "shown")
    BY <2>2, AlikeMany DEF States
  <2>5. QED  BY <1>1, <1>2, <2>1, <2>2, <2>3, <2>4 DEF Alike
<1>6. CASE b = Failure(x)
  <2>1. x \in Decoders /\ Alike(g, x) /\ x.crashed = g.crashed /\ Tally(x, 0, 0)
    BY <1>1, FlushFails
  <2> HIDE DEF x
  <2>2. b.decoder = x
    BY <1>6 DEF Failure
  <2>3. /\ Are(x, "free") = Are(g, "free") /\ Are(x, "decoded") = Are(g, "decoded")
        /\ Are(x, "shown") = Are(g, "shown")
    BY <2>1, AlikeMany DEF States
  <2>4. QED  BY <1>1, <1>2, <1>6, <2>1, <2>2, <2>3 DEF Alike
<1>7. QED  BY <1>4, <1>5, <1>6

\* The resolution has changed.
LEMMA CountsChanged ==
    ASSUME NEW d \in Decoders, Tally(d, 0, 0), NEW f, NEW codes,
           codes = {"RESOLUTION_CHANGED"},
           NEW b \in AfterFlush(Answer(codes, d, f))
    PROVE  LET e == b.decoder
           IN  /\ b = Answer(codes, e, f)
               /\ e \in Decoders /\ e.codec = d.codec /\ e.vpu = d.vpu /\ e.changes = d.changes
               /\ e.frames = d.frames
               /\ e.missed = d.missed /\ e.unreturned = d.unreturned
               /\ Tally(e, 0, 0)
<1> DEFINE a == Answer(codes, d, f)
           g == Recalculate(d)
           h == ForgetFrames(g, codes)
           e == StoreUserData(h, codes)
<1>1. /\ g \in Decoders /\ Alike(d, g) /\ Tally(g, 0, 0) /\ ~g.recalculate
  BY Recalculated
<1>2. a.codes = codes /\ a.decoder = d /\ a.frame = f /\ b \in AfterFlush(a)
  BY DEF Answer
<1>3. b = Answer(codes, e, f)
  <2>1. FlushInside(g, codes) = g
    BY DEF FlushInside
  <2>2. ~Consumed(codes)
    BY DEF Consumed
  <2> HIDE DEF g, h
  <2>3. CountShown(Count(e, codes), codes, f) = {[ok |-> TRUE, decoder |-> e]}
    <3> HIDE DEF e
    <3>1. QED  BY <2>2 DEF CountShown, Count
  <2> DEFINE forgot == ForgetFrames(FlushInside(Recalculate(a.decoder), a.codes), a.codes)
             S == CountShown(Count(StoreUserData(forgot, a.codes), a.codes), a.codes, a.frame)
  <2> HIDE DEF a
  <2>4. forgot = h
    BY <1>2, <2>1 DEF g, h
  <2> HIDE DEF forgot
  <2>5. S = {[ok |-> TRUE, decoder |-> e]}
    BY <1>2, <2>3, <2>4
  <2> HIDE DEF S
  <2>6. \/ \E r \in S : b = IF r.ok THEN [a EXCEPT !.decoder = r.decoder] ELSE Failure(r.decoder)
        \/ Consumed(a.codes)
        \/ "FLUSH" \in a.codes
    BY <1>2, AfterForms DEF S, forgot
  <2> HIDE DEF e
  <2>7. PICK r \in S : b = IF r.ok THEN [a EXCEPT !.decoder = r.decoder] ELSE Failure(r.decoder)
    BY <1>2, <2>2, <2>6
  <2>8. r.ok = TRUE /\ r.decoder = e
    BY <2>5
  <2>9. b = [a EXCEPT !.decoder = e]
    BY <2>7, <2>8
  <2>10. QED  BY <2>9, AnswerOf DEF a
<1> HIDE DEF g
<1>4. /\ h \in Decoders /\ h.codec = g.codec /\ h.vpu = g.vpu
      /\ h.changes = g.changes /\ h.frames = g.frames /\ Tally(h, 0, 0)
      /\ h.missed = g.missed /\ h.unreturned = g.unreturned
  BY <1>1, Forgotten
<1> HIDE DEF h
<1>5. e \in Decoders /\ Alike(h, e) /\ Tally(e, 0, 0)
  BY <1>4, Stored
<1> HIDE DEF e
<1>6. b = Answer(codes, e, f) /\ b.decoder = e
  BY <1>3 DEF Answer
<1>7. QED  BY <1>1, <1>4, <1>5, <1>6 DEF Alike

----------------------------------------------------------------------------
\* One buffer, from what the VPU answers

\* What holds of a decoder whatever stage it is in.
Stages(d) ==
    /\ d.vpu # "registered" => Are(d, "free") = Framebuffers
    /\ d.vpu = "registered" => d.userData
    /\ ~ConsumptionInfo(d) => Are(d, "decoded") = {}

\* Between two calls.
Sound(d) == d \in Decoders /\ Stages(d) /\ Within(d) /\ Tally(d, 0, 0)

\* A buffer can be decoded into a frame that is free.
CanDecode(d, data) ==
    data /\ d.vpu = "registered" /\ ~d.recalculate => d.available >= 1

\* The frames owed and the stage stay as they are.
Quiet(d, e) ==
    /\ Sound(e) /\ e.vpu = d.vpu /\ e.changes = d.changes
    /\ Owed(e) = Owed(d)

\* Framebuffers can be registered, at first or after a change of the resolution.
Restaged(d, e) ==
    /\ Sound(e) /\ e.vpu = "info"
    /\ \/ d.vpu = "opened" /\ e.changes = d.changes
       \/ d.vpu = "registered" /\ e.changes = d.changes + 1

\* A frame is shown that was not, and has yet to be fetched.
ShowsFrame(d, e, f) ==
    /\ e \in Decoders /\ Stages(e) /\ Within(e) /\ Tally(e, 0, 1) /\ ~e.crashed
    /\ d.vpu = "registered" /\ e.vpu = "registered" /\ e.changes = d.changes
    /\ f \in Are(e, "shown") \ Owed(d)
    /\ Owed(e) = Owed(d) \cup {f}

\* What comes back of a buffer.
Answered(d, b) ==
    \/ /\ Quiet(d, b.decoder)
       /\ b.ok => b.codes \cap {"INIT_OK", "RESOLUTION_CHANGED", "OUTPUT_DIS"} = {}
    \/ /\ Restaged(d, b.decoder)
       /\ b.ok /\ b.codes \cap {"INIT_OK", "RESOLUTION_CHANGED"} # {}
    \/ /\ ShowsFrame(d, b.decoder, b.frame)
       /\ b.ok /\ b.codes \cap {"INIT_OK", "RESOLUTION_CHANGED"} = {} /\ "OUTPUT_DIS" \in b.codes

\* A decoder in the same stage, but for the frames kept back.
LEMMA SameStage ==
    ASSUME NEW d \in Decoders, Stages(d), NEW e, e.vpu = d.vpu, e.changes = d.changes,
           e.codec = d.codec, e.userData = d.userData,
           d.vpu # "registered" => Are(e, "free") = Framebuffers,
           Are(d, "decoded") = {} => Are(e, "decoded") = {}
    PROVE  Stages(e)
BY DEF Stages, ConsumptionInfo

\* Counting leaves the stage as it is.
LEMMA AlikeStage ==
    ASSUME NEW d \in Decoders, Stages(d), NEW e, Alike(d, e)
    PROVE  Stages(e)
<1>1. \A s \in States : Are(e, s) = Are(d, s)
  BY AlikeMany
<1>2. Are(e, "free") = Are(d, "free") /\ Are(e, "decoded") = Are(d, "decoded")
  BY <1>1 DEF States
<1>3. QED  BY <1>2, SameStage DEF Alike, Stages

\* A frame that is shown is owed, and those that were are as before.
LEMMA FrameShown ==
    ASSUME NEW d, NEW x, Within(d), OnlyFrames(d, x), NEW f, f \notin Are(d, "shown"),
           Are(x, "shown") = Are(d, "shown") \cup {f}
    PROVE  /\ Within(x) /\ Owed(x) = Owed(d) \cup {f}
           /\ f \in Are(x, "shown") /\ f \notin Owed(d)
<1>1. x.unreturned = d.unreturned /\ x.changes = d.changes /\ x.missed = d.missed
  BY DEF OnlyFrames
<1>2. f \notin d.unreturned
  BY DEF Within
<1>3. QED  BY <1>1, <1>2 DEF Within, Owed

\* None is shown that was not.
LEMMA NoneShown ==
    ASSUME NEW d, NEW x, Within(d), Are(x, "shown") = Are(d, "shown"), x.changes = d.changes,
           x.missed = d.missed, x.unreturned = d.unreturned
    PROVE  Within(x) /\ Owed(x) = Owed(d)
BY DEF Within, Owed

\* The answers that tell neither of frames nor of the stage.
Idle ==
    { {"INPUT_USED"}, {"INPUT_USED", "OUTPUT_NODIS"}, {"INPUT_USED", "OUTPUT_DROPPED"},
      {"NO_ENOUGH_BUF"}, {"OUTPUT_EOS"} }

\* The VPU knows the format, at first and when the resolution changes.
Informing(d) == [d EXCEPT !.vpu = "info"]
Resolving(d) ==
    [d EXCEPT !.vpu = "info", !.changes = @ + 1, !.frames = [f \in Framebuffers |-> "free"],
              !.unreturned = {}]

\* What the VPU may answer.
LEMMA VpuAnswers ==
    ASSUME NEW d, d.vpu \in {"opened", "info", "registered"}, NEW data \in BOOLEAN,
           NEW a \in DecodeBuf(d, data)
    PROVE  \/ a = Failure(d)
           \/ \E codes \in Idle : a = Answer(codes, d, 0)
           \/ d.vpu = "opened" /\ a = Answer({"INPUT_USED", "INIT_OK"}, Informing(d), 0)
           \/ data /\ d.vpu = "registered" /\ a \in Decodes(d)
           \/ a = Answer({"INPUT_USED", "OUTPUT_NODIS", "FLUSH"}, d, 0)
           \/ /\ d.vpu = "registered" /\ Upsets(d) < MaxUpsets
              /\ a = Answer({"RESOLUTION_CHANGED"}, Resolving(d), 0)
           \/ \E f \in Are(d, "decoded") : a = Answer({"OUTPUT_DIS"}, Set(d, f, "shown"), f)
<1>1. CASE d.vpu = "info"
  BY <1>1 DEF DecodeBuf
<1>2. CASE d.vpu # "info" /\ a \in DecodesData(d) /\ data
  <2>1. CASE d.vpu = "opened"
    BY <1>2, <2>1 DEF DecodesData, Idle, Informing
  <2>2. CASE d.vpu # "opened"
    <3>1. d.vpu = "registered"
      BY <1>2, <2>2
    <3>2. \/ a \in Decodes(d)
          \/ a \in { Answer({"INPUT_USED", "OUTPUT_NODIS"}, d, 0),
                     Answer({"INPUT_USED", "OUTPUT_DROPPED"}, d, 0),
                     Answer({"INPUT_USED", "OUTPUT_NODIS", "FLUSH"}, d, 0) }
          \/ a = Answer({"NO_ENOUGH_BUF"}, d, 0)
          \/ Upsets(d) < MaxUpsets /\ a = Answer({"RESOLUTION_CHANGED"}, Resolving(d), 0)
      BY <1>2, <2>2 DEF DecodesData, Resolving
    <3>3. CASE a \in Decodes(d)
      BY <1>2, <3>1, <3>3
    <3>4. CASE a \in { Answer({"INPUT_USED", "OUTPUT_NODIS"}, d, 0),
                       Answer({"INPUT_USED", "OUTPUT_DROPPED"}, d, 0),
                       Answer({"INPUT_USED", "OUTPUT_NODIS", "FLUSH"}, d, 0) }
      BY <3>4 DEF Idle
    <3>5. CASE a = Answer({"NO_ENOUGH_BUF"}, d, 0)
      BY <3>5 DEF Idle
    <3>6. CASE Upsets(d) < MaxUpsets /\ a = Answer({"RESOLUTION_CHANGED"}, Resolving(d), 0)
      BY <3>1, <3>6
    <3>7. QED  BY <3>2, <3>3, <3>4, <3>5, <3>6
  <2>3. QED  BY <2>1, <2>2
<1>3. CASE d.vpu # "info" /\ a \in Drains(d)
  BY <1>3 DEF Drains, Idle
<1>4. CASE a = Failure(d)
  BY <1>4
<1>5. QED  BY <1>1, <1>2, <1>3, <1>4 DEF DecodeBuf

\* One that decodes a buffer into a frame.
LEMMA DecodeAnswers ==
    ASSUME NEW d, NEW a \in Decodes(d)
    PROVE  \E f \in Are(d, "free") :
             \/ /\ ~ConsumptionInfo(d)
                /\ a = Answer({"INPUT_USED", "OUTPUT_DIS"}, Set(d, f, "shown"), f)
             \/ /\ ConsumptionInfo(d)
                /\ \/ a = Answer({"INPUT_USED", "ONE_FRM_CONSUMED", "OUTPUT_NODIS"},
                                 Set(d, f, "decoded"), 0)
                   \/ \E g \in Are(Set(d, f, "decoded"), "decoded"),
                         c \in {"OUTPUT_DIS", "OUTPUT_MOSAIC_DIS"} :
                        a = Answer({"INPUT_USED", "ONE_FRM_CONSUMED", c},
                                   Set(Set(d, f, "decoded"), g, "shown"), g)
<1>1. CASE ~ConsumptionInfo(d)
  BY <1>1 DEF Decodes
<1>2. CASE ConsumptionInfo(d)
  <2> DEFINE used == {"INPUT_USED", "ONE_FRM_CONSUMED"}
  <2>1. PICK f \in Are(d, "free") : a \in Shows(Set(d, f, "decoded"), used)
    BY <1>2 DEF Decodes
  <2> DEFINE x == Set(d, f, "decoded")
  <2>2. CASE a = Answer(used \cup {"OUTPUT_NODIS"}, x, 0)
    <3>1. used \cup {"OUTPUT_NODIS"} = {"INPUT_USED", "ONE_FRM_CONSUMED", "OUTPUT_NODIS"}
      OBVIOUS
    <3>2. QED  BY <1>2, <2>2, <3>1
  <2>3. ASSUME NEW g \in Are(x, "decoded"), NEW c \in {"OUTPUT_DIS", "OUTPUT_MOSAIC_DIS"},
               a = Answer(used \cup {c}, Set(x, g, "shown"), g)
        PROVE  a = Answer({"INPUT_USED", "ONE_FRM_CONSUMED", c}, Set(x, g, "shown"), g)
    <3>1. used \cup {c} = {"INPUT_USED", "ONE_FRM_CONSUMED", c}
      OBVIOUS
    <3>2. QED  BY <2>3, <3>1
  <2>4. \/ a = Answer(used \cup {"OUTPUT_NODIS"}, x, 0)
        \/ \E g \in Are(x, "decoded"), c \in {"OUTPUT_DIS", "OUTPUT_MOSAIC_DIS"} :
               a = Answer(used \cup {c}, Set(x, g, "shown"), g)
    <3> HIDE DEF used, x
    <3>1. QED  BY <2>1 DEF Shows, used, x
  <2>5. QED  BY <1>2, <2>2, <2>3, <2>4
<1>3. QED  BY <1>1, <1>2

\* The parts of what comes back.
LEMMA AnswerFields ==
    \A codes, d, f :
        LET a == Answer(codes, d, f)
        IN  a.ok = TRUE /\ a.codes = codes /\ a.decoder = d /\ a.frame = f
BY DEF Answer

\* And of what comes back when the call fails: the decoder is as before.
LEMMA FailureFields == \A d : Failure(d).ok = FALSE /\ Failure(d).decoder = d
BY DEF Failure

\* Nothing has changed.
LEMMA SoundIsQuiet == ASSUME NEW d, Sound(d) PROVE Quiet(d, d)
BY DEF Quiet

\* A buffer is decoded into a frame.
LEMMA FramesAnswered ==
    ASSUME NEW d, Sound(d), ~d.crashed, d.vpu = "registered",
           ~d.recalculate => d.available >= 1,
           NEW a \in Decodes(d), NEW b \in AfterFlush(a)
    PROVE  Answered(d, b)
<1>1. d \in Decoders /\ Stages(d) /\ Within(d) /\ Tally(d, 0, 0) /\ d.userData
  BY DEF Sound, Stages
<1>2. PICK f \in Are(d, "free") :
         \/ /\ ~ConsumptionInfo(d)
            /\ a = Answer({"INPUT_USED", "OUTPUT_DIS"}, Set(d, f, "shown"), f)
         \/ /\ ConsumptionInfo(d)
            /\ \/ a = Answer({"INPUT_USED", "ONE_FRM_CONSUMED", "OUTPUT_NODIS"},
                             Set(d, f, "decoded"), 0)
               \/ \E g \in Are(Set(d, f, "decoded"), "decoded"),
                     c \in {"OUTPUT_DIS", "OUTPUT_MOSAIC_DIS"} :
                    a = Answer({"INPUT_USED", "ONE_FRM_CONSUMED", c},
                               Set(Set(d, f, "decoded"), g, "shown"), g)
  BY DecodeAnswers
<1>3. f \in Framebuffers /\ f \notin Are(d, "shown")
  BY DEF Are
<1> DEFINE e == b.decoder
<1>4. CASE /\ ~ConsumptionInfo(d)
           /\ a = Answer({"INPUT_USED", "OUTPUT_DIS"}, Set(d, f, "shown"), f)
  <2> DEFINE x == Set(d, f, "shown")
             codes == {"INPUT_USED", "OUTPUT_DIS"}
  <2>1. /\ x \in Decoders /\ OnlyFrames(d, x)
        /\ Are(x, "decoded") = Are(d, "decoded")
        /\ Are(x, "shown") = Are(d, "shown") \cup {f}
        /\ Tally(x, 1, 1)
    BY <1>1, ShownAtOnce
  <2>2. b \in AfterFlush(Answer(codes, x, f))
    BY <1>4
  <2> HIDE DEF x
  <2>9. Within(x) /\ Owed(x) = Owed(d) \cup {f} /\ f \in Are(x, "shown") /\ f \notin Owed(d)
    BY <1>1, <1>3, <2>1, FrameShown
  <2>3. b = Answer(codes, e, f) /\ e \in Decoders /\ Alike(x, e) /\ Tally(e, 0, 1) /\ ~e.crashed
    <3>1. ~x.crashed /\ x.userData /\ x.codec # "H264"
      BY <1>1, <1>4, <2>1 DEF OnlyFrames, ConsumptionInfo
    <3>2. QED  BY <2>1, <2>2, <3>1, CountsShown
  <2>4. Are(e, "decoded") = Are(x, "decoded") /\ Are(e, "shown") = Are(x, "shown")
    BY <2>3, AlikeMany DEF States
  <2>5. Stages(e)
    BY <1>1, <2>1, <2>3, <2>4, SameStage DEF OnlyFrames, Alike
  <2>6. b.ok /\ b.codes = codes /\ b.frame = f
    BY <2>3, AnswerFields
  <2>7. ShowsFrame(d, e, f)
    <3>1. Within(e) /\ Owed(e) = Owed(x)
      BY <2>3, <2>9, AlikeWithin
    <3>2. QED  BY <2>1, <2>3, <2>4, <2>5, <2>9, <3>1 DEF ShowsFrame, OnlyFrames, Alike
  <2> HIDE DEF e
  <2>8. QED  BY <2>6, <2>7 DEF Answered, e
<1>5. CASE ConsumptionInfo(d)
  <2> DEFINE x == Set(d, f, "decoded")
  <2>1. /\ x \in Decoders /\ OnlyFrames(d, x)
        /\ Are(x, "shown") = Are(d, "shown")
        /\ Tally(x, 1, 0)
    BY <1>1, Taken
  <2>2. d.codec = "H264"
    BY <1>5 DEF ConsumptionInfo
  <2>3. \/ a = Answer({"INPUT_USED", "ONE_FRM_CONSUMED", "OUTPUT_NODIS"}, x, 0)
        \/ \E g \in Are(x, "decoded"), c \in {"OUTPUT_DIS", "OUTPUT_MOSAIC_DIS"} :
               a = Answer({"INPUT_USED", "ONE_FRM_CONSUMED", c}, Set(x, g, "shown"), g)
    BY <1>2, <1>5
  <2> HIDE DEF x
  <2>9. Within(x) /\ Owed(x) = Owed(d)
    BY <1>1, <2>1, NoneShown DEF OnlyFrames
  <2>4. ASSUME NEW y, y.vpu = d.vpu, y.changes = d.changes, y.codec = d.codec,
               y.userData = d.userData
        PROVE  Stages(y)
    BY <1>1, <2>2, <2>4 DEF Stages, ConsumptionInfo
  <2>5. CASE a = Answer({"INPUT_USED", "ONE_FRM_CONSUMED", "OUTPUT_NODIS"}, x, 0)
    <3> DEFINE codes == {"INPUT_USED", "ONE_FRM_CONSUMED", "OUTPUT_NODIS"}
    <3>1. \/ b = Answer(codes, e, 0) /\ e \in Decoders /\ Alike(x, e) /\ Tally(e, 0, 0)
          \/ ~b.ok /\ LeftAs(x, e, {})
      BY <2>1, <2>5, <2>9, CountsTaken DEF OnlyFrames
    <3> HIDE DEF e
    <3>2. CASE b = Answer(codes, e, 0) /\ e \in Decoders /\ Alike(x, e) /\ Tally(e, 0, 0)
      <4>1. Within(e) /\ Owed(e) = Owed(x)
        BY <2>9, <3>2, AlikeWithin
      <4>2. Stages(e)
        BY <2>1, <2>4, <3>2 DEF OnlyFrames, Alike
      <4>3. Quiet(d, e)
        BY <2>1, <2>9, <3>2, <4>1, <4>2 DEF Quiet, Sound, OnlyFrames, Alike
      <4>4. b.codes = codes
        BY <3>2, AnswerFields
      <4>5. QED  BY <4>3, <4>4 DEF Answered, e
    <3>3. CASE ~b.ok /\ LeftAs(x, e, {})
      <4>1. Stages(e)
        BY <2>1, <2>4, <3>3 DEF OnlyFrames, LeftAs
      <4>2. Quiet(d, e)
        BY <2>1, <2>9, <3>3, <4>1 DEF Quiet, Sound, OnlyFrames, LeftAs
      <4>3. QED  BY <3>3, <4>2 DEF Answered, e
    <3>4. QED  BY <3>1, <3>2, <3>3
  <2>6. ASSUME NEW g \in Are(x, "decoded"),
               a = Answer({"INPUT_USED", "ONE_FRM_CONSUMED", "OUTPUT_DIS"},
                          Set(x, g, "shown"), g)
        PROVE  Answered(d, b)
    <3> DEFINE y == Set(x, g, "shown")
               codes == {"INPUT_USED", "ONE_FRM_CONSUMED", "OUTPUT_DIS"}
    <3>1. /\ y \in Decoders /\ OnlyFrames(x, y)
          /\ Are(y, "shown") = Are(x, "shown") \cup {g}
          /\ Tally(y, 1, 1)
      BY <2>1, Put
    <3>2. a = Answer(codes, y, g)
      BY <2>6
    <3>3. g \in Framebuffers /\ g \notin Are(x, "shown")
      BY DEF Are
    <3> HIDE DEF y
    <3>4. Within(y) /\ Owed(y) = Owed(x) \cup {g} /\ g \in Are(y, "shown") /\ g \notin Owed(x)
      BY <2>9, <3>1, <3>3, FrameShown
    <3>5. \/ b = Answer(codes, e, g) /\ e \in Decoders /\ Alike(y, e) /\ Tally(e, 0, 1) /\ ~e.crashed
          \/ ~b.ok /\ LeftAs(y, e, {g})
      BY <2>1, <2>2, <3>1, <3>2, <3>4, CountsTakenAndShown DEF OnlyFrames
    <3> HIDE DEF e
    <3>6. CASE /\ b = Answer(codes, e, g) /\ e \in Decoders /\ Alike(y, e) /\ Tally(e, 0, 1)
               /\ ~e.crashed
      <4>1. Within(e) /\ Owed(e) = Owed(y) /\ Are(e, "shown") = Are(y, "shown")
        BY <3>4, <3>6, AlikeWithin, AlikeMany DEF States
      <4>2. Stages(e)
        BY <2>1, <2>4, <3>1, <3>6 DEF OnlyFrames, Alike
      <4>3. ShowsFrame(d, e, g)
        BY <2>1, <2>9, <3>1, <3>4, <3>6, <4>1, <4>2 DEF ShowsFrame, OnlyFrames, Alike
      <4>4. b.ok /\ b.codes = codes /\ b.frame = g
        BY <3>6, AnswerFields
      <4>5. QED  BY <4>3, <4>4 DEF Answered, e
    <3>7. CASE ~b.ok /\ LeftAs(y, e, {g})
      <4>1. Stages(e)
        BY <2>1, <2>4, <3>1, <3>7 DEF OnlyFrames, LeftAs
      <4>2. Quiet(d, e)
        BY <2>1, <2>9, <3>1, <3>4, <3>7, <4>1 DEF Quiet, Sound, OnlyFrames, LeftAs
      <4>3. QED  BY <3>7, <4>2 DEF Answered, e
    <3>8. QED  BY <3>5, <3>6, <3>7
  <2>7. ASSUME NEW g \in Are(x, "decoded"),
               a = Answer({"INPUT_USED", "ONE_FRM_CONSUMED", "OUTPUT_MOSAIC_DIS"},
                          Set(x, g, "shown"), g)
        PROVE  Answered(d, b)
    <3> DEFINE y == Set(x, g, "shown")
               codes == {"INPUT_USED", "ONE_FRM_CONSUMED", "OUTPUT_MOSAIC_DIS"}
    <3>1. /\ y \in Decoders /\ OnlyFrames(x, y)
          /\ Are(y, "shown") = Are(x, "shown") \cup {g}
          /\ Tally(y, 1, 1)
      BY <2>1, Put
    <3>2. a = Answer(codes, y, g)
      BY <2>7
    <3>3. g \in Framebuffers /\ g \notin Are(x, "shown") /\ g \in Are(y, "shown")
      BY <3>1 DEF Are
    <3> HIDE DEF y
    <3>4. Within(y) /\ Owed(y) = Owed(x) \cup {g} /\ g \notin Owed(x)
      BY <2>9, <3>1, <3>3, FrameShown
    <3>9. b \in AfterFlush(Answer(codes, y, g)) /\ ~y.crashed /\ g \in Are(y, "shown")
      BY <2>1, <3>1, <3>2, <3>3 DEF OnlyFrames
    <3>5. LeftAs(y, e, {g}) /\ (b.ok => b.codes = codes)
      BY <3>1, <3>4, <3>9, CountsMosaic
    <3> HIDE DEF e
    <3>6. Stages(e)
      BY <2>1, <2>4, <3>1, <3>5 DEF OnlyFrames, LeftAs
    <3>7. Quiet(d, e)
      BY <2>1, <2>9, <3>1, <3>4, <3>5, <3>6 DEF Quiet, Sound, OnlyFrames, LeftAs
    <3>8. b.ok => b.codes \cap {"INIT_OK", "RESOLUTION_CHANGED", "OUTPUT_DIS"} = {}
      BY <3>5
    <3>10. QED  BY <3>7, <3>8 DEF Answered, e
  <2>8. QED  BY <2>3, <2>5, <2>6, <2>7
<1>6. QED  BY <1>2, <1>4, <1>5

\* Whatever comes back of a buffer.
LEMMA Answers ==
    ASSUME NEW d, Sound(d), ~d.crashed, NEW data \in BOOLEAN, CanDecode(d, data),
           NEW b \in DecodeFrame(d, data)
    PROVE  Answered(d, b)
<1>1. d \in Decoders /\ Stages(d) /\ Within(d) /\ Tally(d, 0, 0) /\ d.vpu \in {"opened", "info", "registered"}
  BY DEF Sound, Decoders
<1>2. PICK a \in DecodeBuf(d, data) : b \in IF a.ok THEN AfterFlush(a) ELSE {a}
  BY DEF DecodeFrame
<1> DEFINE e == b.decoder
<1>3. CASE a = Failure(d)
  <2>1. ~a.ok /\ a.decoder = d
    BY <1>3, FailureFields
  <2>2. b = a
    BY <1>2, <2>1
  <2>3. QED  BY <2>1, <2>2, SoundIsQuiet DEF Answered
<1>4. ASSUME NEW codes \in Idle, a = Answer(codes, d, 0)
      PROVE  Answered(d, b)
  <2>1. a.ok
    BY <1>4, AnswerFields
  <2>2. /\ "FLUSH" \notin codes /\ "RESOLUTION_CHANGED" \notin codes
        /\ "ONE_FRM_CONSUMED" \notin codes /\ "OUTPUT_DIS" \notin codes
        /\ "OUTPUT_MOSAIC_DIS" \notin codes /\ "INIT_OK" \notin codes
    BY DEF Idle
  <2>3. b \in AfterFlush(Answer(codes, d, 0))
    BY <1>2, <1>4, <2>1
  <2>4. b = Answer(codes, e, 0) /\ e \in Decoders /\ Alike(d, e) /\ Tally(e, 0, 0)
    BY <1>1, <2>2, <2>3, CountsNothing
  <2>5. Within(e) /\ Owed(e) = Owed(d)
    BY <1>1, <2>4, AlikeWithin
  <2>6. Quiet(d, e)
    BY <1>1, <2>4, <2>5, AlikeStage DEF Quiet, Sound, Alike
  <2>7. b.codes = codes
    BY <2>4, AnswerFields
  <2> HIDE DEF e
  <2>8. QED  BY <2>2, <2>6, <2>7 DEF Answered, e
<1>5. CASE /\ d.vpu = "opened"
           /\ a = Answer({"INPUT_USED", "INIT_OK"}, Informing(d), 0)
  <2> DEFINE x == Informing(d)
             codes == {"INPUT_USED", "INIT_OK"}
  <2>1. x \in Decoders
    BY <1>1, Assigned DEF Informing
  <2>2. /\ x.vpu = "info" /\ x.changes = d.changes /\ x.codec = d.codec
        /\ x.frames = d.frames /\ x.available = d.available /\ x.inUse = d.inUse
        /\ x.decremented = d.decremented /\ x.recalculate = d.recalculate
        /\ x.crashed = d.crashed /\ x.missed = d.missed /\ x.unreturned = d.unreturned
    BY <1>1 DEF Decoders, Informing
  <2>3. a.ok /\ b \in AfterFlush(Answer(codes, x, 0))
    BY <1>2, <1>5, AnswerFields
  <2> HIDE DEF x
  <2>4. /\ \A s \in States : Many(x, s) = Many(d, s) /\ Are(x, s) = Are(d, s)
        /\ Leaked(x) = Leaked(d)
    BY <2>2 DEF Many, Are, Leaked
  <2>5. Tally(x, 0, 0) /\ Within(x)
    <3>1. Tally(x, 0, 0)
      BY <1>1, <2>2, <2>4 DEF Tally, States
    <3>2. Within(x)
      BY <1>1, <2>2, <2>4, NoneShown DEF States
    <3>3. QED  BY <3>1, <3>2
  <2>6. b = Answer(codes, e, 0) /\ e \in Decoders /\ Alike(x, e) /\ Tally(e, 0, 0)
    BY <2>1, <2>2, <2>3, <2>5, CountsNothing
  <2>7. Are(e, "free") = Framebuffers /\ Are(e, "decoded") = Are(d, "decoded")
    BY <1>1, <1>5, <2>4, <2>6, AlikeMany DEF Stages, States
  <2>8. Stages(e)
    BY <1>1, <2>2, <2>6, <2>7 DEF Stages, Alike, ConsumptionInfo
  <2>9. Restaged(d, e)
    <3>1. Within(e)
      BY <2>5, <2>6, AlikeWithin
    <3>2. QED  BY <1>5, <2>2, <2>6, <2>8, <3>1 DEF Restaged, Sound, Alike
  <2>10. b.ok /\ b.codes = codes
    BY <2>6, AnswerFields
  <2> HIDE DEF e
  <2>11. QED  BY <2>9, <2>10 DEF Answered, e
<1>6. CASE data /\ d.vpu = "registered" /\ a \in Decodes(d)
  <2>1. a.ok
    <3>1. PICK f \in Are(d, "free") :
             \/ a = Answer({"INPUT_USED", "OUTPUT_DIS"}, Set(d, f, "shown"), f)
             \/ a = Answer({"INPUT_USED", "ONE_FRM_CONSUMED", "OUTPUT_NODIS"},
                           Set(d, f, "decoded"), 0)
             \/ \E g \in Are(Set(d, f, "decoded"), "decoded"),
                   c \in {"OUTPUT_DIS", "OUTPUT_MOSAIC_DIS"} :
                  a = Answer({"INPUT_USED", "ONE_FRM_CONSUMED", c},
                             Set(Set(d, f, "decoded"), g, "shown"), g)
      BY <1>6, DecodeAnswers
    <3>2. \E codes, x, g : a = Answer(codes, x, g)
      BY <3>1
    <3>3. QED  BY <3>2, AnswerFields
  <2>2. b \in AfterFlush(a)
    BY <1>2, <2>1
  <2>3. ~d.recalculate => d.available >= 1
    BY <1>6 DEF CanDecode
  <2>4. QED  BY <1>6, <2>2, <2>3, FramesAnswered
<1>7. CASE a = Answer({"INPUT_USED", "OUTPUT_NODIS", "FLUSH"}, d, 0)
  <2> DEFINE codes == {"INPUT_USED", "OUTPUT_NODIS", "FLUSH"}
  <2>1. a.ok /\ b \in AfterFlush(Answer(codes, d, 0))
    BY <1>2, <1>7, AnswerFields
  <2>2. /\ b = Answer(codes, e, 0) \/ b = Failure(e)
        /\ e \in Decoders /\ e.codec = d.codec /\ e.vpu = d.vpu /\ e.changes = d.changes
        /\ e.userData = d.userData
        /\ Are(d, "free") \subseteq Are(e, "free")
        /\ Are(e, "decoded") \subseteq Are(d, "decoded")
        /\ Are(e, "shown") = Are(d, "shown")
        /\ e.missed = d.missed /\ e.unreturned = d.unreturned
        /\ Tally(e, 0, 0)
    BY <1>1, <2>1, CountsFlushed
  <2>3. Are(e, "free") \subseteq Framebuffers
    BY DEF Are
  <2> HIDE DEF e
  <2>4. Stages(e)
    BY <1>1, <2>2, <2>3 DEF Stages, ConsumptionInfo
  <2>5. Quiet(d, e)
    <3>1. Within(e) /\ Owed(e) = Owed(d)
      BY <1>1, <2>2, NoneShown
    <3>2. QED  BY <2>2, <2>4, <3>1 DEF Quiet, Sound
  <2>6. b.ok => b.codes = codes
    BY <2>2, AnswerFields, FailureFields
  <2>7. QED  BY <2>5, <2>6 DEF Answered, e
<1>8. CASE /\ d.vpu = "registered" /\ Upsets(d) < MaxUpsets
           /\ a = Answer({"RESOLUTION_CHANGED"}, Resolving(d), 0)
  <2> DEFINE x == Resolving(d)
             codes == {"RESOLUTION_CHANGED"}
  <2>1. /\ x \in Decoders /\ x.vpu = "info" /\ x.changes = d.changes + 1
        /\ x.codec = d.codec /\ Are(x, "free") = Framebuffers /\ Tally(x, 0, 0)
        /\ x.missed = d.missed /\ x.unreturned = {}
    BY <1>1, Changed DEF Resolving
  <2>2. a.ok /\ b \in AfterFlush(Answer(codes, x, 0))
    BY <1>2, <1>8, AnswerFields
  <2> HIDE DEF x
  <2>3. /\ b = Answer(codes, e, 0) /\ e \in Decoders /\ e.codec = x.codec /\ e.vpu = x.vpu
        /\ e.changes = x.changes /\ e.frames = x.frames /\ Tally(e, 0, 0)
        /\ e.missed = x.missed /\ e.unreturned = x.unreturned
    BY <2>1, <2>2, CountsChanged
  <2>4. Are(e, "free") = Framebuffers /\ Are(e, "decoded") = {}
    <3>1. Are(e, "free") = Framebuffers
      BY <2>1, <2>3 DEF Are
    <3>2. Are(e, "decoded") = {}
      BY <3>1 DEF Are
    <3>3. QED  BY <3>1, <3>2
  <2>5. Within(e)
    <3>1. d.changes \in Nat /\ d.missed \in Nat /\ MaxUpsets \in Nat
      BY <1>1, FramebuffersAssumption DEF Decoders
    <3>2. e.changes + e.missed <= MaxUpsets
      BY <1>8, <2>1, <2>3, <3>1 DEF Upsets
    <3>3. QED  BY <2>1, <2>3, <3>2 DEF Within
  <2>6. Stages(e)
    BY <2>1, <2>3, <2>4 DEF Stages
  <2>7. Restaged(d, e)
    BY <1>8, <2>1, <2>3, <2>5, <2>6 DEF Restaged, Sound
  <2>8. b.ok /\ b.codes = codes
    BY <2>3, AnswerFields
  <2> HIDE DEF e
  <2>9. QED  BY <2>7, <2>8 DEF Answered, e
<1>9. ASSUME NEW f \in Are(d, "decoded"), a = Answer({"OUTPUT_DIS"}, Set(d, f, "shown"), f)
      PROVE  Answered(d, b)
  <2> DEFINE x == Set(d, f, "shown")
             codes == {"OUTPUT_DIS"}
  <2>0. f \in Framebuffers \ Are(d, "shown") /\ f \notin Are(d, "free")
    BY DEF Are
  <2>1. d.vpu = "registered" /\ ConsumptionInfo(d) /\ d.userData
    BY <1>1, <2>0 DEF Stages
  <2>2. /\ x \in Decoders /\ OnlyFrames(d, x)
        /\ Are(x, "shown") = Are(d, "shown") \cup {f}
        /\ Tally(x, 0, 1)
    BY <1>1, Put
  <2>3. a.ok /\ b \in AfterFlush(Answer(codes, x, f))
    BY <1>2, <1>9, AnswerFields
  <2> HIDE DEF x
  <2>4. b = Answer(codes, e, f) /\ e \in Decoders /\ Alike(x, e) /\ Tally(e, 0, 1) /\ ~e.crashed
    BY <2>1, <2>2, <2>3, CountsDrained DEF OnlyFrames, ConsumptionInfo
  <2>5. Are(e, "shown") = Are(x, "shown")
    BY <2>4, AlikeMany DEF States
  <2>6. Stages(e)
    BY <1>1, <2>1, <2>2, <2>4 DEF Stages, ConsumptionInfo, OnlyFrames, Alike
  <2>7. ShowsFrame(d, e, f)
    <3>1. Within(x) /\ Owed(x) = Owed(d) \cup {f} /\ f \in Are(x, "shown") /\ f \notin Owed(d)
      BY <1>1, <2>0, <2>2, FrameShown
    <3>2. Within(e) /\ Owed(e) = Owed(x)
      BY <2>4, <3>1, AlikeWithin
    <3>3. QED  BY <2>1, <2>2, <2>4, <2>5, <2>6, <3>1, <3>2 DEF ShowsFrame, OnlyFrames, Alike
  <2>8. b.ok /\ b.codes = codes /\ b.frame = f
    BY <2>4, AnswerFields
  <2> HIDE DEF e
  <2>9. QED  BY <2>7, <2>8 DEF Answered, e
<1>10. \/ a = Failure(d)
       \/ \E codes \in Idle : a = Answer(codes, d, 0)
       \/ d.vpu = "opened" /\ a = Answer({"INPUT_USED", "INIT_OK"}, Informing(d), 0)
       \/ data /\ d.vpu = "registered" /\ a \in Decodes(d)
       \/ a = Answer({"INPUT_USED", "OUTPUT_NODIS", "FLUSH"}, d, 0)
       \/ /\ d.vpu = "registered" /\ Upsets(d) < MaxUpsets
          /\ a = Answer({"RESOLUTION_CHANGED"}, Resolving(d), 0)
       \/ \E f \in Are(d, "decoded") : a = Answer({"OUTPUT_DIS"}, Set(d, f, "shown"), f)
  BY <1>1, VpuAnswers
<1> HIDE DEF e
<1>11. QED
  BY <1>3, <1>4, <1>5, <1>6, <1>7, <1>8, <1>9, <1>10

----------------------------------------------------------------------------
\* Messages of one kind

\* Where the messages of a kind are, the ids they carry and how many there are.
At(t, w) == {i \in DOMAIN t : t[i][1] = w}
IdsOf(t, w) == {t[i][2] : i \in At(t, w)}
HowMany(t, w) == Cardinality(At(t, w))

\* There are as many as can be counted.
LEMMA AtFinite ==
    ASSUME NEW t \in Seq(Tasks), NEW w
    PROVE  /\ IsFiniteSet(At(t, w)) /\ HowMany(t, w) \in Nat
           /\ At(t, w) \subseteq 1 .. Len(t)
<1>1. At(t, w) \in SUBSET (1 .. Len(t)) /\ Len(t) \in Nat
  BY DEF At
<1>2. IsFiniteSet(1 .. Len(t))
  BY <1>1, FS_Interval
<1>3. IsFiniteSet(At(t, w))
  BY <1>1, <1>2, FS_Subset
<1>4. QED  BY <1>1, <1>3, FS_CardinalityType DEF HowMany

\* Posting adds what is posted at the end.
Adds(t, p, u, w) ==
    /\ u \in Seq(Tasks)
    /\ At(u, w) = At(t, w) \cup {Len(t) + i : i \in At(p, w)}
    /\ \A i \in At(t, w) : u[i] = t[i]
    /\ \A i \in At(p, w) : Len(t) + i \notin At(t, w) /\ u[Len(t) + i] = p[i]

\* Appending posts.
LEMMA PostingOf ==
    ASSUME NEW t \in Seq(Tasks), NEW p \in Seq(Tasks), NEW w
    PROVE  Adds(t, p, t \o p, w)
<1> DEFINE u == t \o p
<1>1. /\ u \in Seq(Tasks) /\ Len(u) = Len(t) + Len(p)
      /\ \A i \in 1 .. Len(t) : u[i] = t[i]
      /\ \A i \in 1 .. Len(p) : u[Len(t) + i] = p[i]
  OBVIOUS
<1>2. DOMAIN u = 1 .. Len(u) /\ DOMAIN t = 1 .. Len(t) /\ DOMAIN p = 1 .. Len(p)
  BY <1>1
<1>3. Len(t) \in Nat /\ Len(p) \in Nat
  OBVIOUS
<1>4. \A i \in DOMAIN u : i \in DOMAIN t \/ \E j \in DOMAIN p : i = Len(t) + j
  <2> SUFFICES ASSUME NEW i \in DOMAIN u, i \notin DOMAIN t
               PROVE  \E j \in DOMAIN p : i = Len(t) + j
    OBVIOUS
  <2>1. i - Len(t) \in 1 .. Len(p)
    BY <1>1, <1>2, <1>3
  <2>2. QED  BY <2>1, <1>2, <1>3
<1>5. \A i \in DOMAIN t : i \in DOMAIN u /\ u[i] = t[i]
  BY <1>1, <1>2, <1>3
<1>6. \A j \in DOMAIN p : Len(t) + j \in DOMAIN u /\ u[Len(t) + j] = p[j]
  BY <1>1, <1>2, <1>3
<1> HIDE DEF u
<1>7. At(u, w) = At(t, w) \cup {Len(t) + i : i \in At(p, w)}
  BY <1>4, <1>5, <1>6 DEF At
<1>8. \A i \in At(p, w) : Len(t) + i \notin DOMAIN t
  BY <1>2, <1>3 DEF At
<1>9. Adds(t, p, u, w)
  BY <1>1, <1>5, <1>6, <1>7, <1>8 DEF Adds, At
<1>10. QED  BY <1>9 DEF u

\* None of a kind, and one.
LEMMA PostingNone ==
    ASSUME NEW t, NEW p, NEW u, NEW w, Adds(t, p, u, w), At(p, w) = {}
    PROVE  /\ IdsOf(u, w) = IdsOf(t, w) /\ HowMany(u, w) = HowMany(t, w)
           /\ At(u, w) = At(t, w) /\ \A i \in At(t, w) : u[i] = t[i]
<1>1. At(u, w) = At(t, w) /\ \A i \in At(t, w) : u[i] = t[i]
  BY DEF Adds
<1>2. QED  BY <1>1 DEF IdsOf, HowMany

\* One of a kind is one more.
LEMMA PostingOne ==
    ASSUME NEW t \in Seq(Tasks), NEW p, NEW u, NEW w, Adds(t, p, u, w),
           NEW k, At(p, w) = {k}
    PROVE  /\ IdsOf(u, w) = IdsOf(t, w) \cup {p[k][2]}
           /\ HowMany(u, w) = HowMany(t, w) + 1
           /\ At(u, w) = At(t, w) \cup {Len(t) + k}
           /\ Len(t) + k \notin At(t, w) /\ u[Len(t) + k] = p[k]
           /\ \A i \in At(t, w) : u[i] = t[i]
<1> DEFINE n == Len(t) + k
<1>1. /\ At(u, w) = At(t, w) \cup {n}
      /\ n \notin At(t, w) /\ u[n] = p[k]
      /\ \A i \in At(t, w) : u[i] = t[i]
  BY DEF Adds
<1> HIDE DEF n
<1>2. IdsOf(u, w) = IdsOf(t, w) \cup {p[k][2]}
  BY <1>1 DEF IdsOf
<1>3. HowMany(u, w) = HowMany(t, w) + 1
  <2>1. IsFiniteSet(At(t, w))
    BY AtFinite
  <2>2. Cardinality(At(t, w) \cup {n}) = Cardinality(At(t, w)) + 1
    BY <1>1, <2>1, FS_AddElement
  <2>3. QED  BY <1>1, <2>2 DEF HowMany
<1>4. QED  BY <1>1, <1>2, <1>3 DEF n

\* What is left when the first message has been heard.
LEMMA HeardOf ==
    ASSUME NEW t \in Seq(Tasks), t # <<>>, NEW w
    PROVE  LET u == Tail(t)
           IN  /\ u \in Seq(Tasks)
               /\ \A i \in At(u, w) : i + 1 \in At(t, w) /\ u[i] = t[i + 1] /\ i \in Nat \ {0}
               /\ \A i \in At(t, w) : i = 1 \/ (i - 1 \in At(u, w) /\ u[i - 1] = t[i])
               /\ 1 \in At(t, w) <=> Head(t)[1] = w
               /\ Head(t) = t[1]
               /\ Head(t)[1] = w => HowMany(t, w) = HowMany(u, w) + 1
               /\ Head(t)[1] # w => /\ HowMany(t, w) = HowMany(u, w)
                                    /\ IdsOf(t, w) = IdsOf(u, w)
<1> DEFINE u == Tail(t)
<1>1. /\ u \in Seq(Tasks) /\ Len(u) = Len(t) - 1 /\ Len(t) \in Nat \ {0}
      /\ \A i \in 1 .. Len(u) : u[i] = t[i + 1]
      /\ DOMAIN u = 1 .. (Len(t) - 1) /\ DOMAIN t = 1 .. Len(t)
      /\ Head(t) = t[1]
  OBVIOUS
<1> HIDE DEF u
<1>2. \A i \in DOMAIN u : i + 1 \in DOMAIN t /\ u[i] = t[i + 1] /\ i \in Nat \ {0}
  BY <1>1
<1>3. \A i \in DOMAIN t : i = 1 \/ (i - 1 \in DOMAIN u /\ u[i - 1] = t[i])
  BY <1>1
<1>4. 1 \in DOMAIN t
  BY <1>1
<1>5. /\ \A i \in At(u, w) : i + 1 \in At(t, w) /\ u[i] = t[i + 1] /\ i \in Nat \ {0}
      /\ \A i \in At(t, w) : i = 1 \/ (i - 1 \in At(u, w) /\ u[i - 1] = t[i])
      /\ 1 \in At(t, w) <=> Head(t)[1] = w
  BY <1>1, <1>2, <1>3, <1>4 DEF At
<1>6. IsFiniteSet(At(u, w)) /\ IsFiniteSet(At(t, w)) /\ At(t, w) \subseteq 1 .. Len(t)
  BY <1>1, AtFinite
<1> DEFINE later == At(t, w) \ {1}
<1>7. IsFiniteSet(later) /\ Cardinality(later) = Cardinality(At(u, w))
  <2> DEFINE f == [i \in At(u, w) |-> i + 1]
  <2>1. f \in Bijection(At(u, w), later)
    <3>1. \A i \in At(u, w) : i + 1 \in later
      BY <1>5
    <3>2. f \in [At(u, w) -> later]
      BY <3>1
    <3>3. \A i, j \in At(u, w) : f[i] = f[j] => i = j
      BY <1>5
    <3>4. \A j \in later : \E i \in At(u, w) : f[i] = j
      <4> SUFFICES ASSUME NEW j \in later
                   PROVE  \E i \in At(u, w) : f[i] = j
        OBVIOUS
      <4>1. j - 1 \in At(u, w) /\ j \in Int
        BY <1>1, <1>5, <1>6
      <4>2. f[j - 1] = j
        BY <4>1
      <4>3. QED  BY <4>1, <4>2
    <3> HIDE DEF f, later
    <3>5. QED  BY <3>2, <3>3, <3>4 DEF Bijection, Injection, Surjection, IsInjective
  <2>2. ExistsBijection(At(u, w), later)
    BY <2>1 DEF ExistsBijection
  <2>3. QED  BY <1>6, <2>2, FS_Bijection
<1>8. Head(t)[1] = w => HowMany(t, w) = HowMany(u, w) + 1
  <2> SUFFICES ASSUME Head(t)[1] = w
               PROVE  HowMany(t, w) = HowMany(u, w) + 1
    OBVIOUS
  <2>1. At(t, w) = later \cup {1} /\ 1 \notin later
    BY <1>5
  <2> HIDE DEF later
  <2>2. Cardinality(later \cup {1}) = Cardinality(later) + 1
    BY <1>7, <2>1, FS_AddElement
  <2>3. QED  BY <1>7, <2>1, <2>2 DEF HowMany
<1>9. Head(t)[1] # w => HowMany(t, w) = HowMany(u, w)
  <2>1. Head(t)[1] # w => At(t, w) = later
    BY <1>5
  <2>2. QED  BY <1>7, <2>1 DEF HowMany
<1>10. Head(t)[1] # w => IdsOf(t, w) = IdsOf(u, w)
  <2> SUFFICES ASSUME Head(t)[1] # w
               PROVE  IdsOf(t, w) = IdsOf(u, w)
    OBVIOUS
  <2>1. \A i \in At(t, w) : i - 1 \in At(u, w) /\ u[i - 1] = t[i]
    BY <1>5
  <2>2. IdsOf(t, w) \subseteq IdsOf(u, w)
    BY <2>1 DEF IdsOf
  <2>3. IdsOf(u, w) \subseteq IdsOf(t, w)
    BY <1>5 DEF IdsOf
  <2>4. QED  BY <2>2, <2>3
<1>11. QED  BY <1>1, <1>5, <1>8, <1>9, <1>10 DEF u

\* What ProcessInput posts: the end of the buffer, and one message of another kind.
LEMMA PostedOf ==
    ASSUME NEW input, input = <<>> \/ \E b \in Buffers : input = <<b>>
    PROVE  /\ End(input) \in Seq(Tasks)
           /\ \A w \in {"ready", "provide"} : At(End(input), w) = {}
           /\ \A w \in {"ready", "provide"}, id \in Int :
                LET p == Append(End(input), <<w, id>>)
                IN  /\ p \in Seq(Tasks)
                    /\ At(p, w) = {Len(End(input)) + 1} /\ p[Len(End(input)) + 1] = <<w, id>>
                    /\ \A v \in {"ready", "provide"} \ {w} : At(p, v) = {}
<1> DEFINE e == End(input)
<1>1. e \in Seq(Tasks) /\ \A i \in DOMAIN e : e[i][1] = "end"
  <2>1. CASE input = <<>>
    BY <2>1 DEF End
  <2>2. CASE \E b \in Buffers : input = <<b>>
    <3>1. PICK b \in Buffers : input = <<b>>
      BY <2>2
    <3>2. e = <<<<"end", b>>>>
      BY <3>1 DEF End
    <3>3. <<"end", b>> \in Tasks
      BY DEF Tasks, Words
    <3>4. e \in Seq(Tasks) /\ DOMAIN e = {1} /\ e[1][1] = "end"
      BY <3>2, <3>3
    <3>5. QED  BY <3>4
  <2>3. QED  BY <2>1, <2>2
<1> HIDE DEF e
<1>2. \A w \in {"ready", "provide"} : At(e, w) = {}
  BY <1>1 DEF At
<1>3. ASSUME NEW w \in {"ready", "provide"}, NEW id \in Int
      PROVE  LET p == Append(e, <<w, id>>)
             IN  /\ p \in Seq(Tasks)
                 /\ At(p, w) = {Len(e) + 1} /\ p[Len(e) + 1] = <<w, id>>
                 /\ \A v \in {"ready", "provide"} \ {w} : At(p, v) = {}
  <2> DEFINE m == <<w, id>>
             p == Append(e, m)
  <2>1. m \in Tasks /\ m[1] = w
    BY DEF Tasks, Words
  <2> HIDE DEF m
  <2>2. /\ p \in Seq(Tasks) /\ DOMAIN p = DOMAIN e \cup {Len(e) + 1}
        /\ p[Len(e) + 1] = m /\ \A i \in DOMAIN e : p[i] = e[i]
    BY <1>1, <2>1
  <2> HIDE DEF p
  <2>3. At(p, w) = {Len(e) + 1} /\ \A v \in {"ready", "provide"} \ {w} : At(p, v) = {}
    BY <1>1, <2>1, <2>2 DEF At
  <2>4. QED  BY <2>2, <2>3 DEF p, m
<1>4. QED  BY <1>1, <1>2, <1>3 DEF e

----------------------------------------------------------------------------
\* What ProcessInput makes of the decoder, the pictures and the messages

\* No framebuffer has a picture.
NoTags == [f \in Framebuffers |-> 0]

\* Nothing is shown that was not, or only the stage is another one.
Keeps(d, r, input, ids) ==
    /\ Quiet(d, r.decoder) \/ Restaged(d, r.decoder)
    /\ r.tags = ids /\ ~r.informed
    /\ r.posted \in {<<>>, End(input)}

\* Framebuffers are registered, and the client is asked for pictures.
Asks(d, r, input) ==
    /\ Sound(r.decoder) /\ r.decoder.vpu = "registered"
    /\ Are(r.decoder, "free") = Framebuffers
    /\ \/ d.vpu = "opened" /\ r.decoder.changes = d.changes
       \/ d.vpu = "registered" /\ r.decoder.changes = d.changes + 1
    /\ r.tags = NoTags /\ r.informed
    /\ r.posted = Append(End(input), <<"provide", 0>>)

\* The picture of a frame is sent.
Sends(d, r, input, pics, ids) ==
    /\ Sound(r.decoder) /\ d.vpu = "registered" /\ r.decoder.vpu = "registered"
    /\ r.decoder.changes = d.changes
    /\ r.tags = ids /\ ~r.informed
    /\ \E f \in Framebuffers \ Owed(d) :
         /\ Owed(r.decoder) = Owed(d) \cup {f}
         /\ ids[f] \in pics
         /\ r.posted = Append(End(input), <<"ready", ids[f]>>)

\* It is one of the three, whatever the VPU answers.
LEMMA InputResults ==
    ASSUME NEW d, Sound(d), ~d.crashed, NEW input, NEW pics, NEW ids,
           CanDecode(d, input # <<>>), NEW r \in ProcessInput(d, input, pics, ids)
    PROVE  \/ Keeps(d, r, input, ids)
           \/ Asks(d, r, input)
           \/ Sends(d, r, input, pics, ids)
<1> DEFINE data == (input # <<>>)
<1>1. PICK b \in DecodeFrame(d, data) : r \in Processed(b, input, pics, ids)
  BY DEF ProcessInput
<1>2. Answered(d, b)
  <2>1. data \in BOOLEAN /\ CanDecode(d, data)
    OBVIOUS
  <2> HIDE DEF data
  <2>2. QED  BY <1>1, <2>1, Answers
<1> HIDE DEF data
<1>3. CASE ~b.ok \/ b.decoder.crashed
  <2>1. r = Undecoded(b, ids)
    BY <1>1, <1>3 DEF Processed
  <2>2. r.decoder = b.decoder /\ r.tags = ids /\ ~r.informed /\ r.posted = <<>>
    BY <2>1 DEF Undecoded
  <2>3. Quiet(d, b.decoder) \/ Restaged(d, b.decoder)
    BY <1>2, <1>3 DEF Answered, ShowsFrame
  <2>4. QED  BY <2>2, <2>3 DEF Keeps
<1>4. CASE /\ b.ok /\ ~b.decoder.crashed
           /\ b.codes \cap {"INIT_OK", "RESOLUTION_CHANGED"} # {}
  <2>1. Restaged(d, b.decoder)
    BY <1>2, <1>4 DEF Answered
  <2>2. PICK x \in AllocateAndRegister(b.decoder) : r = Informed(x, input, ids)
    BY <1>1, <1>4 DEF Processed
  <2>3. \/ x = [ok |-> FALSE, decoder |-> b.decoder]
        \/ x = [ok |-> TRUE, decoder |-> RegisterFramebuffers(b.decoder)]
    BY <2>2 DEF AllocateAndRegister
  <2>4. CASE x = [ok |-> FALSE, decoder |-> b.decoder]
    <3>1. r.decoder = b.decoder /\ r.tags = ids /\ ~r.informed /\ r.posted = End(input)
      BY <2>2, <2>4 DEF Informed
    <3>2. QED  BY <2>1, <3>1 DEF Keeps
  <2>5. CASE x = [ok |-> TRUE, decoder |-> RegisterFramebuffers(b.decoder)]
    <3> DEFINE e == RegisterFramebuffers(b.decoder)
    <3>1. /\ r.decoder = e /\ r.tags = NoTags /\ r.informed
          /\ r.posted = Append(End(input), <<"provide", 0>>)
      <4> HIDE DEF e
      <4>1. x.ok = TRUE /\ x.decoder = e
        BY <2>5 DEF e
      <4>2. QED  BY <2>2, <4>1 DEF Informed, NoTags
    <3>2. Sound(b.decoder) /\ b.decoder.vpu = "info"
      BY <2>1 DEF Restaged
    <3>3. Are(b.decoder, "free") = Framebuffers
      BY <3>2 DEF Sound, Stages
    <3>4. /\ e \in Decoders /\ e.vpu = "registered" /\ e.changes = b.decoder.changes
          /\ e.codec = b.decoder.codec /\ e.userData
          /\ Are(e, "free") = Framebuffers /\ Tally(e, 0, 0)
          /\ e.missed = b.decoder.missed /\ e.unreturned = b.decoder.unreturned
      BY <3>2, <3>3, Registering DEF Sound
    <3> HIDE DEF e
    <3>5. Are(e, "decoded") = {} /\ Are(e, "shown") = {}
      BY <3>4 DEF Are
    <3>8. Are(b.decoder, "shown") = {}
      BY <3>3 DEF Are
    <3>9. Within(e)
      BY <3>2, <3>4, <3>5, <3>8, NoneShown DEF Sound
    <3>6. Sound(e)
      BY <3>2, <3>4, <3>5, <3>9 DEF Sound, Stages
    <3>7. QED  BY <2>1, <3>1, <3>4, <3>6 DEF Asks, Restaged
  <2>6. QED  BY <2>3, <2>4, <2>5
<1>5. CASE /\ b.ok /\ ~b.decoder.crashed
           /\ b.codes \cap {"INIT_OK", "RESOLUTION_CHANGED"} = {} /\ "OUTPUT_DIS" \in b.codes
  <2> DEFINE f == b.frame
             x == b.decoder
             id == ids[f]
  <2>1. ShowsFrame(d, x, f)
    BY <1>2, <1>5 DEF Answered
  <2>2. r \in ProcessOutput(b, input, pics, ids)
    BY <1>1, <1>5 DEF Processed
  <2>3. PICK g \in GetDecodedFrame(x, f) :
          \/ ~g.ok /\ r = Unsent(g.decoder, input, ids)
          \/ g.ok /\ id \in pics /\ r = Sent(g.decoder, input, id, ids)
          \/ /\ g.ok /\ id \notin pics
             /\ \E m \in MarkDisplayed(g.decoder, f) : r = Unsent(m.decoder, input, ids)
    BY <2>2 DEF ProcessOutput
  <2>4. /\ x \in Decoders /\ Stages(x) /\ Within(x) /\ Tally(x, 0, 1)
        /\ d.vpu = "registered" /\ x.vpu = "registered" /\ x.changes = d.changes
        /\ f \in Are(x, "shown") /\ f \notin Owed(d) /\ Owed(x) = Owed(d) \cup {f}
    BY <2>1 DEF ShowsFrame
  <2> HIDE DEF x
  <2>5. /\ g.ok \in BOOLEAN
        /\ g.ok => /\ g.decoder \in Decoders /\ Alike(x, g.decoder) /\ Tally(g.decoder, 0, 0)
        /\ ~g.ok => LeftAs(x, g.decoder, {f})
    BY <2>4, Getting
  <2>6. ASSUME g.ok
        PROVE  /\ Stages(g.decoder) /\ Within(g.decoder) /\ Owed(g.decoder) = Owed(x)
               /\ f \in Are(g.decoder, "shown")
               /\ g.decoder.vpu = "registered" /\ g.decoder.changes = d.changes
    <3>1. Stages(g.decoder) /\ Within(g.decoder) /\ Owed(g.decoder) = Owed(x)
      BY <2>4, <2>5, <2>6, AlikeStage, AlikeWithin
    <3>2. Are(g.decoder, "shown") = Are(x, "shown")
      BY <2>5, <2>6, AlikeMany DEF States
    <3>3. QED  BY <2>4, <2>5, <2>6, <3>1, <3>2 DEF Alike
  <2>7. ASSUME NEW y, NEW z \in Decoders, Stages(z), z.vpu = "registered", z.changes = d.changes,
               Owed(z) = Owed(d) \cup {f}, LeftAs(z, y, {f}), r = Unsent(y, input, ids)
        PROVE  Keeps(d, r, input, ids)
    <3>1. r.decoder = y /\ r.tags = ids /\ ~r.informed /\ r.posted = End(input)
      BY <2>7 DEF Unsent
    <3>2. Stages(y)
      BY <2>7, SameStage DEF LeftAs
    <3>3. Owed(y) = Owed(d)
      BY <2>4, <2>7 DEF LeftAs
    <3>4. Quiet(d, y)
      BY <2>4, <2>7, <3>2, <3>3 DEF Quiet, Sound, LeftAs
    <3>5. QED  BY <3>1, <3>4 DEF Keeps
  <2>8. CASE ~g.ok /\ r = Unsent(g.decoder, input, ids)
    BY <2>4, <2>5, <2>7, <2>8
  <2>9. CASE g.ok /\ id \in pics /\ r = Sent(g.decoder, input, id, ids)
    <3>1. /\ r.decoder = g.decoder /\ r.tags = ids /\ ~r.informed
          /\ r.posted = Append(End(input), <<"ready", id>>)
      BY <2>9 DEF Sent
    <3>2. Sound(g.decoder)
      BY <2>5, <2>6, <2>9 DEF Sound
    <3>3. f \in Framebuffers \ Owed(d) /\ Owed(g.decoder) = Owed(d) \cup {f}
      BY <2>4, <2>6, <2>9 DEF Are
    <3>4. QED  BY <2>4, <2>6, <2>9, <3>1, <3>2, <3>3 DEF Sends
  <2>10. CASE /\ g.ok /\ id \notin pics
              /\ \E m \in MarkDisplayed(g.decoder, f) : r = Unsent(m.decoder, input, ids)
    <3>1. PICK m \in MarkDisplayed(g.decoder, f) : r = Unsent(m.decoder, input, ids)
      BY <2>10
    <3>2. LeftAs(g.decoder, m.decoder, {f})
      BY <2>5, <2>6, <2>10, Marked
    <3>3. QED  BY <2>4, <2>5, <2>6, <2>7, <2>10, <3>1, <3>2
  <2>11. QED  BY <2>3, <2>8, <2>9, <2>10
<1>6. CASE /\ b.ok /\ ~b.decoder.crashed
           /\ b.codes \cap {"INIT_OK", "RESOLUTION_CHANGED"} = {} /\ "OUTPUT_DIS" \notin b.codes
  <2>1. r = Nothing(b, input, ids)
    BY <1>1, <1>6 DEF Processed
  <2>2. r.decoder = b.decoder /\ r.tags = ids /\ ~r.informed /\ r.posted = End(input)
    BY <2>1 DEF Nothing
  <2>3. Quiet(d, b.decoder)
    BY <1>2, <1>6 DEF Answered
  <2>4. QED  BY <2>2, <2>3 DEF Keeps
<1>7. QED  BY <1>3, <1>4, <1>5, <1>6

----------------------------------------------------------------------------
\* The invariant, and ProcessInput

\* Framebuffers are registered only once the client was asked for pictures.
Fits(d, informed) == Sound(d) /\ (d.vpu = "registered" => informed)

\* Every picture that is shown, or about to be, was provided by the client.
Provided(t, pics, h, n) ==
    /\ n \in Nat /\ pics \subseteq 0 .. n - 1
    /\ h \cup IdsOf(t, "ready") \subseteq pics

\* The client is asked for pictures at first and when the resolution changes.
Wanted(d, t, pics, w) ==
    /\ w \in Nat
    /\ w + HowMany(t, "provide") + (IF pics = {} THEN 0 ELSE 1)
           <= d.changes + (IF d.vpu = "opened" THEN 0 ELSE 1)

\* What the client shows or is about to be sent are the frames it has to give back.
Yours(d, t, ids, pics, h) ==
    /\ pics # {} => \A f, g \in Framebuffers : ids[f] = ids[g] => f = g
    /\ {ids[f] : f \in Owed(d)} = h \cup IdsOf(t, "ready")
    /\ h \cap IdsOf(t, "ready") = {}
    /\ \A i, j \in At(t, "ready") : t[i][2] = t[j][2] => i = j

\* All of it: the frames, the pictures and the messages fit together.
Holds(d, informed, t, ids, pics, w, h, n) ==
    /\ Fits(d, informed)
    /\ Provided(t, pics, h, n)
    /\ Wanted(d, t, pics, w)
    /\ d.changes = 0 => Yours(d, t, ids, pics, h)

\* Another decoder that is owed the same frames.
LEMMA YoursStill ==
    ASSUME NEW d, NEW e, NEW t, NEW u, NEW ids, NEW pics, NEW h,
           Yours(d, t, ids, pics, h), Owed(e) = Owed(d),
           At(u, "ready") = At(t, "ready"), \A i \in At(t, "ready") : u[i] = t[i]
    PROVE  Yours(e, u, ids, pics, h)
<1>1. IdsOf(u, "ready") = IdsOf(t, "ready")
  BY DEF IdsOf
<1>2. QED  BY <1>1 DEF Yours

\* With no frame but free ones nothing is shown, and nothing owed.
LEMMA AllFree ==
    ASSUME NEW d, Are(d, "free") = Framebuffers
    PROVE  Are(d, "shown") = {} /\ Owed(d) = {}
BY DEF Are, Owed

\* ProcessInput, of a buffer or of none.
LEMMA InputStep ==
    ASSUME NEW d, NEW informed \in BOOLEAN, NEW t \in Seq(Tasks), NEW ids, NEW pics, NEW w,
           NEW h, NEW n, Holds(d, informed, t, ids, pics, w, h, n), ~d.crashed,
           NEW input, input = <<>> \/ \E b \in Buffers : input = <<b>>,
           CanDecode(d, input # <<>>), NEW r \in ProcessInput(d, input, pics, ids)
    PROVE  /\ t \o r.posted \in Seq(Tasks)
           /\ Holds(r.decoder, informed \/ r.informed, t \o r.posted, r.tags, pics, w, h, n)
<1> DEFINE e == r.decoder
           p == r.posted
           u == t \o p
<1>1. /\ Sound(d) /\ (d.vpu = "registered" => informed)
      /\ n \in Nat /\ pics \subseteq 0 .. n - 1 /\ h \cup IdsOf(t, "ready") \subseteq pics
      /\ w \in Nat
      /\ w + HowMany(t, "provide") + (IF pics = {} THEN 0 ELSE 1)
             <= d.changes + (IF d.vpu = "opened" THEN 0 ELSE 1)
      /\ d.changes = 0 => Yours(d, t, ids, pics, h)
  BY DEF Holds, Fits, Provided, Wanted
<1>2. HowMany(t, "provide") \in Nat /\ d.changes \in Nat
  BY <1>1, AtFinite DEF Sound, Decoders
<1>3. /\ End(input) \in Seq(Tasks)
      /\ \A v \in {"ready", "provide"} : At(End(input), v) = {}
      /\ \A v \in {"ready", "provide"}, id \in Int :
            LET m == Append(End(input), <<v, id>>)
            IN  /\ m \in Seq(Tasks)
                /\ At(m, v) = {Len(End(input)) + 1} /\ m[Len(End(input)) + 1] = <<v, id>>
                /\ \A x \in {"ready", "provide"} \ {v} : At(m, x) = {}
  BY PostedOf
<1>4. ASSUME p \in Seq(Tasks)
      PROVE  u \in Seq(Tasks) /\ Adds(t, p, u, "ready") /\ Adds(t, p, u, "provide")
  <2>1. Adds(t, p, u, "ready") /\ Adds(t, p, u, "provide")
    BY <1>4, PostingOf
  <2>2. QED  BY <2>1 DEF Adds
<1>5. CASE Keeps(d, r, input, ids)
  <2>1. p \in Seq(Tasks) /\ At(p, "ready") = {} /\ At(p, "provide") = {}
    <3>1. <<>> \in Seq(Tasks) /\ At(<<>>, "ready") = {} /\ At(<<>>, "provide") = {}
      BY DEF At
    <3>2. p = <<>> \/ p = End(input)
      BY <1>5 DEF Keeps
    <3>3. QED  BY <1>3, <3>1, <3>2
  <2>2. r.tags = ids /\ ~r.informed /\ (Quiet(d, e) \/ Restaged(d, e))
    BY <1>5 DEF Keeps
  <2> HIDE DEF e, p, u
  <2>3. /\ u \in Seq(Tasks)
        /\ IdsOf(u, "ready") = IdsOf(t, "ready") /\ HowMany(u, "provide") = HowMany(t, "provide")
        /\ At(u, "ready") = At(t, "ready") /\ \A i \in At(t, "ready") : u[i] = t[i]
    BY <1>4, <2>1, PostingNone
  <2>4. Sound(e) /\ (e.vpu = "registered" => informed)
    BY <1>1, <2>2 DEF Quiet, Restaged
  <2>5. /\ e.changes = 0 => d.changes = 0 /\ Owed(e) = Owed(d)
        /\ d.changes + (IF d.vpu = "opened" THEN 0 ELSE 1)
               <= e.changes + (IF e.vpu = "opened" THEN 0 ELSE 1)
    <3>1. CASE Quiet(d, e)
      BY <1>2, <3>1 DEF Quiet
    <3>2. CASE Restaged(d, e)
      <4>1. CASE d.vpu = "opened" /\ e.changes = d.changes
        <5>1. Owed(d) = {} /\ Owed(e) = {}
          BY <1>1, <3>2, <4>1, AllFree DEF Restaged, Sound, Stages
        <5>2. (IF d.vpu = "opened" THEN 0 ELSE 1) = 0 /\ (IF e.vpu = "opened" THEN 0 ELSE 1) = 1
          BY <3>2, <4>1 DEF Restaged
        <5>3. d.changes + 0 <= e.changes + 1
          BY <1>2, <4>1
        <5>4. QED  BY <4>1, <5>1, <5>2, <5>3
      <4>2. CASE d.vpu = "registered" /\ e.changes = d.changes + 1
        BY <1>2, <3>2, <4>2 DEF Restaged
      <4>3. QED  BY <3>2, <4>1, <4>2 DEF Restaged
    <3>3. QED  BY <2>2, <3>1, <3>2
  <2>6. e.changes = 0 => Yours(e, u, ids, pics, h)
    BY <1>1, <2>3, <2>5, YoursStill
  <2>7. e.changes \in Nat
    BY <2>4 DEF Sound, Decoders
  <2>8. Wanted(e, u, pics, w)
    BY <1>1, <1>2, <2>3, <2>5, <2>7 DEF Wanted
  <2>9. Provided(u, pics, h, n) /\ Fits(e, informed \/ r.informed)
    BY <1>1, <2>3, <2>4 DEF Provided, Fits
  <2>10. QED  BY <2>2, <2>3, <2>6, <2>8, <2>9 DEF Holds, e, p, u
<1>6. CASE Asks(d, r, input)
  <2>1. /\ p = Append(End(input), <<"provide", 0>>) /\ r.tags = NoTags /\ r.informed
        /\ Sound(e) /\ e.vpu = "registered" /\ Are(e, "free") = Framebuffers
        /\ \/ d.vpu = "opened" /\ e.changes = d.changes
           \/ d.vpu = "registered" /\ e.changes = d.changes + 1
    BY <1>6 DEF Asks
  <2> HIDE DEF e, p
  <2>2. /\ p \in Seq(Tasks) /\ At(p, "ready") = {}
        /\ At(p, "provide") = {Len(End(input)) + 1}
    BY <1>3, <2>1
  <2> HIDE DEF u
  <2>3. /\ u \in Seq(Tasks)
        /\ IdsOf(u, "ready") = IdsOf(t, "ready")
        /\ At(u, "ready") = At(t, "ready") /\ \A i \in At(t, "ready") : u[i] = t[i]
    BY <1>4, <2>2, PostingNone
  <2>4. HowMany(u, "provide") = HowMany(t, "provide") + 1
    <3> DEFINE k == Len(End(input)) + 1
    <3>1. At(p, "provide") = {k}
      BY <2>2
    <3> HIDE DEF k
    <3>2. QED  BY <1>4, <2>2, <3>1, PostingOne
  <2>5. e.changes \in Nat
    BY <2>1 DEF Sound, Decoders
  <2>6. Wanted(e, u, pics, w)
    <3> DEFINE some == IF pics = {} THEN 0 ELSE 1
               more == IF d.vpu = "opened" THEN 0 ELSE 1
    <3>1. /\ some \in 0 .. 1 /\ more \in 0 .. 1
          /\ w + HowMany(t, "provide") + some <= d.changes + more
      BY <1>1
    <3>2. d.changes + more + 1 = e.changes + 1
      BY <1>2, <2>1, <2>5
    <3> HIDE DEF some, more
    <3>3. w + HowMany(u, "provide") + some <= e.changes + 1
      BY <1>1, <1>2, <2>4, <2>5, <3>1, <3>2
    <3>4. QED  BY <1>1, <2>1, <3>3 DEF Wanted, some
  <2>7. e.changes = 0 => Yours(e, u, NoTags, pics, h)
    <3> SUFFICES ASSUME e.changes = 0
                 PROVE  Yours(e, u, NoTags, pics, h)
      OBVIOUS
    <3>1. d.vpu = "opened" /\ d.changes = 0
      BY <1>2, <2>1
    <3>2. pics = {}
      BY <1>1, <1>2, <3>1
    <3>3. Yours(d, t, ids, pics, h)
      BY <1>1, <3>1
    <3>4. Owed(e) = {}
      BY <2>1, AllFree
    <3>5. QED  BY <1>1, <2>3, <3>2, <3>3, <3>4 DEF Yours
  <2>8. Provided(u, pics, h, n) /\ Fits(e, informed \/ r.informed)
    BY <1>1, <2>1, <2>3 DEF Provided, Fits
  <2>9. QED  BY <2>1, <2>3, <2>6, <2>7, <2>8 DEF Holds, e, p, u
<1>7. CASE Sends(d, r, input, pics, ids)
  <2>1. /\ Sound(e) /\ d.vpu = "registered" /\ e.vpu = "registered" /\ e.changes = d.changes
        /\ r.tags = ids /\ ~r.informed
    BY <1>7 DEF Sends
  <2>2. PICK f \in Framebuffers \ Owed(d) :
            /\ Owed(e) = Owed(d) \cup {f}
            /\ ids[f] \in pics
            /\ p = Append(End(input), <<"ready", ids[f]>>)
    BY <1>7 DEF Sends
  <2> DEFINE id == ids[f]
             k == Len(End(input)) + 1
  <2> HIDE DEF e, p
  <2>3. id \in Int
    <3>1. id \in pics /\ n \in Nat /\ pics \subseteq 0 .. n - 1
      BY <1>1, <2>2
    <3> HIDE DEF id
    <3>2. QED  BY <3>1
  <2>4. p \in Seq(Tasks) /\ At(p, "provide") = {} /\ At(p, "ready") = {k} /\ p[k] = <<"ready", id>>
    BY <1>3, <2>2, <2>3
  <2> HIDE DEF u, k
  <2>5. /\ u \in Seq(Tasks)
        /\ HowMany(u, "provide") = HowMany(t, "provide")
    BY <1>4, <2>4, PostingNone
  <2>6. /\ IdsOf(u, "ready") = IdsOf(t, "ready") \cup {p[k][2]}
        /\ At(u, "ready") = At(t, "ready") \cup {Len(t) + k}
        /\ u[Len(t) + k] = p[k]
        /\ \A i \in At(t, "ready") : u[i] = t[i]
    BY <1>4, <2>4, PostingOne
  <2>7. p[k][2] = id
    BY <2>4
  <2>8. e.changes \in Nat
    BY <2>1 DEF Sound, Decoders
  <2>9. Wanted(e, u, pics, w)
    BY <1>1, <1>2, <2>1, <2>5, <2>8 DEF Wanted
  <2>10. Provided(u, pics, h, n) /\ Fits(e, informed \/ r.informed)
    BY <1>1, <2>1, <2>2, <2>6, <2>7 DEF Provided, Fits
  <2>11. e.changes = 0 => Yours(e, u, ids, pics, h)
    <3> SUFFICES ASSUME e.changes = 0
                 PROVE  Yours(e, u, ids, pics, h)
      OBVIOUS
    <3>1. Yours(d, t, ids, pics, h)
      BY <1>1, <2>1
    <3>2. \A g, j \in Framebuffers : ids[g] = ids[j] => g = j
      BY <2>2, <3>1 DEF Yours
    <3>3. id \notin h \cup IdsOf(t, "ready")
      <4>1. \A g \in Owed(d) : g \in Framebuffers /\ ids[g] # id
        BY <2>2, <3>2 DEF Owed, Are
      <4>2. {ids[g] : g \in Owed(d)} = h \cup IdsOf(t, "ready")
        BY <3>1 DEF Yours
      <4> HIDE DEF id
      <4>3. QED  BY <4>1, <4>2
    <3>4. {ids[g] : g \in Owed(e)} = h \cup IdsOf(u, "ready")
      <4>1. {ids[g] : g \in Owed(e)} = {ids[g] : g \in Owed(d)} \cup {id}
        BY <2>2
      <4>2. QED  BY <2>6, <2>7, <3>1, <4>1 DEF Yours
    <3>5. h \cap IdsOf(u, "ready") = {}
      BY <2>6, <2>7, <3>1, <3>3 DEF Yours
    <3>6. \A i, j \in At(u, "ready") : u[i][2] = u[j][2] => i = j
      <4>1. \A i \in At(t, "ready") : u[i][2] = t[i][2] /\ t[i][2] \in IdsOf(t, "ready")
        BY <2>6 DEF IdsOf
      <4>2. u[Len(t) + k][2] = id
        BY <2>6, <2>7
      <4>3. \A i, j \in At(t, "ready") : t[i][2] = t[j][2] => i = j
        BY <3>1 DEF Yours
      <4> HIDE DEF id
      <4>4. QED  BY <2>6, <3>3, <4>1, <4>2, <4>3
    <3>7. QED  BY <3>2, <3>4, <3>5, <3>6 DEF Yours
  <2>12. QED  BY <2>1, <2>5, <2>9, <2>10, <2>11 DEF Holds, e, p, u
<1>8. QED  BY <1>1, <1>5, <1>6, <1>7, InputResults

----------------------------------------------------------------------------
\* The actions

\* A buffer of the queue, or none.
LEMMA QueueHolds ==
    ASSUME NEW d, NEW q \in Seq(Buffers), NEW pics, NEW ids, NEW w, NEW h, NEW n,
           received \in BOOLEAN, tasks \in Seq(Tasks),
           Holds(d, received, tasks, ids, pics, w, h, n), ~d.crashed,
           ProcessQueuedInput(d, q, pics, ids)
    PROVE  /\ tasks' \in Seq(Tasks) /\ received' \in BOOLEAN /\ pictures' = pics
           /\ Holds(decoder', received', tasks', tags', pics, w, h, n)
<1>1. pictures' = pics
  BY DEF ProcessQueuedInput
<1>2. CASE Waits(d, q, pics)
  <2>1. decoder' = d /\ tags' = ids /\ UNCHANGED <<received, tasks>>
    BY <1>2 DEF ProcessQueuedInput
  <2>2. QED  BY <1>1, <2>1
<1>3. CASE ~Waits(d, q, pics)
  <2> DEFINE input == <<Head(q)>>
  <2>1. PICK r \in ProcessInput(d, input, pics, ids) : Outcome(r)
    BY <1>3 DEF ProcessQueuedInput
  <2>2. q # <<>> /\ ~(received /\ d.available < MinRequired)
    BY <1>3 DEF Waits
  <2>3. Head(q) \in Buffers /\ input # <<>>
    BY <2>2
  <2>4. Sound(d) /\ (d.vpu = "registered" => received)
    BY DEF Holds, Fits
  <2>5. d.vpu = "registered" => d.available >= 1
    <3>1. d.available \in Int /\ MinRequired \in Nat \ {0}
      BY <2>4, FramebuffersAssumption DEF Sound, Decoders
    <3>2. QED  BY <2>2, <2>4, <3>1
  <2>6. CanDecode(d, input # <<>>)
    BY <2>5 DEF CanDecode
  <2>7. input = <<>> \/ \E b \in Buffers : input = <<b>>
    BY <2>3
  <2> HIDE DEF input
  <2>8. /\ tasks \o r.posted \in Seq(Tasks)
        /\ Holds(r.decoder, received \/ r.informed, tasks \o r.posted, r.tags, pics, w, h, n)
    BY <2>1, <2>6, <2>7, InputStep
  <2>9. /\ decoder' = r.decoder /\ tags' = r.tags /\ received' = (received \/ r.informed)
        /\ tasks' = tasks \o r.posted
    BY <2>1 DEF Outcome
  <2>10. QED  BY <1>1, <2>8, <2>9
<1>4. QED  BY <1>2, <1>3

\* Messages that neither send a picture nor ask for some.
LEMMA ToldHolds ==
    ASSUME NEW d, NEW informed, NEW t \in Seq(Tasks), NEW ids, NEW pics, NEW w, NEW h, NEW n,
           Holds(d, informed, t, ids, pics, w, h, n),
           NEW p \in Seq(Tasks), At(p, "ready") = {}, At(p, "provide") = {}
    PROVE  t \o p \in Seq(Tasks) /\ Holds(d, informed, t \o p, ids, pics, w, h, n)
<1> DEFINE u == t \o p
<1>1. u \in Seq(Tasks) /\ Adds(t, p, u, "ready") /\ Adds(t, p, u, "provide")
  <2>1. Adds(t, p, u, "ready") /\ Adds(t, p, u, "provide")
    BY PostingOf
  <2>2. QED  BY <2>1 DEF Adds
<1> HIDE DEF u
<1>2. /\ IdsOf(u, "ready") = IdsOf(t, "ready") /\ HowMany(u, "provide") = HowMany(t, "provide")
      /\ At(u, "ready") = At(t, "ready") /\ \A i \in At(t, "ready") : u[i] = t[i]
  BY <1>1, PostingNone
<1>3. d.changes = 0 => Yours(d, u, ids, pics, h)
  BY <1>2, YoursStill DEF Holds
<1>4. Provided(u, pics, h, n) /\ Wanted(d, u, pics, w)
  BY <1>2 DEF Holds, Provided, Wanted
<1>5. QED  BY <1>1, <1>3, <1>4 DEF Holds, u

\* The account of the pictures.
PicturesRight == Holds(decoder, received, tasks, tags, pictures, wants, held, nextId)
\* The invariant, with the types that IInv leaves out.
VInv == received \in BOOLEAN /\ draining \in BOOLEAN /\ LoadTypeOK /\ PicturesRight

\* What processes one buffer of the queue keeps the account.
LEMMA QueueKept ==
    ASSUME IInv, VInv, NEW d, NEW q \in Seq(Buffers), NEW pics, NEW ids,
           Holds(d, received, tasks, ids, pics, wants', held', nextId'), ~d.crashed,
           ProcessQueuedInput(d, q, pics, ids), draining' \in BOOLEAN, UNCHANGED load
    PROVE  VInv'
<1>1. tasks \in Seq(Tasks) /\ received \in BOOLEAN
  BY DEF IInv, Kinds, VInv
<1>2. /\ received' \in BOOLEAN /\ pictures' = pics
      /\ Holds(decoder', received', tasks', tags', pics, wants', held', nextId')
  BY <1>1, QueueHolds
<1>3. LoadTypeOK'
  BY DEF VInv, LoadTypeOK, load
<1>4. PicturesRight'
  BY <1>2 DEF PicturesRight
<1>5. QED  BY <1>2, <1>3, <1>4 DEF VInv

\* A step that leaves the decoder, the pictures and the messages alone.
LEMMA UntouchedShown ==
    ASSUME VInv, UNCHANGED <<decoder, received, tasks, tags, pictures, wants, held, nextId>>,
           LoadTypeOK', draining' \in BOOLEAN
    PROVE  VInv'
BY DEF VInv, PicturesRight

\* New pictures, with ids of their own: at first the client has none.
LEMMA AssignShown ==
    ASSUME IInv, VInv, AssignPictureBuffers
    PROVE  VInv'
<1> DEFINE new == [f \in Framebuffers |-> nextId + f]
           more == {new[f] : f \in Framebuffers}
           pics == pictures \cup more
<1>1. /\ ~decoder.crashed /\ wants > 0
      /\ ProcessQueuedInput(decoder, queue, pics, new)
      /\ wants' = wants - 1 /\ nextId' = nextId + Number
      /\ UNCHANGED <<load, draining, held>>
  BY DEF AssignPictureBuffers, Running
<1>2. /\ Sound(decoder) /\ Fits(decoder, received)
      /\ nextId \in Nat /\ pictures \subseteq 0 .. nextId - 1
      /\ held \cup IdsOf(tasks, "ready") \subseteq pictures
      /\ wants \in Nat
      /\ decoder.changes = 0 => Yours(decoder, tasks, tags, pictures, held)
  BY DEF VInv, PicturesRight, Holds, Fits, Provided, Wanted
<1>3. /\ Number \in Nat /\ Framebuffers \subseteq 0 .. Number - 1
      /\ decoder.changes \in Nat
  BY <1>2, FramebuffersAssumption, FS_CardinalityType DEF Number, Sound, Decoders
<1>4. tasks \in Seq(Tasks) /\ queue \in Seq(Buffers) /\ HowMany(tasks, "provide") \in Nat
  BY AtFinite DEF IInv, Kinds
<1>5. \A f \in Framebuffers : new[f] \in nextId .. (nextId + Number) - 1
  <2> SUFFICES ASSUME NEW f \in Framebuffers
               PROVE  nextId + f \in nextId .. (nextId + Number) - 1
    OBVIOUS
  <2>1. f \in 0 .. Number - 1
    BY <1>3
  <2>2. QED  BY <1>2, <1>3, <2>1
<1>6. \A f, g \in Framebuffers : new[f] = new[g] => f = g
  BY <1>2, <1>3
<1> HIDE DEF new
<1>7. more \subseteq nextId .. (nextId + Number) - 1
  BY <1>5
<1> HIDE DEF more
<1>8. Provided(tasks, pics, held, nextId + Number)
  <2>1. pics \subseteq 0 .. (nextId + Number) - 1
    BY <1>2, <1>3, <1>7
  <2>2. QED  BY <1>2, <1>3, <2>1 DEF Provided
<1> DEFINE some == IF pictures = {} THEN 0 ELSE 1
           other == IF pics = {} THEN 0 ELSE 1
           first == IF decoder.vpu = "opened" THEN 0 ELSE 1
<1>9. some \in 0 .. 1 /\ other \in 0 .. 1 /\ first \in 0 .. 1
  OBVIOUS
<1>10. wants + HowMany(tasks, "provide") + some <= decoder.changes + first
  BY DEF VInv, PicturesRight, Holds, Wanted
<1>11. Wanted(decoder, tasks, pics, wants - 1)
  <2> HIDE DEF some, other, first, pics
  <2>1. wants - 1 \in Nat
    BY <1>1, <1>2
  <2>2. (wants - 1) + HowMany(tasks, "provide") + other <= decoder.changes + first
    BY <1>2, <1>3, <1>4, <1>9, <1>10
  <2>3. QED  BY <2>1, <2>2 DEF Wanted, other, first
<1>12. decoder.changes = 0 => Yours(decoder, tasks, new, pics, held)
  <2> SUFFICES ASSUME decoder.changes = 0
               PROVE  Yours(decoder, tasks, new, pics, held)
    OBVIOUS
  <2>1. pictures = {}
    <3> HIDE DEF some, first
    <3>1. some = 0
      BY <1>1, <1>2, <1>4, <1>9, <1>10
    <3>2. QED  BY <3>1 DEF some
  <2>2. held = {} /\ IdsOf(tasks, "ready") = {}
    BY <1>2, <2>1
  <2>3. {tags[f] : f \in Owed(decoder)} = {}
    BY <1>2, <2>2 DEF Yours
  <2>4. Owed(decoder) = {}
    BY <2>3
  <2>5. At(tasks, "ready") = {}
    BY <2>2 DEF IdsOf
  <2>6. QED  BY <1>6, <2>2, <2>4, <2>5 DEF Yours
<1>13. Holds(decoder, received, tasks, new, pics, wants', held', nextId')
  BY <1>1, <1>2, <1>8, <1>11, <1>12 DEF Holds
<1> HIDE DEF pics
<1>14. draining' \in BOOLEAN /\ UNCHANGED load
  BY <1>1 DEF VInv
<1>15. QED  BY <1>1, <1>4, <1>13, <1>14, QueueKept

\* Of the framebuffers of a picture one comes first.
LEMMA FirstOf ==
    ASSUME NEW T \in SUBSET Framebuffers, T # {}
    PROVE  \E f \in T : \A g \in T : f <= g
<1> DEFINE R == OpToRel(<, Nat)
<1>1. T \subseteq Nat
  BY FramebuffersAssumption, FS_CardinalityType DEF Number
<1>2. IsWellFoundedOn(R, Nat)
  BY NatLessThanWellFounded
<1>3. \A x, y \in Nat : x < y => <<x, y>> \in R
  BY DEF OpToRel
<1> HIDE DEF R
<1>4. PICK f \in T : \A g \in T : <<g, f>> \notin R
  BY <1>1, <1>2, WFMin
<1>5. \A g \in T : f \in Nat /\ g \in Nat /\ ~(g < f)
  BY <1>1, <1>3, <1>4
<1>6. QED  BY <1>5

\* A picture that is given back is shown by exactly one frame, as long as the
\* resolution has not changed; after that it may be shown by none.
LEMMA ReuseShown ==
    ASSUME IInv, VInv, NEW p \in held, ReusePictureBuffer(p)
    PROVE  VInv'
<1>1. /\ ~decoder.crashed /\ held' = held \ {p}
      /\ UNCHANGED <<load, draining, wants, nextId>>
  BY DEF ReusePictureBuffer, Running
<1>2. /\ Sound(decoder) /\ Fits(decoder, received)
      /\ Provided(tasks, pictures, held, nextId) /\ Wanted(decoder, tasks, pictures, wants)
      /\ decoder.changes = 0 => Yours(decoder, tasks, tags, pictures, held)
  BY DEF VInv, PicturesRight, Holds, Fits
<1>3. Provided(tasks, pictures, held \ {p}, nextId)
  BY <1>2 DEF Provided
<1>4. tasks \in Seq(Tasks) /\ queue \in Seq(Buffers)
  BY DEF IInv, Kinds
<1>5. draining' \in BOOLEAN /\ LoadTypeOK' /\ UNCHANGED load
  BY <1>1 DEF VInv, LoadTypeOK, load
<1>6. ASSUME NEW e, NEW f, LeftAs(decoder, e, {f}),
             decoder.changes = 0 => f \in Owed(decoder) /\ tags[f] = p
      PROVE  Holds(e, received, tasks, tags, pictures, wants', held', nextId') /\ ~e.crashed
  <2>1. decoder \in Decoders /\ Stages(decoder)
    BY <1>2 DEF Sound
  <2>2. /\ e \in Decoders
        /\ e.codec = decoder.codec /\ e.vpu = decoder.vpu /\ e.changes = decoder.changes
        /\ e.userData = decoder.userData /\ e.crashed = decoder.crashed
        /\ Are(decoder, "free") \subseteq Are(e, "free")
        /\ Are(e, "decoded") = Are(decoder, "decoded")
        /\ Owed(e) = Owed(decoder) \ {f}
        /\ Within(e) /\ Tally(e, 0, 0)
    BY <1>6 DEF LeftAs
  <2>4. decoder.vpu # "registered" => Are(e, "free") = Framebuffers
    BY <2>1, <2>2 DEF Stages, Are
  <2>5. Sound(e) /\ Fits(e, received)
    <3>1. Stages(e)
      BY <2>1, <2>2, <2>4, SameStage
    <3>2. QED  BY <1>2, <2>2, <3>1 DEF Sound, Fits
  <2>6. Wanted(e, tasks, pictures, wants)
    BY <1>2, <2>2 DEF Wanted
  <2>7. e.changes = 0 => Yours(e, tasks, tags, pictures, held \ {p})
    <3> SUFFICES ASSUME e.changes = 0
                 PROVE  Yours(e, tasks, tags, pictures, held \ {p})
      OBVIOUS
    <3>1. Yours(decoder, tasks, tags, pictures, held) /\ f \in Owed(decoder) /\ tags[f] = p
      BY <1>2, <1>6, <2>2
    <3>2. pictures # {}
      BY <1>2 DEF Provided
    <3>3. \A g \in Owed(decoder) : tags[g] = p => g = f
      BY <3>1, <3>2 DEF Yours, Owed, Are
    <3>4. {tags[g] : g \in Owed(e)} = {tags[g] : g \in Owed(decoder)} \ {p}
      <4>1. \A g \in Owed(e) : g \in Owed(decoder) /\ tags[g] # p
        BY <2>2, <3>3
      <4>2. \A g \in Owed(decoder) : tags[g] # p => g \in Owed(e)
        BY <2>2, <3>1
      <4>3. QED  BY <4>1, <4>2
    <3>5. p \notin IdsOf(tasks, "ready")
      BY <3>1 DEF Yours
    <3>6. {tags[g] : g \in Owed(e)} = (held \ {p}) \cup IdsOf(tasks, "ready")
      BY <3>1, <3>4, <3>5 DEF Yours
    <3>7. QED  BY <3>1, <3>6 DEF Yours
  <2>8. Holds(e, received, tasks, tags, pictures, wants', held', nextId')
    BY <1>1, <1>3, <2>5, <2>6, <2>7 DEF Holds
  <2>9. QED  BY <1>1, <2>2, <2>8
<1>7. ASSUME NEW e, decoder' = e, Holds(e, received, tasks, tags, pictures, wants', held', nextId'),
             UNCHANGED <<received, pictures, tags, tasks>>
      PROVE  VInv'
  <2>1. PicturesRight'
    BY <1>1, <1>7 DEF PicturesRight
  <2>2. received' \in BOOLEAN
    BY <1>7 DEF VInv
  <2>3. QED  BY <1>5, <2>1, <2>2 DEF VInv
<1>11. ASSUME decoder.changes # 0
       PROVE  Holds(decoder, received, tasks, tags, pictures, wants', held', nextId')
  BY <1>1, <1>2, <1>3, <1>11 DEF Holds
<1> DEFINE some == \E f \in Framebuffers : tags[f] = p
           first == CHOOSE f \in Framebuffers :
                        tags[f] = p /\ \A g \in Framebuffers : tags[g] = p => f <= g
<1>8. decoder.changes = 0 => some /\ first \in Owed(decoder) /\ tags[first] = p
  <2> SUFFICES ASSUME decoder.changes = 0
               PROVE  some /\ first \in Owed(decoder) /\ tags[first] = p
    OBVIOUS
  <2>1. Yours(decoder, tasks, tags, pictures, held)
    BY <1>2
  <2>2. pictures # {}
    BY <1>2 DEF Provided
  <2>3. PICK f \in Owed(decoder) : tags[f] = p
    BY <2>1 DEF Yours
  <2>4. f \in Framebuffers
    BY DEF Owed, Are
  <2>5. \A g \in Framebuffers : tags[g] = p => g = f
    BY <2>1, <2>2, <2>3, <2>4 DEF Yours
  <2>6. f <= f
    BY <2>4, FramebuffersAssumption
  <2>7. tags[f] = p /\ \A g \in Framebuffers : tags[g] = p => f <= g
    BY <2>3, <2>5, <2>6
  <2>8. first \in Framebuffers /\ tags[first] = p
    BY <2>4, <2>7
  <2> HIDE DEF first
  <2>9. first = f
    BY <2>5, <2>8
  <2>10. QED  BY <2>3, <2>4, <2>9
<1>9. IF some
      THEN \E r \in MarkDisplayed(decoder, first) :
               IF r.ok THEN ProcessQueuedInput(r.decoder, queue, pictures, tags)
               ELSE decoder' = r.decoder /\ UNCHANGED <<queue, received, pictures, tags, tasks, lost>>
      ELSE UNCHANGED <<decoder, queue, received, pictures, tags, tasks, lost>>
  BY DEF ReusePictureBuffer
<1> HIDE DEF some, first
<1>10. CASE ~some
  BY <1>7, <1>8, <1>9, <1>10, <1>11
<1>12. CASE some
  <2>1. PICK r \in MarkDisplayed(decoder, first) :
            IF r.ok THEN ProcessQueuedInput(r.decoder, queue, pictures, tags)
            ELSE decoder' = r.decoder /\ UNCHANGED <<queue, received, pictures, tags, tasks, lost>>
    BY <1>9, <1>12
  <2>2. CASE first \in Are(decoder, "shown")
    <3>1. LeftAs(decoder, r.decoder, {first}) /\ r.ok \in BOOLEAN
      BY <1>2, <2>2, Marked DEF Sound
    <3>2. /\ Holds(r.decoder, received, tasks, tags, pictures, wants', held', nextId')
          /\ ~r.decoder.crashed
      BY <1>6, <1>8, <3>1
    <3>3. CASE r.ok
      BY <1>4, <1>5, <2>1, <3>2, <3>3, QueueKept
    <3>4. CASE ~r.ok
      BY <1>7, <2>1, <3>2, <3>4
    <3>5. QED  BY <3>3, <3>4
  <2>3. CASE first \notin Are(decoder, "shown")
    <3>1. decoder.frames[first] # "shown" /\ decoder.changes # 0
      <4>1. decoder.changes # 0
        BY <1>8, <2>3 DEF Owed
      <4>2. first \in Framebuffers
        <5> DEFINE T == {g \in Framebuffers : tags[g] = p}
        <5>1. T # {} /\ T \in SUBSET Framebuffers
          BY <1>12 DEF some
        <5>2. PICK g \in T : \A h \in T : g <= h
          BY <5>1, FirstOf
        <5>3. \E f \in Framebuffers : tags[f] = p /\ \A h \in Framebuffers : tags[h] = p => f <= h
          BY <5>2
        <5>4. QED  BY <5>3 DEF first
      <4>3. QED  BY <2>3, <4>1, <4>2 DEF Are
    <3>2. MarkDisplayed(decoder, first) = {[ok |-> FALSE, decoder |-> decoder]}
      BY <3>1 DEF MarkDisplayed
    <3>3. r.ok = FALSE /\ r.decoder = decoder
      BY <3>2
    <3>4. QED  BY <1>7, <1>11, <2>1, <3>1, <3>3
  <2>4. QED  BY <2>2, <2>3
<1>13. QED  BY <1>10, <1>12

\* Whether ProcessInput is called again.
LEMMA GoesOn ==
    ASSUME NEW d, NEW input, NEW pics, NEW ids, NEW r \in ProcessInput(d, input, pics, ids)
    PROVE  r.ok \in BOOLEAN
<1>1. PICK a : r \in Processed(a, input, pics, ids)
  BY DEF ProcessInput
<1>2. \/ r = Undecoded(a, ids)
      \/ \E x \in AllocateAndRegister(a.decoder) : r = Informed(x, input, ids)
      \/ r \in ProcessOutput(a, input, pics, ids)
      \/ r = Nothing(a, input, ids)
  BY <1>1 DEF Processed
<1>3. CASE r = Undecoded(a, ids)
  BY <1>3 DEF Undecoded
<1>4. CASE \E x \in AllocateAndRegister(a.decoder) : r = Informed(x, input, ids)
  <2>1. PICK x \in AllocateAndRegister(a.decoder) : r = Informed(x, input, ids)
    BY <1>4
  <2>2. \/ x = [ok |-> FALSE, decoder |-> a.decoder]
        \/ x = [ok |-> TRUE, decoder |-> RegisterFramebuffers(a.decoder)]
    BY <2>1 DEF AllocateAndRegister
  <2>3. x.ok = FALSE \/ x.ok = TRUE
    <3> DEFINE e == RegisterFramebuffers(a.decoder)
    <3>1. x = [ok |-> FALSE, decoder |-> a.decoder] \/ x = [ok |-> TRUE, decoder |-> e]
      BY <2>2
    <3> HIDE DEF e
    <3>2. QED  BY <3>1
  <2>4. r.ok = x.ok
    BY <2>1 DEF Informed
  <2>5. QED  BY <2>3, <2>4
<1>5. CASE r \in ProcessOutput(a, input, pics, ids)
  <2>1. \E d2 : \/ r = Unsent(d2, input, ids)
               \/ r = Sent(d2, input, ids[a.frame], ids)
    BY <1>5 DEF ProcessOutput
  <2>2. r.ok = FALSE \/ r.ok = TRUE
    BY <2>1 DEF Sent, Unsent
  <2>3. QED  BY <2>2
<1>6. CASE r = Nothing(a, input, ids)
  <2>1. r.ok = ("OUTPUT_EOS" \notin a.codes)
    BY <1>6 DEF Nothing
  <2>2. QED  BY <2>1
<1>7. QED  BY <1>2, <1>3, <1>4, <1>5, <1>6

\* The loop of Flush decodes nothing, and shows what was kept back.
LEMMA DrainShown ==
    ASSUME IInv, VInv, Drain
    PROVE  VInv'
<1>1. PICK r \in ProcessInput(decoder, <<>>, pictures, tags) :
          /\ decoder' = r.decoder /\ tags' = r.tags
          /\ received' = (received \/ r.informed)
          /\ draining' = r.ok
          /\ tasks' = tasks \o r.posted \o IF r.ok THEN <<>> ELSE <<<<"done", 0>>>>
  BY DEF Drain
<1>2. ~decoder.crashed /\ UNCHANGED <<load, pictures, wants, held, nextId>>
  BY DEF Drain, client
<1>3. tasks \in Seq(Tasks) /\ received \in BOOLEAN
  BY DEF IInv, Kinds, VInv
<1>4. /\ tasks \o r.posted \in Seq(Tasks)
      /\ Holds(r.decoder, received \/ r.informed, tasks \o r.posted, r.tags,
               pictures, wants, held, nextId)
  <2> DEFINE input == <<>>
  <2>1. Holds(decoder, received, tasks, tags, pictures, wants, held, nextId)
    BY DEF VInv, PicturesRight
  <2>2. CanDecode(decoder, input # <<>>)
    BY DEF CanDecode
  <2>3. input = <<>> \/ \E b \in Buffers : input = <<b>>
    OBVIOUS
  <2>4. r \in ProcessInput(decoder, input, pictures, tags)
    OBVIOUS
  <2> HIDE DEF input
  <2>5. QED  BY <1>2, <1>3, <2>1, <2>2, <2>3, <2>4, InputStep
<1> DEFINE t == tasks \o r.posted
           p == IF r.ok THEN <<>> ELSE <<<<"done", 0>>>>
<1>5. p \in Seq(Tasks) /\ At(p, "ready") = {} /\ At(p, "provide") = {}
  <2>1. <<"done", 0>> \in Tasks
    BY DEF Tasks, Words
  <2>2. \A i \in DOMAIN p : p[i][1] = "done"
    OBVIOUS
  <2>3. p \in Seq(Tasks)
    BY <2>1
  <2>4. QED  BY <2>2, <2>3 DEF At
<1>6. tasks' = t \o p
  BY <1>1
<1>7. t \in Seq(Tasks)
  BY <1>4
<1>8. Holds(r.decoder, received \/ r.informed, t, r.tags, pictures, wants, held, nextId)
  BY <1>4
<1> HIDE DEF t, p
<1>9. Holds(r.decoder, received \/ r.informed, t \o p, r.tags, pictures, wants, held, nextId)
  BY <1>5, <1>7, <1>8, ToldHolds
<1>10. PicturesRight'
  BY <1>1, <1>2, <1>6, <1>9 DEF PicturesRight
<1>11. received' \in BOOLEAN /\ LoadTypeOK'
  BY <1>1, <1>2 DEF VInv, LoadTypeOK, load
<1>12. draining' \in BOOLEAN
  BY <1>1, GoesOn
<1>13. QED  BY <1>10, <1>11, <1>12 DEF VInv

\* A reset takes back what is kept in the VPU; what is shown stays shown.
LEMMA ResetShown ==
    ASSUME IInv, VInv, Reset
    PROVE  VInv'
<1> DEFINE e == [i \in DOMAIN queue |-> <<"end", queue[i]>>]
           f == <<<<"done", 0>>>>
           x == decoder'
<1>1. /\ x \in DecFlush(decoder) /\ tasks' = tasks \o e \o f
      /\ UNCHANGED <<load, received, pictures, tags, draining, held, wants, nextId>>
  BY DEF Reset
<1>2. /\ Sound(decoder) /\ Fits(decoder, received)
      /\ Provided(tasks, pictures, held, nextId) /\ Wanted(decoder, tasks, pictures, wants)
      /\ decoder.changes = 0 => Yours(decoder, tasks, tags, pictures, held)
  BY DEF VInv, PicturesRight, Holds, Fits
<1>3. tasks \in Seq(Tasks) /\ queue \in Seq(Buffers)
  BY DEF IInv, Kinds
<1>4. /\ x \in Decoders /\ x.codec = decoder.codec /\ x.vpu = decoder.vpu
      /\ x.changes = decoder.changes /\ x.userData = decoder.userData
      /\ Are(decoder, "free") \subseteq Are(x, "free")
      /\ Are(x, "decoded") \subseteq Are(decoder, "decoded") /\ Owed(x) = Owed(decoder)
      /\ Tally(x, 0, 0) /\ Within(x)
  BY <1>1, <1>2, Resetting DEF Sound
<1>5. /\ e \in Seq(Tasks) /\ At(e, "ready") = {} /\ At(e, "provide") = {}
  <2>1. DOMAIN queue = 1 .. Len(queue) /\ Len(queue) \in Nat
    BY <1>3
  <2>2. \A i \in DOMAIN queue : <<"end", queue[i]>> \in Tasks
    BY <1>3 DEF Tasks, Words
  <2>3. e \in Seq(Tasks)
    BY <2>1, <2>2
  <2>4. \A i \in DOMAIN e : e[i][1] = "end"
    OBVIOUS
  <2> HIDE DEF e
  <2>5. QED  BY <2>3, <2>4 DEF At
<1>6. f \in Seq(Tasks) /\ At(f, "ready") = {} /\ At(f, "provide") = {}
  <2>1. <<"done", 0>> \in Tasks
    BY DEF Tasks, Words
  <2>2. \A i \in DOMAIN f : f[i][1] = "done"
    OBVIOUS
  <2>3. f \in Seq(Tasks)
    BY <2>1
  <2>4. QED  BY <2>2, <2>3 DEF At
<1> HIDE DEF e, f, x
<1>7. Holds(x, received, tasks, tags, pictures, wants, held, nextId)
  <2>1. Stages(x)
    <3>1. decoder.vpu # "registered" => Are(x, "free") = Framebuffers
      BY <1>2, <1>4 DEF Sound, Stages, Are
    <3>2. decoder \in Decoders /\ Stages(decoder)
      BY <1>2 DEF Sound
    <3>3. QED  BY <1>4, <3>1, <3>2, SameStage
  <2>2. Fits(x, received)
    BY <1>2, <1>4, <2>1 DEF Fits, Sound
  <2>3. Wanted(x, tasks, pictures, wants)
    BY <1>2, <1>4 DEF Wanted
  <2>4. x.changes = 0 => Yours(x, tasks, tags, pictures, held)
    BY <1>2, <1>4, YoursStill
  <2>5. QED  BY <1>2, <2>2, <2>3, <2>4 DEF Holds
<1>8. /\ tasks \o e \in Seq(Tasks)
      /\ Holds(x, received, tasks \o e, tags, pictures, wants, held, nextId)
  BY <1>3, <1>5, <1>7, ToldHolds
<1> DEFINE t == tasks \o e
<1>9. t \in Seq(Tasks) /\ Holds(x, received, t, tags, pictures, wants, held, nextId)
  BY <1>8
<1>10. tasks' = t \o f
  BY <1>1
<1> HIDE DEF t
<1>11. Holds(x, received, t \o f, tags, pictures, wants, held, nextId)
  BY <1>6, <1>9, ToldHolds
<1>12. PicturesRight'
  BY <1>1, <1>10, <1>11 DEF PicturesRight, x
<1>13. LoadTypeOK' /\ received' \in BOOLEAN /\ draining' \in BOOLEAN
  BY <1>1 DEF VInv, LoadTypeOK, load
<1>14. QED  BY <1>12, <1>13 DEF VInv

\* A picture the client is sent becomes one it shows, and a question for pictures one
\* it has to answer.
LEMMA HearShown ==
    ASSUME IInv, VInv, NotifyEndOfBitstreamBuffer \/ ProvidePictureBuffers
                       \/ PictureReady \/ NotifyDone
    PROVE  VInv'
<1> DEFINE t == tasks
           u == Tail(tasks)
           id == Head(tasks)[2]
<1>1. /\ t # <<>> /\ tasks' = u
      /\ UNCHANGED <<load, decoder, received, pictures, tags, draining, nextId>>
  BY DEF NotifyEndOfBitstreamBuffer, ProvidePictureBuffers, PictureReady, NotifyDone,
         Hear, accelerator
<1>2. /\ Fits(decoder, received) /\ decoder.changes \in Nat
      /\ Provided(t, pictures, held, nextId) /\ Wanted(decoder, t, pictures, wants)
      /\ decoder.changes = 0 => Yours(decoder, t, tags, pictures, held)
  BY DEF VInv, PicturesRight, Holds, Fits, Sound, Decoders
<1>3. t \in Seq(Tasks)
  BY DEF IInv, Kinds
<1>4. /\ u \in Seq(Tasks)
      /\ \A i \in At(u, "ready") : i + 1 \in At(t, "ready") /\ u[i] = t[i + 1] /\ i \in Nat \ {0}
      /\ \A i \in At(t, "ready") : i = 1 \/ (i - 1 \in At(u, "ready") /\ u[i - 1] = t[i])
      /\ 1 \in At(t, "ready") <=> Head(t)[1] = "ready"
      /\ Head(t) = t[1]
      /\ Head(t)[1] # "ready" => IdsOf(t, "ready") = IdsOf(u, "ready")
  BY <1>1, <1>3, HeardOf
<1>5. /\ Head(t)[1] = "provide" => HowMany(t, "provide") = HowMany(u, "provide") + 1
      /\ Head(t)[1] # "provide" => HowMany(t, "provide") = HowMany(u, "provide")
  BY <1>1, <1>3, HeardOf
<1>6. HowMany(t, "provide") \in Nat /\ HowMany(u, "provide") \in Nat
  BY <1>3, <1>4, AtFinite
<1> HIDE DEF u
<1>7. \A i, j \in At(u, "ready") :
          (\A k, l \in At(t, "ready") : t[k][2] = t[l][2] => k = l)
              => (u[i][2] = u[j][2] => i = j)
  <2> SUFFICES ASSUME NEW i \in At(u, "ready"), NEW j \in At(u, "ready"),
                      \A k, l \in At(t, "ready") : t[k][2] = t[l][2] => k = l,
                      u[i][2] = u[j][2]
               PROVE  i = j
    OBVIOUS
  <2>1. i + 1 = j + 1 /\ i \in Nat /\ j \in Nat
    BY <1>4
  <2>2. QED  BY <2>1
<1>8. ASSUME NEW w, NEW h,
             Provided(u, pictures, h, nextId), Wanted(decoder, u, pictures, w),
             decoder.changes = 0 => Yours(decoder, u, tags, pictures, h),
             wants' = w, held' = h
      PROVE  VInv'
  <2>1. Holds(decoder, received, u, tags, pictures, w, h, nextId)
    BY <1>2, <1>8 DEF Holds
  <2>2. PicturesRight'
    BY <1>1, <1>8, <2>1 DEF PicturesRight
  <2>3. QED  BY <1>1, <2>2 DEF VInv, LoadTypeOK, load
<1>9. CASE Head(t)[1] = "ready"
  <2>1. wants' = wants /\ held' = held \cup {id}
    BY <1>9 DEF NotifyEndOfBitstreamBuffer, ProvidePictureBuffers, PictureReady, NotifyDone, Hear
  <2>2. 1 \in At(t, "ready") /\ id = t[1][2]
    BY <1>4, <1>9
  <2> HIDE DEF id
  <2>3. IdsOf(t, "ready") = IdsOf(u, "ready") \cup {id}
    <3>1. \A x \in IdsOf(t, "ready") : x \in IdsOf(u, "ready") \cup {id}
      <4> SUFFICES ASSUME NEW i \in At(t, "ready")
                   PROVE  t[i][2] \in IdsOf(u, "ready") \cup {id}
        BY DEF IdsOf
      <4>1. i = 1 \/ (i - 1 \in At(u, "ready") /\ u[i - 1] = t[i])
        BY <1>4
      <4>2. QED  BY <2>2, <4>1 DEF IdsOf
    <3>2. \A x \in IdsOf(u, "ready") : x \in IdsOf(t, "ready")
      BY <1>4 DEF IdsOf
    <3>3. id \in IdsOf(t, "ready")
      BY <2>2 DEF IdsOf
    <3>4. QED  BY <3>1, <3>2, <3>3
  <2>4. Provided(u, pictures, held \cup {id}, nextId)
    BY <1>2, <2>3 DEF Provided
  <2>5. Wanted(decoder, u, pictures, wants)
    BY <1>2, <1>5, <1>9 DEF Wanted
  <2>6. decoder.changes = 0 => Yours(decoder, u, tags, pictures, held \cup {id})
    <3> SUFFICES ASSUME decoder.changes = 0
                 PROVE  Yours(decoder, u, tags, pictures, held \cup {id})
      OBVIOUS
    <3>1. Yours(decoder, t, tags, pictures, held)
      BY <1>2
    <3>2. \A i, j \in At(t, "ready") : t[i][2] = t[j][2] => i = j
      BY <3>1 DEF Yours
    <3>3. id \notin IdsOf(u, "ready")
      <4> SUFFICES ASSUME NEW i \in At(u, "ready")
                   PROVE  u[i][2] # id
        BY DEF IdsOf
      <4>1. i + 1 \in At(t, "ready") /\ u[i] = t[i + 1] /\ i \in Nat \ {0}
        BY <1>4
      <4>2. i + 1 # 1
        BY <4>1
      <4>3. QED  BY <2>2, <3>2, <4>1, <4>2
    <3>4. (held \cup {id}) \cap IdsOf(u, "ready") = {}
      BY <2>3, <3>1, <3>3 DEF Yours
    <3>5. {tags[f] : f \in Owed(decoder)} = (held \cup {id}) \cup IdsOf(u, "ready")
      BY <2>3, <3>1 DEF Yours
    <3>6. QED  BY <1>7, <3>1, <3>2, <3>4, <3>5 DEF Yours
  <2>7. QED  BY <1>8, <2>1, <2>4, <2>5, <2>6
<1>10. CASE Head(t)[1] # "ready"
  <2>1. held' = held
    BY <1>10 DEF NotifyEndOfBitstreamBuffer, ProvidePictureBuffers, PictureReady, NotifyDone, Hear
  <2>2. IdsOf(t, "ready") = IdsOf(u, "ready")
    BY <1>4, <1>10
  <2>3. Provided(u, pictures, held, nextId)
    BY <1>2, <2>2 DEF Provided
  <2>4. decoder.changes = 0 => Yours(decoder, u, tags, pictures, held)
    BY <1>2, <1>7, <2>2 DEF Yours
  <2>5. wants' = IF Head(t)[1] = "provide" THEN wants + 1 ELSE wants
    BY DEF NotifyEndOfBitstreamBuffer, ProvidePictureBuffers, PictureReady, NotifyDone, Hear
  <2>6. Wanted(decoder, u, pictures, wants')
    <3> DEFINE some == IF pictures = {} THEN 0 ELSE 1
               first == IF decoder.vpu = "opened" THEN 0 ELSE 1
    <3>1. wants \in Nat /\ some \in 0 .. 1 /\ first \in 0 .. 1
          /\ wants + HowMany(t, "provide") + some <= decoder.changes + first
      BY <1>2 DEF Wanted
    <3> HIDE DEF some, first
    <3>2. wants' \in Nat /\ wants' + HowMany(u, "provide") + some <= decoder.changes + first
      <4>1. CASE Head(t)[1] = "provide"
        BY <1>2, <1>5, <1>6, <2>5, <3>1, <4>1
      <4>2. CASE Head(t)[1] # "provide"
        BY <1>2, <1>5, <1>6, <2>5, <3>1, <4>2
      <4>3. QED  BY <4>1, <4>2
    <3>3. QED  BY <3>2 DEF Wanted, some, first
  <2>7. QED  BY <1>8, <2>1, <2>3, <2>4, <2>6
<1>11. QED  BY <1>9, <1>10

\* What a session starts with, for the first time or again.
LEMMA OpenHolds ==
    ASSUME NEW codec \in Codecs, NEW informed, NEW ids, NEW n \in Nat
    PROVE  Holds(DecOpen(codec), informed, <<>>, ids, {}, 0, {}, n)
<1> DEFINE d == DecOpen(codec)
<1>1. d \in Decoders
  BY DEF DecOpen, Decoders, States
<1>2. /\ d.vpu = "opened" /\ d.changes = 0 /\ ~d.recalculate
      /\ d.available = 0 /\ d.decremented = 0 /\ d.inUse = 0
      /\ d.frames = [f \in Framebuffers |-> "free"]
      /\ d.missed = 0 /\ d.unreturned = {}
  BY DEF DecOpen
<1> HIDE DEF d
<1>3. Are(d, "free") = Framebuffers /\ Are(d, "decoded") = {} /\ Are(d, "shown") = {}
  BY <1>2 DEF Are
<1>4. Many(d, "free") = Number /\ Many(d, "decoded") = 0 /\ Many(d, "shown") = 0
  BY <1>3, FS_EmptySet DEF Many, Number
<1>5. Number \in Nat /\ Leaked(d) = 0
  BY <1>1, <1>2, LeakedType, Numbers
<1>6. Tally(d, 0, 0) /\ Within(d) /\ Owed(d) = {}
  BY <1>2, <1>3, <1>4, <1>5, FramebuffersAssumption DEF Tally, Within, Owed
<1>7. Stages(d)
  BY <1>2, <1>3, FramebuffersAssumption DEF Stages
<1>8. /\ At(<<>>, "ready") = {} /\ IdsOf(<<>>, "ready") = {} /\ HowMany(<<>>, "provide") = 0
  <2>1. \A w : At(<<>>, w) = {}
    BY DEF At
  <2>2. QED  BY <2>1, FS_EmptySet DEF IdsOf, HowMany
<1>9. Fits(d, informed)
  BY <1>1, <1>2, <1>6, <1>7 DEF Fits, Sound
<1>10. Provided(<<>>, {}, {}, n) /\ Wanted(d, <<>>, {}, 0)
  BY <1>2, <1>8 DEF Provided, Wanted
<1>11. Yours(d, <<>>, ids, {}, {})
  BY <1>6, <1>8 DEF Yours
<1>12. QED  BY <1>9, <1>10, <1>11 DEF Holds, d

\* A session that is opened or destroyed: this one starts again with nothing.
LEMMA SessionsShown ==
    ASSUME IInv, VInv, NEW s \in Sessions, InitializeSession(s) \/ DestroySession(s)
    PROVE  VInv'
<1>1. LoadTypeOK'
  <2>1. CASE InitializeSession(s)
    <3>1. /\ \/ counter' = 0 /\ loaded' = FALSE
             \/ counter' = 1 /\ loaded' = TRUE
             \/ UNCHANGED <<counter, loaded>>
          /\ \E x \in {"open", "failed"} : phase' = [phase EXCEPT ![s] = x]
      BY <2>1 DEF InitializeSession, Initialize, DecLoad, DecUnload
    <3>2. counter \in Nat /\ loaded \in BOOLEAN
          /\ phase \in [Sessions -> {"new", "open", "failed", "gone"}]
      BY DEF VInv, LoadTypeOK
    <3>3. counter' \in Nat /\ loaded' \in BOOLEAN
      <4>1. CASE counter' = 0 /\ loaded' = FALSE
        BY <4>1
      <4>2. CASE counter' = 1 /\ loaded' = TRUE
        BY <4>2
      <4>3. CASE UNCHANGED <<counter, loaded>>
        BY <3>2, <4>3
      <4>4. QED  BY <3>1, <4>1, <4>2, <4>3
    <3>4. phase' \in [Sessions -> {"new", "open", "failed", "gone"}]
      <4>1. PICK x \in {"open", "failed"} : phase' = [phase EXCEPT ![s] = x]
        BY <3>1
      <4>2. x \in {"new", "open", "failed", "gone"}
        OBVIOUS
      <4> DEFINE P == {"new", "open", "failed", "gone"}
      <4> HIDE DEF P
      <4>3. phase \in [Sessions -> P] /\ x \in P
        BY <3>2, <4>2 DEF P
      <4>4. phase' \in [Sessions -> P]
        BY <4>1, <4>3
      <4>5. QED  BY <4>4 DEF P
    <3>5. QED  BY <3>3, <3>4 DEF LoadTypeOK
  <2>2. CASE DestroySession(s)
    BY <2>2 DEF VInv, LoadTypeOK, DestroySession, Destroy, DecUnload
  <2>3. QED  BY <2>1, <2>2
<1>2. CASE InitializeSession(s)
  <2>1. UNCHANGED <<decoder, received, tasks, tags, pictures, wants, held, nextId, draining>>
    BY <1>2 DEF InitializeSession, accelerator, client
  <2>2. QED  BY <1>1, <2>1, UntouchedShown DEF VInv
<1>3. CASE DestroySession(s) /\ s # Me
  <2>1. UNCHANGED <<decoder, received, tasks, tags, pictures, wants, held, nextId, draining>>
    BY <1>3 DEF DestroySession, accelerator, client
  <2>2. QED  BY <1>1, <2>1, UntouchedShown DEF VInv
<1>4. CASE DestroySession(s) /\ s = Me
  <2>1. /\ decoder' = DecClose(decoder) /\ tasks' = <<>> /\ pictures' = {}
        /\ received' = FALSE /\ held' = {} /\ wants' = 0 /\ UNCHANGED <<draining, nextId>>
    BY <1>4 DEF DestroySession
  <2>2. decoder.codec \in Codecs /\ nextId \in Nat
    BY DEF VInv, PicturesRight, Holds, Fits, Sound, Decoders, Provided
  <2>3. Holds(DecOpen(decoder.codec), FALSE, <<>>, tags', {}, 0, {}, nextId)
    BY <2>2, OpenHolds
  <2>4. PicturesRight'
    BY <2>1, <2>3 DEF PicturesRight, DecClose
  <2>5. QED  BY <1>1, <2>1, <2>4 DEF VInv
<1>5. QED  BY <1>2, <1>3, <1>4

\* Decode and Flush leave the pictures alone but for the buffer they process.
LEMMA CallsShown ==
    ASSUME IInv, VInv, Flush \/ \E b \in Buffers : Decode(b)
    PROVE  VInv'
<1>1. /\ UNCHANGED <<load, held, wants, nextId>> /\ ~decoder.crashed
      /\ draining' \in BOOLEAN
      /\ \/ ProcessQueuedInput(decoder, queue, pictures, tags)
         \/ \E b \in Buffers : ProcessQueuedInput(decoder, Append(queue, b), pictures, tags)
  BY DEF Flush, Decode, Running, VInv
<1>2. queue \in Seq(Buffers) /\ \A b \in Buffers : Append(queue, b) \in Seq(Buffers)
  BY DEF IInv, Kinds
<1>3. Holds(decoder, received, tasks, tags, pictures, wants', held', nextId')
  BY <1>1 DEF VInv, PicturesRight
<1>4. QED  BY <1>1, <1>2, <1>3, QueueKept

\* The account of the pictures and of the frames holds at first, and every step keeps it.
LEMMA ShownKept ==
    ASSUME IInv, VInv, [Next]_vars
    PROVE  VInv'
<1>1. CASE Next
  BY <1>1, CallsShown, AssignShown, ReuseShown, DrainShown, ResetShown, HearShown,
     SessionsShown DEF Next
<1>2. CASE UNCHANGED vars
  <2>1. UNCHANGED <<decoder, received, tasks, tags, pictures, wants, held, nextId, draining, load>>
    BY <1>2 DEF vars, accelerator, client
  <2>2. LoadTypeOK'
    BY <2>1 DEF VInv, LoadTypeOK, load
  <2>3. QED  BY <2>1, <2>2, UntouchedShown DEF VInv
<1>3. QED  BY <1>1, <1>2

\* At first there are no pictures, and the counters are 0.
LEMMA InitShown ==
    ASSUME Init
    PROVE  VInv
<1>1. PICK codec \in Codecs : decoder = DecOpen(codec)
  BY DEF Init
<1>2. /\ received = FALSE /\ pictures = {} /\ draining = FALSE /\ tasks = <<>> /\ held = {}
      /\ wants = 0 /\ nextId = 0
  BY DEF Init
<1>3. LoadTypeOK
  BY DEF Init, LoadInit, LoadTypeOK
<1>4. Holds(DecOpen(codec), FALSE, <<>>, tags, {}, 0, {}, 0)
  BY OpenHolds
<1>5. QED  BY <1>1, <1>2, <1>3, <1>4 DEF VInv, PicturesRight

\* The account of frames, pictures and messages is always right, whatever calls fail.
THEOREM PicturesAlways == Spec => []VInv
<1>1. Init => VInv
  BY InitShown
<1>2. IInv /\ VInv /\ [Next]_vars => VInv'
  BY ShownKept
<1>3. QED  BY <1>1, <1>2, AccountAlways, PTL DEF Spec

----------------------------------------------------------------------------
\* What follows from the account

\* The types, from the account: what the changes of the resolution and the calls that
\* fail leave behind is bounded by their number.
LEMMA TypesFollow ==
    ASSUME IInv, VInv
    PROVE  TypeOK
<1>1. /\ decoder \in Decoders /\ Within(decoder) /\ Tally(decoder, 0, 0)
      /\ Provided(tasks, pictures, held, nextId) /\ Wanted(decoder, tasks, pictures, wants)
      /\ received \in BOOLEAN /\ draining \in BOOLEAN /\ LoadTypeOK
  BY DEF VInv, PicturesRight, Holds, Fits, Sound
<1>2. /\ Number \in Nat /\ Leaked(decoder) \in Nat
      /\ Many(decoder, "free") \in Nat /\ Many(decoder, "decoded") \in Nat
      /\ Many(decoder, "shown") \in Nat
      /\ Many(decoder, "free") + Many(decoder, "decoded") + Many(decoder, "shown") = Number
      /\ decoder.available \in Int /\ decoder.decremented \in Int /\ decoder.inUse \in Int
  BY <1>1, Numbers
<1>3. /\ decoder.missed \in Nat /\ decoder.changes \in Nat
      /\ Number * (decoder.changes + 1) + decoder.missed = Leaked(decoder) + Number
  BY <1>1, LeakedType
<1>4. -(Number * decoder.changes + decoder.missed) = -Leaked(decoder)
  BY DEF Leaked
<1>10. /\ decoder.available \in -Leaked(decoder) .. Number + decoder.missed
       /\ decoder.inUse \in -decoder.missed .. Leaked(decoder) + Number
       /\ decoder.decremented \in 0 .. Number
  BY <1>1, <1>2, <1>3 DEF Tally
<1>5. /\ decoder.available \in -(Number * decoder.changes + decoder.missed) .. Number + decoder.missed
      /\ decoder.inUse \in -decoder.missed .. Number * (decoder.changes + 1) + decoder.missed
      /\ decoder.decremented \in 0 .. Number
  BY <1>3, <1>4, <1>10
<1>6. decoder.frames \in [Framebuffers -> {"free", "decoded", "shown"}]
  BY <1>1 DEF Decoders, States
<1>7. wants \in 0 .. decoder.changes + 1
  <2> DEFINE some == IF pictures = {} THEN 0 ELSE 1
             first == IF decoder.vpu = "opened" THEN 0 ELSE 1
  <2>1. some \in 0 .. 1 /\ first \in 0 .. 1 /\ wants \in Nat
        /\ wants + HowMany(tasks, "provide") + some <= decoder.changes + first
    BY <1>1 DEF Wanted
  <2>2. HowMany(tasks, "provide") \in Nat
    BY AtFinite DEF IInv, Kinds
  <2> HIDE DEF some, first
  <2>3. QED  BY <1>3, <2>1, <2>2
<1>8. pictures \subseteq 0 .. nextId - 1 /\ held \subseteq pictures
  BY <1>1 DEF Provided
<1>9. Range(queue) \subseteq Buffers /\ lent \subseteq Buffers /\ lost \subseteq lent
  BY DEF IInv, Kinds, Accounts, Range
<1>12. decoder.unreturned \subseteq Are(decoder, "shown") /\ Upsets(decoder) <= MaxUpsets
  BY <1>1 DEF Within, Upsets
<1>11. QED  BY <1>1, <1>3, <1>5, <1>6, <1>7, <1>8, <1>9, <1>12 DEF TypeOK

\* The counter of free framebuffers, from the tally.
LEMMA CountFollows ==
    ASSUME VInv
    PROVE  CountIsRight
<1>1. decoder \in Decoders /\ Tally(decoder, 0, 0)
  BY DEF VInv, PicturesRight, Holds, Fits, Sound
<1>2. Many(decoder, "free") \in Nat /\ decoder.available \in Int /\ decoder.missed \in Nat
  BY <1>1, Numbers, LeakedType
<1>3. /\ decoder.available <= Many(decoder, "free") + decoder.missed
      /\ decoder.vpu = "registered" /\ decoder.changes + decoder.missed = 0
         /\ ~decoder.recalculate /\ ~decoder.flushed => decoder.available = Many(decoder, "free")
  BY <1>1, <1>2 DEF Tally
<1>4. QED  BY <1>3 DEF CountIsRight, Many

\* As many frames are owed as pictures are held or on the way.
LEMMA ShownFollows ==
    ASSUME IInv, VInv
    PROVE  ShownIsTheClients
<1> DEFINE S == Owed(decoder)
           R == IdsOf(tasks, "ready")
           A == At(tasks, "ready")
<1>1. /\ decoder \in Decoders /\ tasks \in Seq(Tasks)
      /\ Provided(tasks, pictures, held, nextId)
      /\ decoder.changes = 0 => Yours(decoder, tasks, tags, pictures, held)
  BY DEF VInv, PicturesRight, Holds, Fits, Sound, IInv, Kinds
<1>2. SUFFICES ASSUME Yours(decoder, tasks, tags, pictures, held)
               PROVE  /\ {tags[f] : f \in S} = held \cup Ready
                      /\ Cardinality(S)
                         = Cardinality(held) + Cardinality({i \in DOMAIN tasks : tasks[i][1] = "ready"})
  BY <1>1 DEF ShownIsTheClients
<1>3. Ready = R
  BY DEF Ready, IdsOf, At, Range
<1>4. A = {i \in DOMAIN tasks : tasks[i][1] = "ready"}
  BY DEF At
<1>5. /\ {tags[f] : f \in S} = held \cup R /\ held \cap R = {}
      /\ \A i, j \in A : tasks[i][2] = tasks[j][2] => i = j
      /\ pictures # {} => \A f, g \in S : tags[f] = tags[g] => f = g
  BY <1>2 DEF Yours, Owed, Are
<1>6. IsFiniteSet(S) /\ IsFiniteSet(A)
  <2>1. decoder.frames \in [Framebuffers -> States]
    BY <1>1 DEF Decoders
  <2>2. IsFiniteSet(Are(decoder, "shown")) /\ S \subseteq Are(decoder, "shown")
    BY <2>1, AllStates DEF States, Owed
  <2>3. QED  BY <1>1, <2>2, FS_Subset, AtFinite
<1>7. R = {tasks[i][2] : i \in A}
  BY DEF IdsOf
<1>8. S # {} => \A f, g \in S : tags[f] = tags[g] => f = g
  <2>1. held \cup R \subseteq pictures
    BY <1>1 DEF Provided
  <2>2. QED  BY <1>5, <2>1
<1> HIDE DEF S, R, A
<1>9. IsFiniteSet(R) /\ Cardinality(R) = Cardinality(A)
  <2> DEFINE m == [i \in A |-> tasks[i][2]]
  <2>1. m \in Bijection(A, R)
    <3>1. m \in [A -> R]
      BY <1>7
    <3>2. \A i, j \in A : m[i] = m[j] => i = j
      BY <1>5
    <3>3. \A x \in R : \E i \in A : m[i] = x
      BY <1>7
    <3> HIDE DEF m
    <3>4. QED  BY <3>1, <3>2, <3>3 DEF Bijection, Injection, Surjection, IsInjective
  <2>2. ExistsBijection(A, R)
    BY <2>1 DEF ExistsBijection
  <2>3. QED  BY <1>6, <2>2, FS_Bijection
<1>10. IsFiniteSet(held \cup R) /\ Cardinality(held \cup R) = Cardinality(S)
  <2> DEFINE m == [f \in S |-> tags[f]]
  <2>1. m \in Bijection(S, held \cup R)
    <3>1. m \in [S -> held \cup R]
      BY <1>5
    <3>2. \A f, g \in S : m[f] = m[g] => f = g
      BY <1>8
    <3>3. \A x \in held \cup R : \E f \in S : m[f] = x
      BY <1>5
    <3> HIDE DEF m
    <3>4. QED  BY <3>1, <3>2, <3>3 DEF Bijection, Injection, Surjection, IsInjective
  <2>2. ExistsBijection(S, held \cup R)
    BY <2>1 DEF ExistsBijection
  <2>3. QED  BY <1>6, <2>2, FS_Bijection
<1>11. Cardinality(held \cup R) = Cardinality(held) + Cardinality(R)
  <2>1. held \subseteq held \cup R
    OBVIOUS
  <2>2. IsFiniteSet(held)
    BY <1>10, <2>1, FS_Subset
  <2>3. Cardinality(held \cap R) = 0
    BY <1>5, FS_EmptySet
  <2>4. Cardinality(held) \in Nat /\ Cardinality(R) \in Nat
    BY <1>9, <2>2, FS_CardinalityType
  <2>5. Cardinality(held \cup R)
            = Cardinality(held) + Cardinality(R) - Cardinality(held \cap R)
    BY <1>9, <2>2, FS_Union
  <2>6. QED  BY <2>3, <2>4, <2>5
<1>12. Cardinality(S) = Cardinality(held) + Cardinality(A)
  BY <1>9, <1>10, <1>11
<1>13. QED  BY <1>3, <1>4, <1>5, <1>12

\* TypeOK: the counters of the wrapper stay in their ranges, for any number of
\* framebuffers, of changes of the resolution and of calls of the VPU that fail.
THEOREM TypesAlways == Spec => []TypeOK
<1>1. IInv /\ VInv => TypeOK
  BY TypesFollow
<1>2. QED  BY <1>1, AccountAlways, PicturesAlways, PTL

\* CountIsRight: the counter the queue waits on promises more than is free only by the
\* frames the wrapper did not hear of, because a call of the VPU failed.
THEOREM CountAlways == Spec => []CountIsRight
<1>1. VInv => CountIsRight
  BY CountFollows
<1>2. QED  BY <1>1, PicturesAlways, PTL

\* ShownIsTheClients: what the client shows or is about to be sent is what the VPU
\* keeps its hands off, one frame for each picture, and apart from the frames that a
\* failed call has left with nobody it is all of it.
THEOREM ShownAlways == Spec => []ShownIsTheClients
<1>1. IInv /\ VInv => ShownIsTheClients
  BY ShownFollows
<1>2. QED  BY <1>1, AccountAlways, PicturesAlways, PTL
=============================================================================

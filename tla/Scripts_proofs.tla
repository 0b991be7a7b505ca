--------------------------- MODULE Scripts_proofs ---------------------------
(***************************************************************************)
(* Facts about call stacks and about opkg, for any number of packages and  *)
(* any dependencies: what a step leaves is a call stack, and removing      *)
(* packages together with their users leaves nobody without what it needs. *)
(***************************************************************************)
EXTENDS Scripts, SequenceTheorems, TLAPS

----------------------------------------------------------------------------
\* The call stack

\* What the head of a call stack is made of, and what is below it.
LEMMA TopType ==
    ASSUME stack \in Seq(Frames), stack # <<>>
    PROVE  /\ Head(stack) \in Frames
           /\ Todo \in Seq(Pkg)
           /\ Tail(stack) \in Seq(Frames)
<1>1. /\ Head(stack) \in Frames
      /\ Tail(stack) \in Seq(Frames)
  BY HeadTailProperties
<1>2. Todo \in Seq(Pkg)
  BY <1>1 DEF Todo, Frames
<1>3. QED  BY <1>1, <1>2

\* Putting frames on a call stack gives a call stack.
LEMMA PushType ==
    ASSUME NEW s \in Seq(Frames), NEW f \in Frames
    PROVE  <<f>> \o s \in Seq(Frames)
<1>1. <<f>> \in Seq(Frames)  OBVIOUS
<1>2. QED  BY <1>1, ConcatProperties

\* A step to another line keeps the call stack well formed.
LEMMA GotoType ==
    ASSUME stack \in Seq(Frames), stack # <<>>,
           NEW l \in Labels, NEW todo \in Seq(Pkg), Goto(l, todo)
    PROVE  stack' \in Seq(Frames)
<1>1. Moved(l, todo) \in Frames
  BY TopType DEF Moved, Frames
<1>2. QED  BY <1>1, TopType, PushType DEF Goto

\* So does a call.
LEMMA CallType ==
    ASSUME stack \in Seq(Frames), stack # <<>>,
           NEW op \in Ops, NEW p \in Pkg,
           NEW l \in Labels, NEW todo \in Seq(Pkg), Call(op, p, l, todo)
    PROVE  stack' \in Seq(Frames)
<1>1. Moved(l, todo) \in Frames
  BY TopType DEF Moved, Frames
<1>2. Frame(op, p) \in Frames
  BY DEF Frame, Frames, Labels
<1>3. <<Frame(op, p), Moved(l, todo)>> \in Seq(Frames)
  BY <1>1, <1>2
<1>4. QED  BY <1>3, TopType, ConcatProperties DEF Call

\* So does the end of a script.
LEMMA ReturnType ==
    ASSUME stack \in Seq(Frames), stack # <<>>, Return
    PROVE  stack' \in Seq(Frames)
BY TopType DEF Return

\* So does a turn of a loop over dependencies.
LEMMA ForEachType ==
    ASSUME stack \in Seq(Frames), stack # <<>>,
           NEW op \in Ops, NEW l \in Labels, ForEach(op, l)
    PROVE  stack' \in Seq(Frames)
<1>1. CASE Todo = <<>>
  <2>1. Goto(l, <<>>) /\ <<>> \in Seq(Pkg)
    BY <1>1 DEF ForEach
  <2>2. QED  BY <2>1, GotoType
<1>2. CASE Todo # <<>>
  <2>1. Head(Todo) \in Pkg /\ Tail(Todo) \in Seq(Pkg)
    BY <1>2, TopType, HeadTailProperties
  <2>2. Head(stack).at \in Labels
    BY TopType DEF Frames
  <2>3. Call(op, Head(Todo), Head(stack).at, Tail(Todo))
    BY <1>2 DEF ForEach
  <2>4. QED  BY <2>1, <2>2, <2>3, CallType
<1>3. QED  BY <1>1, <1>2

\* The head and the tail of a list have no other elements than the list.
LEMMA ListElems ==
    ASSUME NEW S, NEW s \in Seq(S), s # <<>>
    PROVE  /\ Head(s) \in S
           /\ Tail(s) \in Seq(S)
           /\ Head(s) \in Elems(s)
           /\ Elems(Tail(s)) \subseteq Elems(s)
<1>1. Len(s) \in Nat \ {0} /\ DOMAIN s = 1 .. Len(s)
  BY EmptySeq, LenProperties
<1>2. Head(s) \in S /\ Tail(s) \in Seq(S)
  BY HeadTailProperties
<1>3. Head(s) \in Elems(s)
  BY <1>1 DEF Elems
<1>4. ASSUME NEW f \in Elems(Tail(s)) PROVE f \in Elems(s)
  <2>1. PICK i \in 1 .. (Len(s) - 1) : f = Tail(s)[i]
    BY <1>1 DEF Elems
  <2>2. f = s[i + 1] /\ i + 1 \in DOMAIN s
    BY <1>1, <2>1
  <2>3. QED  BY <2>2 DEF Elems
<1>5. QED  BY <1>2, <1>3, <1>4

\* The head of a call stack is one of its frames, what is below has no others.
LEMMA TopElems ==
    ASSUME stack \in Seq(Frames), stack # <<>>
    PROVE  /\ Head(stack) \in Elems(stack)
           /\ Elems(Tail(stack)) \subseteq Elems(stack)
BY ListElems

\* The frames of a call stack on which one was put.
LEMMA PushElems ==
    ASSUME NEW s \in Seq(Frames), NEW f \in Frames
    PROVE  Elems(<<f>> \o s) \subseteq Elems(s) \cup {f}
<1> SUFFICES ASSUME NEW i \in DOMAIN (<<f>> \o s), i # 1
             PROVE  (<<f>> \o s)[i] \in Elems(s)
  BY DEF Elems
<1>1. i \in 2 .. (Len(s) + 1)
  BY LenProperties
<1>2. (<<f>> \o s)[i] = s[i - 1] /\ i - 1 \in DOMAIN s
  BY <1>1, LenProperties
<1>3. QED  BY <1>2 DEF Elems

\* The frames after a step of the script on top.
LEMMA GotoElems ==
    ASSUME stack \in Seq(Frames), stack # <<>>,
           NEW l \in Labels, NEW todo \in Seq(Pkg), Goto(l, todo)
    PROVE  Elems(stack') \subseteq Elems(stack) \cup {Moved(l, todo)}
<1>1. Moved(l, todo) \in Frames
  BY TopType DEF Moved, Frames
<1>2. QED  BY <1>1, TopType, TopElems, PushElems DEF Goto

LEMMA CallElems ==
    ASSUME stack \in Seq(Frames), stack # <<>>,
           NEW op \in Ops, NEW p \in Pkg,
           NEW l \in Labels, NEW todo \in Seq(Pkg), Call(op, p, l, todo)
    PROVE  Elems(stack') \subseteq
               Elems(stack) \cup {Frame(op, p), Moved(l, todo)}
<1>1. Moved(l, todo) \in Frames
  BY TopType DEF Moved, Frames
<1>2. Frame(op, p) \in Frames
  BY DEF Frame, Frames, Labels
<1>3. <<Moved(l, todo)>> \o Tail(stack) \in Seq(Frames)
  BY <1>1, TopType, PushType
<1>4. stack' = <<Frame(op, p)>> \o (<<Moved(l, todo)>> \o Tail(stack))
  BY <1>1, <1>2, TopType DEF Call
<1>5. QED  BY <1>1, <1>2, <1>3, <1>4, TopType, TopElems, PushElems

LEMMA ReturnElems ==
    ASSUME stack \in Seq(Frames), stack # <<>>, Return
    PROVE  Elems(stack') \subseteq Elems(stack)
BY TopElems DEF Return

----------------------------------------------------------------------------
\* opkg

\* A package that needs a user of q is a user of q.
LEMMA UsersUpward ==
    ASSUME NEW depends, NEW q, NEW d \in Users(q, depends),
           NEW p \in Pkg, d \in Elems(depends[p])
    PROVE  p \in Users(q, depends)
<1> SUFFICES ASSUME NEW S \in SUBSET Pkg, q \in S,
                    \A r \in Pkg : Elems(depends[r]) \cap S # {} => r \in S
             PROVE  p \in S
  BY DEF Users
<1>1. d \in S
  BY DEF Users
<1>2. QED  BY <1>1

\* A package uses itself.
LEMMA UsersSelf ==
    ASSUME NEW depends, NEW p \in Pkg
    PROVE  p \in Users(p, depends)
BY DEF Users

\* Who uses a package also uses what that package needs.
LEMMA UsersDownward ==
    ASSUME NEW depends, NEW p \in Pkg, NEW q \in Elems(depends[p]),
           NEW r \in Users(p, depends)
    PROVE  r \in Users(q, depends)
<1> SUFFICES ASSUME NEW S \in SUBSET Pkg, q \in S,
                    \A t \in Pkg : Elems(depends[t]) \cap S # {} => t \in S
             PROVE  r \in S
  BY DEF Users
<1>1. p \in S
  OBVIOUS
<1>2. QED  BY <1>1 DEF Users

\* A package that uses another one needs a user of it.
LEMMA UsersSplit ==
    ASSUME NEW depends, NEW p \in Pkg, NEW r \in Users(p, depends), r # p
    PROVE  \E d \in Elems(depends[r]) : d \in Users(p, depends)
<1> DEFINE U == Users(p, depends)
           T == {p} \cup {x \in Pkg : Elems(depends[x]) \cap U # {}}
<1>1. T \in SUBSET Pkg /\ p \in T
  OBVIOUS
<1>2. T \subseteq U
  <2>1. p \in U
    BY UsersSelf
  <2>2. \A x \in Pkg : Elems(depends[x]) \cap U # {} => x \in U
    BY UsersUpward
  <2>3. QED  BY <2>1, <2>2
<1>3. \A x \in Pkg : Elems(depends[x]) \cap T # {} => x \in T
  BY <1>2
<1>4. r \in T
  <2>1. \A S \in SUBSET Pkg :
            (p \in S /\ \A x \in Pkg : Elems(depends[x]) \cap S # {} => x \in S)
                => r \in S
    BY DEF Users
  <2> HIDE DEF T
  <2>2. QED  BY <1>1, <1>3, <2>1
<1>5. QED  BY <1>4

\* opkg's removal of dependent packages leaves nothing without what it needs.
LEMMA RemainingClosed ==
    ASSUME NEW depends, NEW S, installed \subseteq Pkg,
           \A p \in installed : Elems(depends[p]) \subseteq installed
    PROVE  \A p \in Remaining(S, depends) :
               Elems(depends[p]) \subseteq Remaining(S, depends)
<1> SUFFICES ASSUME NEW p \in Remaining(S, depends), NEW d \in Elems(depends[p])
             PROVE  d \in Remaining(S, depends)
  OBVIOUS
<1>1. p \in installed /\ p \in Pkg /\ d \in installed
  BY DEF Remaining
<1>2. \A q \in S \cap installed : d \notin Users(q, depends)
  BY <1>1, UsersUpward DEF Remaining
<1>3. QED  BY <1>1, <1>2 DEF Remaining

----------------------------------------------------------------------------
\* Where the frames of a call stack are

\* Where the frames of a call stack are.
LEMMA TopShape ==
    ASSUME stack \in Seq(Frames), stack # <<>>
    PROVE  /\ Len(stack) \in Nat \ {0}
           /\ DOMAIN stack = 1 .. Len(stack)
           /\ stack[1] = Head(stack)
           /\ \A j \in DOMAIN stack : stack[j] \in Frames
BY EmptySeq, LenProperties

\* A step on top changes the line and the loop of the top frame.
LEMMA GotoShape ==
    ASSUME stack \in Seq(Frames), stack # <<>>,
           NEW l \in Labels, NEW todo \in Seq(Pkg), Goto(l, todo)
    PROVE  /\ DOMAIN stack' = DOMAIN stack
           /\ stack'[1].op = stack[1].op /\ stack'[1].pkg = stack[1].pkg
           /\ stack'[1].at = l /\ stack'[1].todo = todo
           /\ \A j \in DOMAIN stack : j # 1 => stack'[j] = stack[j]
<1>t. PICK t \in Seq(Frames) : t = Tail(stack)
  BY TopType
<1>m. PICK m \in Frames : m = Moved(l, todo)
  BY TopType DEF Moved, Frames
<1>1. /\ Len(t) = Len(stack) - 1
      /\ \A i \in 1 .. Len(t) : t[i] = stack[i + 1]
  BY <1>t, TopShape
<1>2. stack' = <<m>> \o t
  BY <1>t, <1>m DEF Goto
<1>3. /\ DOMAIN stack' = 1 .. Len(stack)
      /\ stack'[1] = m
      /\ \A j \in 2 .. Len(stack) : stack'[j] = t[j - 1]
  BY <1>1, <1>2, TopShape, LenProperties
<1>4. m.op = stack[1].op /\ m.pkg = stack[1].pkg /\ m.at = l /\ m.todo = todo
  BY <1>m, TopShape, TopType DEF Moved, Frames
<1>5. ASSUME NEW j \in DOMAIN stack, j # 1 PROVE stack'[j] = stack[j]
  <2>1. j \in 2 .. Len(stack) /\ j - 1 \in 1 .. Len(t) /\ (j - 1) + 1 = j
    BY <1>5, <1>1, TopShape
  <2>2. QED  BY <2>1, <1>1, <1>3
<1>6. QED  BY <1>3, <1>4, <1>5, TopShape

\* A call puts a frame on the one that moves on.
LEMMA CallShape ==
    ASSUME stack \in Seq(Frames), stack # <<>>,
           NEW op \in Ops, NEW p \in Pkg,
           NEW l \in Labels, NEW todo \in Seq(Pkg), Call(op, p, l, todo)
    PROVE  /\ DOMAIN stack' = 1 .. (Len(stack) + 1)
           /\ stack'[1] = Frame(op, p)
           /\ stack'[2].op = stack[1].op /\ stack'[2].pkg = stack[1].pkg
           /\ stack'[2].at = l /\ stack'[2].todo = todo
           /\ \A j \in DOMAIN stack' : j \notin {1, 2} =>
                /\ j - 1 \in DOMAIN stack /\ j - 1 # 1
                /\ stack'[j] = stack[j - 1]
<1>t. PICK t \in Seq(Frames) : t = Tail(stack)
  BY TopType
<1>m. PICK m \in Frames : m = Moved(l, todo)
  BY TopType DEF Moved, Frames
<1>f0. Frame(op, p) \in Frames
  BY DEF Frame, Frames, Labels
<1>f. PICK f \in Frames : f = Frame(op, p)
  BY <1>f0
<1>1. /\ Len(t) = Len(stack) - 1
      /\ \A i \in 1 .. Len(t) : t[i] = stack[i + 1]
  BY <1>t, TopShape
<1>2. stack' = <<f, m>> \o t
  BY <1>t, <1>m, <1>f DEF Call
<1>3. /\ DOMAIN stack' = 1 .. (Len(stack) + 1)
      /\ stack'[1] = f /\ stack'[2] = m
      /\ \A j \in 3 .. (Len(stack) + 1) : stack'[j] = t[j - 2]
  BY <1>1, <1>2, TopShape, LenProperties
<1>4. m.op = stack[1].op /\ m.pkg = stack[1].pkg /\ m.at = l /\ m.todo = todo
  BY <1>m, TopShape, TopType DEF Moved, Frames
<1>5. ASSUME NEW j \in DOMAIN stack', j \notin {1, 2}
      PROVE  j - 1 \in DOMAIN stack /\ j - 1 # 1 /\ stack'[j] = stack[j - 1]
  <2>1. /\ j \in 3 .. (Len(stack) + 1) /\ j - 2 \in 1 .. Len(t)
        /\ (j - 2) + 1 = j - 1 /\ j - 1 \in 1 .. Len(stack) /\ j - 1 # 1
    BY <1>5, <1>1, <1>3, TopShape
  <2>2. QED  BY <2>1, <1>1, <1>3, TopShape
<1>6. QED  BY <1>3, <1>4, <1>5, <1>f

\* The end of a script leaves the frames below its own.
LEMMA ReturnShape ==
    ASSUME stack \in Seq(Frames), stack # <<>>, Return
    PROVE  \A j \in DOMAIN stack' :
                /\ j \in Nat \ {0}
                /\ j + 1 \in DOMAIN stack
                /\ stack'[j] = stack[j + 1]
<1>1. DOMAIN stack' = 1 .. (Len(stack) - 1)
  BY TopShape, TopType, LenProperties DEF Return
<1>2. QED  BY <1>1, TopShape DEF Return

\* The elements of a list are its head and those of its tail.
LEMMA ListParts ==
    ASSUME NEW S, NEW s \in Seq(S), s # <<>>
    PROVE  Elems(s) \subseteq {Head(s)} \cup Elems(Tail(s))
<1> SUFFICES ASSUME NEW i \in DOMAIN s, i # 1 PROVE s[i] \in Elems(Tail(s))
  <2>1. Head(s) = s[1]
    OBVIOUS
  <2>2. QED  BY <2>1 DEF Elems
<1>1. /\ Len(s) \in Nat \ {0} /\ DOMAIN s = 1 .. Len(s)
      /\ Tail(s) \in Seq(S) /\ Len(Tail(s)) = Len(s) - 1
  BY EmptySeq, LenProperties, HeadTailProperties
<1>2. i - 1 \in 1 .. (Len(s) - 1) /\ (i - 1) + 1 = i
  BY <1>1
<1>3. Tail(s)[i - 1] = s[i]
  BY <1>1, <1>2
<1>4. i - 1 \in DOMAIN Tail(s)
  BY <1>1, <1>2, LenProperties
<1>5. QED  BY <1>3, <1>4 DEF Elems
=============================================================================

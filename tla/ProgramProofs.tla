--------------------------- MODULE ProgramProofs ---------------------------
(***************************************************************************)
(* Why the objects, the containers, the handler and the kernel of Program  *)
(* agree however its calls are nested, for any number of descriptors,      *)
(* sockets and calls, to any depth.  Hooks may call anything, but that     *)
(* none may close a socket that listen() or connect() is still about to    *)
(* close, or the container of such a socket: SafeToDrain and ToBeClosed,   *)
(* the guards of CloseServer, CloseClient and UserClose.                   *)
(*                                                                         *)
(* The argument is about the call stack.  A socket that was closed has one *)
(* pending eraser, and a CLOSED or DISCONNECT hook lies right above it     *)
(* (Below).  Each operation puts a stack that is so by itself on top of    *)
(* the rest.                                                               *)
(*                                                                         *)
(* A call of socket::close below the top is of a socket that is still      *)
(* open, and nothing above it closes that socket, by itself or by draining *)
(* its container (Waiting): when its turn comes the socket is there.  The  *)
(* guards keep this so, and so do the hooks of a socket that closes, which *)
(* is never one that waits.                                                *)
(*                                                                         *)
(* No descriptor leaks from programs whose hooks neither listen nor        *)
(* connect while a socket is being closed (ClosingOpensNothing): above an  *)
(* eraser there are no other hooks (CalmAboveErasers).                     *)
(***************************************************************************)
EXTENDS Program, ActionListProofs

Hooks == ServerHooks \cup ClientHooks \cup RawHooks \cup BasicHooks \cup UdpHooks

Tasks ==
    {CloseTask(obj) : obj \in Ptrs} \cup {EraseTask(obj) : obj \in Ptrs}
        \cup {BoundTask(obj) : obj \in Ptrs} \cup {AcceptTask}
        \cup {DrainTask(container) : container \in {Listeners, Clients, Connections}}
        \cup [do : {"hook"}, hook : Hooks, obj : Ptrs \cup {NoCall}, calls : Int]

(* The hooks that are told of the end of a socket of a container.          *)
ToldOfEnd(task) == task.do = "hook" /\ task.hook \in {"CLOSED", "DISCONNECT"}

(* The stack, when the sockets of containers in `closed` were closed, and  *)
(* `drained` says whether the server has no client left.                   *)
BelowAt(stack, closed, drained, i) ==
    /\ stack[i].do # "accept"
    /\ ToldOfEnd(stack[i]) => i < Len(stack) /\ stack[i + 1] = EraseTask(stack[i].obj)
    /\ stack[i].do = "erase" => stack[i].obj \in closed
    /\ stack[i] = DrainTask(Listeners) =>
          drained \/ (i > 1 /\ stack[i - 1] = DrainTask(Clients))

OneEraser(stack, obj) ==
    \E i \in 1 .. Len(stack) :
        /\ stack[i] = EraseTask(obj)
        /\ \A j \in 1 .. Len(stack) : stack[j] = EraseTask(obj) => j = i

Below(stack, closed, drained) ==
    /\ stack \in Seq(Tasks)
    /\ \A i \in 1 .. Len(stack) : BelowAt(stack, closed, drained, i)
    /\ \A obj \in closed : OneEraser(stack, obj)

-----------------------------------------------------------------------------
(* Stacks.                                                                 *)

(* What kind of task a task is.                                            *)
LEMMA TaskKinds ==
    ASSUME NEW task \in Tasks
    PROVE  /\ task.do = "erase" => task.obj \in Ptrs /\ task = EraseTask(task.obj)
           /\ task.do = "close" => task.obj \in Ptrs /\ task = CloseTask(task.obj)
           /\ task.do = "accept" => task = AcceptTask
           /\ task.do = "bound" => task.obj \in Ptrs /\ task = BoundTask(task.obj)
           /\ task.do = "drain" => /\ task.container \in {Listeners, Clients, Connections}
                                   /\ task = DrainTask(task.container)
           /\ task.do = "hook" =>
                 task \in [do : {"hook"}, hook : Hooks, obj : Ptrs \cup {NoCall}, calls : Int]
  BY DEF Tasks, EraseTask, CloseTask, AcceptTask, BoundTask, DrainTask

(* Two such stacks on each other are such a stack.                         *)
LEMMA BelowConcat ==
    ASSUME NEW top, NEW rest, NEW A, NEW B, NEW drained,
           Below(top, A, FALSE), Below(rest, B, drained), A \cap B = {}
    PROVE  Below(top \o rest, A \cup B, drained)
<1> DEFINE s == top \o rest
           m == Len(top)
           n == Len(rest)
<1>1. /\ top \in Seq(Tasks) /\ rest \in Seq(Tasks) /\ m \in Nat /\ n \in Nat
      /\ s \in Seq(Tasks) /\ Len(s) = m + n
      /\ \A i \in 1 .. m + n : s[i] = IF i <= m THEN top[i] ELSE rest[i - m]
  BY ConcatProperties, LenProperties DEF Below
<1> HIDE DEF s, m, n
<1>2. /\ \A i \in 1 .. m : s[i] = top[i] /\ BelowAt(top, A, FALSE, i)
      /\ \A i \in 1 .. n : m + i \in 1 .. m + n /\ s[m + i] = rest[i]
                            /\ BelowAt(rest, B, drained, i)
      /\ \A i \in 1 .. m + n : i \in 1 .. m \/ i - m \in 1 .. n
  <2>1. \A i \in 1 .. m : s[i] = top[i]
    BY <1>1
  <2>2. \A i \in 1 .. n : m + i \in 1 .. m + n /\ s[m + i] = rest[i]
    BY <1>1
  <2>3. /\ \A i \in 1 .. m : BelowAt(top, A, FALSE, i)
        /\ \A i \in 1 .. n : BelowAt(rest, B, drained, i)
    BY DEF Below, m, n
  <2>4. \A i \in 1 .. m + n : i \in 1 .. m \/ i - m \in 1 .. n
    BY <1>1
  <2>. QED BY <2>1, <2>2, <2>3, <2>4
<1>3. ASSUME NEW i \in 1 .. m PROVE BelowAt(s, A \cup B, drained, i)
  <2>1. s[i] = top[i] /\ BelowAt(top, A, FALSE, i)
    BY <1>2, <1>3
  <2>2. i < m => s[i + 1] = top[i + 1] /\ i < Len(s)
    BY <1>1, <1>2, <1>3
  <2>3. i > 1 => s[i - 1] = top[i - 1]
    BY <1>1, <1>2, <1>3
  <2>. QED BY <2>1, <2>2, <2>3 DEF BelowAt, m
<1>4. ASSUME NEW i \in 1 .. n PROVE BelowAt(s, A \cup B, drained, m + i)
  <2>1. s[m + i] = rest[i] /\ BelowAt(rest, B, drained, i)
    BY <1>2, <1>4
  <2>2. i < n => s[m + i + 1] = rest[i + 1] /\ m + i < Len(s)
    BY <1>1, <1>2, <1>4
  <2>3. i > 1 => s[m + i - 1] = rest[i - 1] /\ m + i > 1
    BY <1>1, <1>2, <1>4
  <2>. QED BY <1>1, <2>1, <2>2, <2>3 DEF BelowAt, n
<1>5. \A i \in 1 .. m + n : BelowAt(s, A \cup B, drained, i)
  <2>. TAKE i \in 1 .. m + n
  <2>1. CASE i \in 1 .. m
    BY <1>3, <2>1
  <2>2. CASE i - m \in 1 .. n
    <3>1. m + (i - m) = i
      BY <1>1
    <3>. QED BY <1>4, <2>2, <3>1
  <2>. QED BY <1>2, <2>1, <2>2
<1>6. ASSUME NEW i \in 1 .. m, NEW obj, s[i] = EraseTask(obj) PROVE obj \in A
  <2>1. top[i] = EraseTask(obj) /\ BelowAt(top, A, FALSE, i)
    BY <1>2, <1>6
  <2>. QED BY <2>1 DEF BelowAt, EraseTask
<1>7. ASSUME NEW i \in 1 .. n, NEW obj, s[m + i] = EraseTask(obj) PROVE obj \in B
  <2>1. rest[i] = EraseTask(obj) /\ BelowAt(rest, B, drained, i)
    BY <1>2, <1>7
  <2>. QED BY <2>1 DEF BelowAt, EraseTask
<1>8. ASSUME NEW obj \in A PROVE OneEraser(s, obj)
  <2>1. PICK i \in 1 .. m : /\ top[i] = EraseTask(obj)
                            /\ \A j \in 1 .. m : top[j] = EraseTask(obj) => j = i
    BY <1>8 DEF Below, OneEraser, m
  <2>2. i \in 1 .. Len(s) /\ s[i] = EraseTask(obj)
    BY <1>1, <1>2, <2>1
  <2>3. ASSUME NEW j \in 1 .. Len(s), s[j] = EraseTask(obj) PROVE j = i
    <3>1. CASE j \in 1 .. m
      BY <1>2, <2>1, <2>3, <3>1
    <3>2. CASE j - m \in 1 .. n
      <4>1. s[m + (j - m)] = EraseTask(obj)
        BY <1>1, <2>3
      <4>2. obj \in B
        BY <1>7, <3>2, <4>1
      <4>. QED BY <1>8, <4>2
    <3>. QED BY <1>1, <1>2, <3>1, <3>2
  <2>. QED BY <2>2, <2>3 DEF OneEraser
<1>9. ASSUME NEW obj \in B PROVE OneEraser(s, obj)
  <2>1. PICK i \in 1 .. n : /\ rest[i] = EraseTask(obj)
                            /\ \A j \in 1 .. n : rest[j] = EraseTask(obj) => j = i
    BY <1>9 DEF Below, OneEraser, n
  <2>2. m + i \in 1 .. Len(s) /\ s[m + i] = EraseTask(obj)
    BY <1>1, <1>2, <2>1
  <2>3. ASSUME NEW j \in 1 .. Len(s), s[j] = EraseTask(obj) PROVE j = m + i
    <3>1. CASE j \in 1 .. m
      <4>1. obj \in A
        BY <1>6, <2>3, <3>1
      <4>. QED BY <1>9, <4>1
    <3>2. CASE j - m \in 1 .. n
      <4>1. s[m + (j - m)] = s[j]
        BY <1>1
      <4>2. rest[j - m] = EraseTask(obj)
        BY <1>2, <2>3, <3>2, <4>1
      <4>3. j - m = i
        BY <2>1, <3>2, <4>2
      <4>. QED BY <1>1, <4>3
    <3>. QED BY <1>1, <1>2, <3>1, <3>2
  <2>. QED BY <2>2, <2>3 DEF OneEraser
<1>10. \A obj \in A \cup B : OneEraser(s, obj)
  BY <1>8, <1>9
<1>. QED BY <1>1, <1>5, <1>10 DEF Below, s

(* Sequences that begin with one or two given elements.                    *)
LEMMA PushedHead ==
    ASSUME NEW S, NEW s \in Seq(S), NEW e
    PROVE  <<e>> \o s # <<>> /\ Head(<<e>> \o s) = e /\ Tail(<<e>> \o s) = s
  OBVIOUS

LEMMA PushedOnTop ==
    ASSUME NEW S, NEW s \in Seq(S), NEW e \in S, NEW f \in S
    PROVE  <<e, f>> \o s = <<e>> \o (<<f>> \o s)
<1> DEFINE one == <<e>>
           other == <<f>>
           two == <<e, f>>
<1>1. /\ one \in Seq(S) /\ Len(one) = 1 /\ one[1] = e
      /\ other \in Seq(S) /\ Len(other) = 1 /\ other[1] = f
      /\ two \in Seq(S) /\ Len(two) = 2 /\ two[1] = e /\ two[2] = f
  OBVIOUS
<1> HIDE DEF one, other, two
<1>2. one \o other = two
  <2>1. /\ one \o other \in Seq(S) /\ Len(one \o other) = 2
        /\ \A i \in 1 .. 2 : (one \o other)[i] = IF i <= 1 THEN one[i] ELSE other[i - 1]
    <3>1. /\ one \o other \in Seq(S) /\ Len(one \o other) = Len(one) + Len(other)
          /\ \A i \in 1 .. Len(one) + Len(other) :
                (one \o other)[i] = IF i <= Len(one) THEN one[i] ELSE other[i - Len(one)]
      BY <1>1, ConcatProperties
    <3>. QED BY <1>1, <3>1
  <2>2. \A i \in 1 .. 2 : (one \o other)[i] = two[i]
    BY <1>1, <2>1
  <2>. QED BY <1>1, <2>1, <2>2, SeqEqual
<1>3. (one \o other) \o s = one \o (other \o s)
  <2>1. one \in Seq(S) /\ other \in Seq(S)
    BY <1>1
  <2>. QED BY <2>1, ConcatAssociative
<1>. QED BY <1>2, <1>3 DEF one, other, two

(* The top task ends.                                                      *)
LEMMA BelowTail ==
    ASSUME NEW s, NEW closed, NEW drained, Below(s, closed, drained), s # <<>>,
           Head(s) = DrainTask(Clients) => drained
    PROVE  Below(Tail(s), {obj \in closed : Head(s) # EraseTask(obj)}, drained)
<1> DEFINE t == Tail(s)
           n == Len(t)
           left == {obj \in closed : Head(s) # EraseTask(obj)}
<1>1. /\ s \in Seq(Tasks) /\ t \in Seq(Tasks) /\ n \in Nat /\ Len(s) = n + 1
      /\ \A i \in 1 .. n : t[i] = s[i + 1]
      /\ Head(s) = s[1]
  BY HeadTailProperties, LenProperties DEF Below
<1>2. \A i \in 1 .. n + 1 : BelowAt(s, closed, drained, i)
  BY <1>1 DEF Below
<1> HIDE DEF t, n, left
<1>3. ASSUME NEW i \in 1 .. n + 1, NEW j \in 1 .. n + 1,
             NEW obj, s[i] = EraseTask(obj), s[j] = EraseTask(obj)
      PROVE  i = j
  <2>1. obj \in closed
    BY <1>2, <1>3 DEF BelowAt, EraseTask
  <2>. QED BY <1>1, <1>3, <2>1 DEF Below, OneEraser
<1>4. ASSUME NEW i \in 1 .. n PROVE BelowAt(t, left, drained, i)
  <2>1. /\ i + 1 \in 1 .. n + 1 /\ 1 \in 1 .. n + 1 /\ i + 1 # 1 /\ t[i] = s[i + 1]
        /\ BelowAt(s, closed, drained, i + 1)
    BY <1>1, <1>2
  <2>2. i < n => t[i + 1] = s[i + 1 + 1]
    BY <1>1
  <2>3. i > 1 => t[i - 1] = s[i + 1 - 1]
    BY <1>1
  <2>4. ASSUME t[i].do = "erase" PROVE t[i].obj \in left
    <3>1. t[i].obj \in closed /\ s[i + 1] = EraseTask(t[i].obj)
      <4>1. s[i + 1] \in Tasks
        BY <1>1, <2>1, ElementOfSeq
      <4>. QED BY <2>1, <2>4, <4>1, TaskKinds DEF BelowAt
    <3>2. s[1] # EraseTask(t[i].obj)
      BY <1>3, <2>1, <3>1
    <3>. QED BY <1>1, <3>1, <3>2 DEF left
  <2>5. ASSUME t[i] = DrainTask(Listeners)
        PROVE  drained \/ (i > 1 /\ t[i - 1] = DrainTask(Clients))
    <3>1. drained \/ s[i + 1 - 1] = DrainTask(Clients)
      BY <2>1, <2>5 DEF BelowAt
    <3>2. CASE i = 1
      BY <1>1, <3>1, <3>2
    <3>3. CASE i > 1
      BY <2>3, <3>1, <3>3
    <3>. QED BY <3>2, <3>3
  <2>6. ToldOfEnd(t[i]) => i < n /\ t[i + 1] = EraseTask(t[i].obj)
    <3>1. ToldOfEnd(t[i]) => i + 1 < n + 1 /\ s[i + 1 + 1] = EraseTask(t[i].obj)
      BY <1>1, <2>1 DEF BelowAt
    <3>. QED BY <1>1, <2>2, <3>1
  <2>. QED BY <2>1, <2>4, <2>5, <2>6 DEF BelowAt, n
<1>5. ASSUME NEW obj \in left PROVE OneEraser(t, obj)
  <2>1. PICK i \in 1 .. n + 1 : s[i] = EraseTask(obj)
    BY <1>1, <1>5 DEF Below, OneEraser, left
  <2>2. i # 1
    BY <1>1, <1>5, <2>1 DEF left
  <2>3. i - 1 \in 1 .. n /\ t[i - 1] = EraseTask(obj)
    BY <1>1, <2>1, <2>2
  <2>4. ASSUME NEW j \in 1 .. n, t[j] = EraseTask(obj) PROVE j = i - 1
    <3>1. j + 1 \in 1 .. n + 1 /\ s[j + 1] = EraseTask(obj)
      BY <1>1, <2>4
    <3>2. j + 1 = i
      BY <1>3, <2>1, <3>1
    <3>. QED BY <1>1, <3>2
  <2>. QED BY <2>3, <2>4 DEF OneEraser, n
<1>. QED BY <1>1, <1>4, <1>5 DEF Below, t, n, left

LEMMA HookAgain ==
    ASSUME NEW task \in Tasks, task.do = "hook"
    PROVE  LET again == [task EXCEPT !.calls = @ - 1] IN
           /\ again \in Tasks /\ again.do = "hook"
           /\ again.hook = task.hook /\ again.obj = task.obj
<1> DEFINE again == [task EXCEPT !.calls = @ - 1]
<1>1. task \in [do : {"hook"}, hook : Hooks, obj : Ptrs \cup {NoCall}, calls : Int]
  BY TaskKinds
<1>2. /\ again \in [do : {"hook"}, hook : Hooks, obj : Ptrs \cup {NoCall}, calls : Int]
      /\ again.do = "hook" /\ again.hook = task.hook /\ again.obj = task.obj
  BY <1>1
<1>. QED BY <1>2 DEF Tasks

(* The top hook has one call less to make.                                 *)
LEMMA BelowAgain ==
    ASSUME NEW s, NEW closed, NEW drained, Below(s, closed, drained), s # <<>>,
           Head(s).do = "hook"
    PROVE  Below(<<[Head(s) EXCEPT !.calls = @ - 1]>> \o Tail(s), closed, drained)
<1> DEFINE again == [Head(s) EXCEPT !.calls = @ - 1]
           t == <<again>> \o Tail(s)
           n == Len(s)
<1>1. /\ s \in Seq(Tasks) /\ n \in Nat /\ 1 \in 1 .. n
      /\ Head(s) = s[1] /\ s[1] \in Tasks
      /\ Tail(s) \in Seq(Tasks) /\ Len(Tail(s)) = n - 1
      /\ \A i \in 1 .. n - 1 : Tail(s)[i] = s[i + 1]
  BY HeadTailProperties, LenProperties DEF Below
<1>2. /\ again \in Tasks
      /\ again.do = "hook" /\ again.hook = s[1].hook /\ again.obj = s[1].obj
  BY <1>1, HookAgain
<1> HIDE DEF again
<1>3. /\ t \in Seq(Tasks) /\ Len(t) = n
      /\ t[1] = again /\ \A i \in 2 .. n : t[i] = s[i]
  <2>1. <<again>> \in Seq(Tasks) /\ Len(<<again>>) = 1 /\ <<again>>[1] = again
    BY <1>2
  <2>2. /\ t \in Seq(Tasks) /\ Len(t) = 1 + (n - 1)
        /\ \A i \in 1 .. 1 + (n - 1) : t[i] = IF i <= 1 THEN again ELSE Tail(s)[i - 1]
    BY <1>1, <2>1, ConcatProperties
  <2>3. ASSUME NEW i \in 2 .. n PROVE t[i] = s[i]
    <3>1. t[i] = Tail(s)[i - 1] /\ i - 1 \in 1 .. n - 1
      BY <1>1, <2>2
    <3>2. Tail(s)[i - 1] = s[i - 1 + 1]
      BY <1>1, <3>1
    <3>. QED BY <3>1, <3>2
  <2>. QED BY <1>1, <2>2, <2>3
<1> HIDE DEF t, n
<1>4. \A i \in 1 .. n : BelowAt(s, closed, drained, i)
  BY DEF Below, n
<1>5. /\ s[1].do = "hook" /\ ToldOfEnd(again) <=> ToldOfEnd(s[1])
      /\ \A obj : s[1] # EraseTask(obj) /\ again # EraseTask(obj)
      /\ \A c : s[1] # DrainTask(c) /\ again # DrainTask(c)
  BY <1>1, <1>2 DEF ToldOfEnd, EraseTask, DrainTask
<1>6. ASSUME NEW i \in 1 .. n PROVE BelowAt(t, closed, drained, i)
  <2>1. BelowAt(s, closed, drained, i)
    BY <1>4
  <2>2. i < n => t[i + 1] = s[i + 1]
    BY <1>1, <1>3
  <2>3. CASE i = 1
    BY <1>2, <1>3, <1>5, <2>1, <2>2, <2>3 DEF BelowAt, n
  <2>4. CASE i > 1
    <3>1. t[i] = s[i]
      BY <1>3, <2>4
    <3>2. s[i] = DrainTask(Listeners) => drained \/ t[i - 1] = DrainTask(Clients)
      <4>1. CASE i = 2
        BY <1>5, <2>1, <4>1 DEF BelowAt
      <4>2. CASE i > 2
        <5>1. t[i - 1] = s[i - 1]
          BY <1>1, <1>3, <4>2
        <5>. QED BY <2>1, <5>1 DEF BelowAt
      <4>. QED BY <2>4, <4>1, <4>2
    <3>. QED BY <1>3, <2>1, <2>2, <2>4, <3>1, <3>2 DEF BelowAt, n
  <2>. QED BY <1>1, <2>3, <2>4
<1>7. ASSUME NEW obj \in closed PROVE OneEraser(t, obj)
  <2>1. PICK i \in 1 .. n : /\ s[i] = EraseTask(obj)
                            /\ \A j \in 1 .. n : s[j] = EraseTask(obj) => j = i
    BY <1>7 DEF Below, OneEraser, n
  <2>2. \A j \in 1 .. n : t[j] = EraseTask(obj) <=> s[j] = EraseTask(obj)
    <3>. TAKE j \in 1 .. n
    <3>1. j = 1 \/ j \in 2 .. n
      BY <1>1
    <3>. QED BY <1>3, <1>5, <3>1
  <2>. QED BY <1>3, <2>1, <2>2 DEF OneEraser
<1>. QED BY <1>3, <1>6, <1>7 DEF Below, t, n, again

(* The stacks that operations put on top.                                  *)
LEMMA BelowEmpty == Below(<<>>, {}, FALSE)
  BY DEF Below

Plain(task) ==
    /\ task \in Tasks /\ task.do \in {"hook", "bound", "drain", "close"}
    /\ ~ToldOfEnd(task) /\ task # DrainTask(Listeners)

LEMMA BelowPlain == ASSUME NEW task, Plain(task) PROVE Below(<<task>>, {}, FALSE)
<1> DEFINE s == <<task>>
<1>1. s \in Seq(Tasks) /\ Len(s) = 1 /\ s[1] = task
  BY DEF Plain
<1> HIDE DEF s
<1>2. BelowAt(s, {}, FALSE, 1)
  BY <1>1 DEF BelowAt, Plain
<1>3. \A i \in 1 .. Len(s) : i = 1
  BY <1>1
<1>. QED BY <1>1, <1>2, <1>3 DEF Below, s

LEMMA BelowTwo ==
    ASSUME NEW first, NEW second, Plain(first), Plain(second)
    PROVE  Below(<<first, second>>, {}, FALSE)
<1> DEFINE s == <<first, second>>
<1>1. s \in Seq(Tasks) /\ Len(s) = 2 /\ s[1] = first /\ s[2] = second
  BY DEF Plain
<1> HIDE DEF s
<1>2. BelowAt(s, {}, FALSE, 1) /\ BelowAt(s, {}, FALSE, 2)
  BY <1>1 DEF BelowAt, Plain
<1>3. \A i \in 1 .. Len(s) : i = 1 \/ i = 2
  BY <1>1
<1>. QED BY <1>1, <1>2, <1>3 DEF Below, s

(* server::close                                                           *)
LEMMA BelowDrains == Below(<<DrainTask(Clients), DrainTask(Listeners)>>, {}, FALSE)
<1> DEFINE s == <<DrainTask(Clients), DrainTask(Listeners)>>
<1>1. /\ s \in Seq(Tasks) /\ Len(s) = 2
      /\ s[1] = DrainTask(Clients) /\ s[2] = DrainTask(Listeners)
  BY DEF Tasks
<1> HIDE DEF s
<1>2. BelowAt(s, {}, FALSE, 1) /\ BelowAt(s, {}, FALSE, 2)
  BY <1>1 DEF BelowAt, DrainTask, ToldOfEnd, Clients, Listeners
<1>3. \A i \in 1 .. Len(s) : i = 1 \/ i = 2
  BY <1>1
<1>. QED BY <1>1, <1>2, <1>3 DEF Below, s

(* The CLOSED list of a socket of a container.                             *)
LEMMA BelowClosed ==
    ASSUME NEW hook \in {"CLOSED", "DISCONNECT"}, NEW obj \in Ptrs
    PROVE  Below(<<HookTask(hook, obj), EraseTask(obj)>>, {obj}, FALSE)
<1> DEFINE s == <<HookTask(hook, obj), EraseTask(obj)>>
<1>1. /\ s \in Seq(Tasks) /\ Len(s) = 2
      /\ s[1] = HookTask(hook, obj) /\ s[2] = EraseTask(obj)
  <2>1. HookTask(hook, obj) \in Tasks /\ EraseTask(obj) \in Tasks
    BY MaxCallsAssumption DEF Tasks, HookTask, Hooks, ServerHooks, CommonHooks
  <2>. QED BY <2>1
<1> HIDE DEF s
<1>2. BelowAt(s, {obj}, FALSE, 1) /\ BelowAt(s, {obj}, FALSE, 2)
  BY <1>1 DEF BelowAt, HookTask, EraseTask, DrainTask, ToldOfEnd
<1>3. \A i \in 1 .. Len(s) : i = 1 \/ i = 2
  BY <1>1
<1>4. s[1] # EraseTask(obj)
  BY <1>1 DEF HookTask, EraseTask
<1>5. OneEraser(s, obj)
  BY <1>1, <1>4 DEF OneEraser
<1>. QED BY <1>1, <1>2, <1>3, <1>5 DEF Below, s

(* A container that has no client left may be said to.                     *)
LEMMA BelowWeaker ==
    ASSUME NEW s, NEW closed, NEW drained, NEW more,
           Below(s, closed, drained), drained => more
    PROVE  Below(s, closed, more)
  BY DEF Below, BelowAt

-----------------------------------------------------------------------------
(* The inductive invariant.                                                *)

ClosedLists(hooks) == {AddCallback(AddCallback(<<>>, Eraser), ClosedHook(hook)) : hook \in hooks}

ContainerRecords ==
    [container : {Listeners, Clients, Connections}, key : Fds, sock : Fds \cup {-1},
     closed : ClosedLists({"CLOSED", "DISCONNECT"})]

UserRecords ==
    [container : {"none"}, key : {-1}, sock : Fds \cup {-1},
     closed : {AddCallback(<<>>, ClosedHook(hook)) : hook \in {"SOCKET_CLOSED", "UDP_CLOSED"}}]

ObjectRecords ==
    /\ objects = [obj \in Live |-> objects[obj]]
    /\ \A obj \in UserSockets : objects[obj] \in UserRecords
    /\ \A obj \in Live \ UserSockets :
          objects[obj] \in ContainerRecords /\ objects[obj].sock \in {-1, objects[obj].key}

KeysDistinct ==
    \A obj, other \in Live \ UserSockets :
        /\ objects[obj].container = objects[other].container
        /\ objects[obj].key = objects[other].key
        => obj = other

ReportOK == DOMAIN report = Dispatched /\ pending \subseteq EventsOf(report)

KernelInv ==
    /\ open \subseteq Fds /\ UserSockets \subseteq Live /\ Live \subseteq Ptrs
    /\ ObjectRecords /\ KeysDistinct /\ RegistryMatchesObjects
    /\ ReportOK /\ Dispatched \subseteq open

(* The sockets of containers that were closed and are not yet erased.      *)
Closed == {obj \in Live \ UserSockets : objects[obj].sock = -1}

Drained == Sockets(Clients) = {}

(* The stack, while accept() has not gone on, is nothing else.             *)
StackInv ==
    \/ Below(todo, Closed, Drained)
    \/ todo = <<AcceptTask>> /\ CanOpen /\ Closed = {}

(* What would close obj before its turn, obj being an open listener or an  *)
(* open connection of the client.                                          *)
Hits(task, obj, listening, connecting) ==
    \/ task = CloseTask(obj)
    \/ task = DrainTask(Listeners) /\ obj \in listening
    \/ task = DrainTask(Connections) /\ obj \in connecting

(* A close that waits is of such a socket, and nothing above it closes it. *)
WaitsAt(stack, listening, connecting, i) ==
    stack[i].do = "close" =>
        /\ stack[i].obj \in listening \cup connecting
        /\ \A j \in 1 .. i - 1 : ~Hits(stack[j], stack[i].obj, listening, connecting)

Waiting(stack, listening, connecting) ==
    \A i \in 1 .. Len(stack) : WaitsAt(stack, listening, connecting, i)

Spares(task, stack, listening, connecting) ==
    \A i \in 1 .. Len(stack) :
        stack[i].do = "close" => ~Hits(task, stack[i].obj, listening, connecting)

(* A close that runs may be of any socket.                                 *)
Closing(stack, live, listening, connecting) ==
    stack # <<>> =>
        /\ Head(stack).do = "close" => Head(stack).obj \in live
        /\ Waiting(Tail(stack), listening, connecting)
        /\ Spares(Head(stack), Tail(stack), listening, connecting)

OpenIn(container) == {obj \in Sockets(container) : objects[obj].sock # -1}

CloseInv == Closing(todo, Live, OpenIn(Listeners), OpenIn(Connections))

(* No socket that was there is closed, or opened again.                    *)
OpenAsBefore(obj) ==
    /\ obj \in OpenIn(Listeners) <=> obj \in OpenIn(Listeners)'
    /\ obj \in OpenIn(Connections) <=> obj \in OpenIn(Connections)'

Kept == \A obj \in Live : OpenAsBefore(obj)

Inv == KernelInv /\ StackInv /\ CloseInv

-----------------------------------------------------------------------------
(* The kernel, the handler and the objects.                                *)

(* A descriptor the kernel hands out.                                      *)
LEMMA FreeDescriptor == ASSUME CanOpen PROVE LowestFree \in Fds \ open
<1> DEFINE S == Fds \ open
<1>1. S \subseteq Nat /\ S # {}
  BY FdsAssumption DEF CanOpen
<1>2. PICK x \in S : \A y \in S : ~ (<<y, x>> \in OpToRel(<, Nat))
  BY <1>1, NatLessThanWellFounded, WFMin
<1>3. \A y \in S : x <= y
  <2>. TAKE y \in S
  <2>1. ~(y < x)
    BY <1>1, <1>2 DEF OpToRel
  <2>. QED BY <1>1, <2>1
<1>4. Min(S) \in S
  BY <1>3 DEF Min
<1>. QED BY <1>4 DEF LowestFree

(* What holds of the objects of a state.                                   *)
LEMMA ObjectFacts ==
    ASSUME KernelInv, NEW obj \in Live
    PROVE  /\ obj \in Ptrs
           /\ objects[obj].sock \in Fds \cup {-1} /\ objects[obj].sock \in Int
           /\ objects[obj].sock # -1 => objects[obj].sock \in Fds /\ objects[obj].sock >= 0
           /\ objects[obj].sock < 0 <=> objects[obj].sock = -1
           /\ obj \notin UserSockets =>
                 objects[obj].container \in {Listeners, Clients, Connections}
           /\ obj \in UserSockets => objects[obj].container = "none"
<1>1. objects[obj].sock \in Fds \cup {-1}
  BY DEF KernelInv, ObjectRecords, UserRecords, ContainerRecords
<1>2. \A fd \in Fds : fd \in Int /\ fd >= 0 /\ fd # -1
  BY FdsAssumption
<1>3. /\ obj \notin UserSockets =>
            objects[obj].container \in {Listeners, Clients, Connections}
      /\ obj \in UserSockets => objects[obj].container = "none"
  BY DEF KernelInv, ObjectRecords, UserRecords, ContainerRecords
<1>. QED BY <1>1, <1>2, <1>3 DEF KernelInv

(* The invariants of the runs follow.                                      *)
LEMMA KernelTypeOK == ASSUME KernelInv PROVE TypeOK
<1>1. \A obj \in Live :
          /\ obj \in UserSockets => objects[obj].sock \in Fds \cup {-1}
          /\ obj \notin UserSockets =>
                /\ objects[obj].container \in Containers
                /\ objects[obj].key \in Fds
                /\ objects[obj].sock \in {-1, objects[obj].key}
  BY ContainersAssumption DEF KernelInv, ObjectRecords, UserRecords, ContainerRecords
<1>2. ASSUME NEW obj \in Live, NEW other \in Live, obj # other,
             objects[obj].sock = objects[other].sock
      PROVE  objects[obj].sock = -1
  BY <1>2, ObjectFacts DEF KernelInv, RegistryMatchesObjects
<1>3. ASSUME NEW obj \in Live, NEW other \in Live, obj # other,
             <<objects[obj].container, objects[obj].key>>
                = <<objects[other].container, objects[other].key>>
      PROVE  obj \in UserSockets
  <2>. SUFFICES ASSUME obj \notin UserSockets PROVE FALSE
    OBVIOUS
  <2>1. objects[obj].container = objects[other].container /\ objects[obj].key = objects[other].key
    BY <1>3
  <2>2. other \notin UserSockets
    BY <2>1, ObjectFacts DEF Listeners, Clients, Connections
  <2>. QED BY <1>3, <2>1, <2>2 DEF KernelInv, KeysDistinct
<1>. QED BY <1>1, <1>2, <1>3 DEF KernelInv, ReportOK, TypeOK

(* add_socket                                                              *)
LEMMA RegisterFacts ==
    ASSUME ReportOK, NEW fd, NEW ptr, Register(fd, ptr)
    PROVE  /\ Dispatched' = Dispatched \cup {fd} /\ fd \notin Dispatched
           /\ registry'[fd].ptr = ptr
           /\ \A other \in Dispatched : registry'[other] = registry[other]
           /\ ReportOK'
<1>1. /\ fd \notin Dispatched /\ pending' = pending
      /\ registry' = [y \in Dispatched \cup {fd} |->
                        IF y = fd THEN [ptr |-> ptr, events |-> {"POLLIN"}] ELSE registry[y]]
      /\ report' = [y \in Dispatched \cup {fd} |-> IF y = fd THEN {} ELSE report[y]]
  BY DEF Register, With, Dispatched, ReportOK
<1>2. Dispatched' = Dispatched \cup {fd}
  BY <1>1 DEF Dispatched
<1>3. ReportOK'
  <2>1. DOMAIN report' = Dispatched'
    BY <1>1, <1>2
  <2>2. \A e \in EventsOf(report) : e \in EventsOf(report')
    BY <1>1 DEF EventsOf, ReportOK
  <2>. QED BY <1>1, <2>1, <2>2 DEF ReportOK
<1>. QED BY <1>1, <1>2, <1>3

(* delete_socket                                                           *)
LEMMA DeregisterFacts ==
    ASSUME ReportOK, NEW fd, Deregister(fd)
    PROVE  /\ Dispatched' = Dispatched \ {fd}
           /\ \A other \in Dispatched' : registry'[other] = registry[other]
           /\ ReportOK'
<1>1. /\ registry' = [y \in Dispatched \ {fd} |-> registry[y]]
      /\ report' = [y \in Dispatched \ {fd} |-> report[y]]
      /\ pending' = {e \in pending : e[1] # fd}
  BY DEF Deregister, Restrict
<1>2. Dispatched' = Dispatched \ {fd}
  BY <1>1 DEF Dispatched
<1>3. ReportOK'
  <2>1. DOMAIN report' = Dispatched'
    BY <1>1, <1>2
  <2>2. \A e \in EventsOf(report) : e[1] # fd => e \in EventsOf(report')
    BY <1>1 DEF EventsOf, ReportOK
  <2>. QED BY <1>1, <2>1, <2>2 DEF ReportOK
<1>. QED BY <1>1, <1>2, <1>3

(* The steps of events::poll that call nothing of the library.             *)
LEMMA PollKernel ==
    ASSUME KernelInv, UNCHANGED <<open, objects>>,
           \/ PollSucceeds \/ PollErrs \/ Return \/ Finish \/ UNCHANGED dispatchVars
           \/ \E fd \in Dispatched : \E event : Deliver(fd, event)
    PROVE  KernelInv'
<1>1. registry' = registry /\ Dispatched' = Dispatched
  BY DEF PollSucceeds, PollErrs, Return, Finish, Deliver, dispatchVars, Dispatched
<1>2. ReportOK'
  <2>1. CASE PollSucceeds \/ PollErrs
    BY <1>1, <2>1 DEF PollSucceeds, PollErrs, KernelInv, ReportOK
  <2>2. CASE ~(PollSucceeds \/ PollErrs)
    BY <1>1, <2>2 DEF Return, Finish, Deliver, dispatchVars, KernelInv, ReportOK
  <2>. QED BY <2>1, <2>2
<1>3. Live' = Live
  BY DEF Live
<1>4. ObjectRecords' /\ KeysDistinct'
  BY <1>3 DEF KernelInv, ObjectRecords, KeysDistinct
<1>5. RegistryMatchesObjects'
  BY <1>1, <1>3 DEF KernelInv, RegistryMatchesObjects
<1>. QED BY <1>1, <1>2, <1>3, <1>4, <1>5 DEF KernelInv

(* An object without a descriptor, an old or a new one, gets the lowest    *)
(* free one and its handler entry.                                         *)
LEMMA GetsDescriptor ==
    ASSUME KernelInv, CanOpen, BaseOpen, NEW obj, Register(LowestFree, obj),
           Live' = Live \cup {obj}, objects'[obj].sock = LowestFree,
           obj \in Live => objects[obj].sock = -1,
           \A other \in Live \ {obj} : objects'[other] = objects[other]
    PROVE  /\ open' \subseteq Fds /\ RegistryMatchesObjects'
           /\ ReportOK' /\ Dispatched' \subseteq open'
<1> DEFINE fd == LowestFree
<1>1. fd \in Fds \ open /\ fd # -1
  BY FreeDescriptor, FdsAssumption
<1>2. open' = open \cup {fd}
  BY DEF BaseOpen
<1>3. /\ Dispatched' = Dispatched \cup {fd} /\ fd \notin Dispatched
      /\ registry'[fd].ptr = obj
      /\ \A other \in Dispatched : registry'[other] = registry[other]
      /\ ReportOK'
  BY RegisterFacts DEF KernelInv
<1> HIDE DEF fd
<1>4. ASSUME NEW f \in Dispatched'
      PROVE  registry'[f].ptr \in Live' /\ objects'[registry'[f].ptr].sock = f
  <2>1. CASE f = fd
    BY <1>3, <2>1 DEF fd
  <2>2. CASE f \in Dispatched
    <3>1. /\ registry[f].ptr \in Live /\ objects[registry[f].ptr].sock = f
          /\ registry'[f] = registry[f]
      BY <1>3, <2>2 DEF KernelInv, RegistryMatchesObjects
    <3>2. f # -1
      BY <2>2, FdsAssumption DEF KernelInv
    <3>3. registry[f].ptr # obj
      BY <3>1, <3>2
    <3>. QED BY <3>1, <3>3
  <2>. QED BY <1>3, <1>4, <2>1, <2>2
<1>5. ASSUME NEW o \in Live', objects'[o].sock >= 0
      PROVE  /\ objects'[o].sock \in Dispatched' \cap open'
             /\ registry'[objects'[o].sock].ptr = o
  <2>1. CASE o = obj
    BY <1>2, <1>3, <2>1 DEF fd
  <2>2. CASE o # obj
    <3>1. /\ objects'[o] = objects[o] /\ objects[o].sock \in Dispatched \cap open
          /\ registry[objects[o].sock].ptr = o
      BY <1>5, <2>2 DEF KernelInv, RegistryMatchesObjects
    <3>. QED BY <1>2, <1>3, <3>1
  <2>. QED BY <2>1, <2>2
<1>6. RegistryMatchesObjects'
  BY <1>4, <1>5 DEF RegistryMatchesObjects
<1>. QED BY <1>1, <1>2, <1>3, <1>6 DEF KernelInv

(* make_socket                                                             *)
LEMMA MakeSocketKernel ==
    ASSUME KernelInv, NEW container \in {Listeners, Clients, Connections},
           NEW obj \in Ptrs \ Live, NEW hook \in {"CLOSED", "DISCONNECT"},
           MakeSocket(container, obj, hook)
    PROVE  /\ KernelInv' /\ obj \in Live' /\ Closed' = Closed
           /\ Kept /\ obj \in OpenIn(container)'
           /\ container # Clients => (Drained' <=> Drained)
<1> DEFINE fd == LowestFree
           list == AddCallback(AddCallback(<<>>, Eraser), ClosedHook(hook))
           new == [container |-> container, key |-> fd, sock |-> fd, closed |-> list]
<1>1. fd \in Fds /\ fd \notin open /\ fd # -1
  BY FreeDescriptor, FdsAssumption DEF MakeSocket
<1>2. objects' = [o \in Live \cup {obj} |-> IF o = obj THEN new ELSE objects[o]]
  BY DEF MakeSocket, Insert, With, Live
<1>3. list \in ClosedLists({"CLOSED", "DISCONNECT"})
  BY DEF ClosedLists
<1> HIDE DEF fd, list
<1>4. /\ Live' = Live \cup {obj} /\ obj \notin Live /\ objects'[obj] = new
      /\ \A o \in Live : objects'[o] = objects[o]
  BY <1>2 DEF Live
<1>5. new \in ContainerRecords /\ obj \notin UserSockets
  BY <1>1, <1>3 DEF ContainerRecords, KernelInv
<1>6. objects'[obj].sock = LowestFree
  BY <1>4 DEF fd
<1>7. /\ open' \subseteq Fds /\ RegistryMatchesObjects'
      /\ ReportOK' /\ Dispatched' \subseteq open'
  BY <1>4, <1>6, GetsDescriptor DEF MakeSocket, Insert
<1>8. ObjectRecords'
  <2>1. objects' = [o \in Live' |-> objects'[o]]
    BY <1>2, <1>4
  <2>2. objects'[obj].sock = objects'[obj].key
    BY <1>4
  <2>. QED BY <1>4, <1>5, <2>1, <2>2 DEF ObjectRecords, KernelInv
<1>9. KeysDistinct'
  <2>1. ASSUME NEW o \in Live \ UserSockets,
               objects[o].container = container, objects[o].key = fd
        PROVE  FALSE
    BY <2>1 DEF MakeSocket, Insert, HasKey, Sockets, fd
  <2>. SUFFICES ASSUME NEW o \in Live' \ UserSockets, NEW other \in Live' \ UserSockets,
                       objects'[o].container = objects'[other].container,
                       objects'[o].key = objects'[other].key
                PROVE  o = other
    BY DEF KeysDistinct
  <2>2. CASE o = obj /\ other # obj
    BY <1>4, <2>1, <2>2
  <2>3. CASE other = obj /\ o # obj
    BY <1>4, <2>1, <2>3
  <2>4. CASE o # obj /\ other # obj
    BY <1>4, <2>4 DEF KernelInv, KeysDistinct
  <2>. QED BY <2>2, <2>3, <2>4
<1>10. KernelInv'
  BY <1>4, <1>7, <1>8, <1>9 DEF KernelInv
<1>11. Closed' = Closed
  <2>1. objects'[obj].sock # -1
    BY <1>1, <1>4
  <2>. QED BY <1>4, <2>1 DEF Closed
<1>12. container # Clients => (Drained' <=> Drained)
  <2>1. objects'[obj].container = container
    BY <1>4
  <2>. QED BY <1>4, <2>1 DEF Drained, Sockets
<1>13. Kept /\ obj \in OpenIn(container)'
  <2>1. objects'[obj].container = container /\ objects'[obj].sock # -1
    BY <1>1, <1>4
  <2>. QED BY <1>4, <2>1 DEF Kept, OpenAsBefore, OpenIn, Sockets
<1>. QED BY <1>4, <1>10, <1>11, <1>12, <1>13

(* make_socket, when the key is in the map: the descriptor stays open.     *)
LEMMA MakeSocketFailsKernel ==
    ASSUME KernelInv, NEW container, MakeSocketFails(container)
    PROVE  KernelInv' /\ UNCHANGED objects
<1>1. LowestFree \in Fds
  BY FreeDescriptor DEF MakeSocketFails
<1>2. /\ open' = open \cup {LowestFree}
      /\ UNCHANGED <<objects, registry, report, pending>>
  BY DEF MakeSocketFails, BaseOpen, NotInserted, dispatchVars
<1>3. Live' = Live /\ Dispatched' = Dispatched
  BY <1>2 DEF Live, Dispatched
<1>4. ObjectRecords' /\ KeysDistinct' /\ ReportOK'
  BY <1>2, <1>3 DEF KernelInv, ObjectRecords, KeysDistinct, ReportOK
<1>5. RegistryMatchesObjects'
  BY <1>2, <1>3 DEF KernelInv, RegistryMatchesObjects
<1>. QED BY <1>1, <1>2, <1>3, <1>4, <1>5 DEF KernelInv

(* socket::open of a user's socket.                                        *)
LEMMA OpenSocketKernel ==
    ASSUME KernelInv, NEW obj \in UserSockets, objects[obj].sock = -1, OpenSocket(obj)
    PROVE  KernelInv' /\ Live' = Live /\ Closed' = Closed /\ (Drained' <=> Drained) /\ Kept
<1> DEFINE fd == LowestFree
<1>1. CanOpen /\ BaseOpen /\ Register(LowestFree, obj) /\ fd \in Fds
  BY FreeDescriptor DEF OpenSocket
<1>2. /\ objects' = [objects EXCEPT ![obj].sock = fd] /\ obj \in Live
      /\ objects = [o \in Live |-> objects[o]] /\ objects[obj] \in UserRecords
  BY DEF OpenSocket, KernelInv, ObjectRecords
<1> HIDE DEF fd
<1>3. /\ Live' = Live
      /\ \A o \in Live \ {obj} : objects'[o] = objects[o]
      /\ objects'[obj] = [objects[obj] EXCEPT !.sock = fd]
  BY <1>2 DEF Live
<1>4. objects'[obj] \in UserRecords /\ objects'[obj].sock = fd
  BY <1>1, <1>2, <1>3 DEF UserRecords
<1>5. /\ open' \subseteq Fds /\ RegistryMatchesObjects'
      /\ ReportOK' /\ Dispatched' \subseteq open'
  <2>1. objects'[obj].sock = LowestFree /\ Live' = Live \cup {obj}
    BY <1>2, <1>3, <1>4 DEF fd
  <2>. QED BY <1>1, <1>3, <2>1, GetsDescriptor
<1>6. ObjectRecords'
  <2>1. objects' = [o \in Live' |-> objects'[o]]
    BY <1>2, <1>3
  <2>. QED BY <1>3, <1>4, <2>1 DEF ObjectRecords, KernelInv
<1>7. KeysDistinct' /\ Closed' = Closed
  BY <1>3 DEF KernelInv, KeysDistinct, Closed
<1>8. (Drained' <=> Drained) /\ Kept
  <2>1. objects'[obj].container = "none" /\ objects[obj].container = "none"
    BY <1>2, <1>4 DEF UserRecords
  <2>. QED BY <1>3, <2>1 DEF Drained, Kept, OpenAsBefore, OpenIn, Sockets,
                             Clients, Listeners, Connections
<1>. QED BY <1>3, <1>5, <1>6, <1>7, <1>8 DEF KernelInv

(* socket::close of an open socket, but for its CLOSED list.               *)
LEMMA CloseKernel ==
    ASSUME KernelInv, NEW obj \in Live, objects[obj].sock >= 0,
           Deregister(objects[obj].sock), BaseClose(obj)
    PROVE  /\ KernelInv' /\ Live' = Live /\ (Drained' <=> Drained)
           /\ Closed' = Closed \cup ({obj} \ UserSockets) /\ obj \notin Closed
           /\ \A other \in Live \ {obj} : OpenAsBefore(other)
<1> DEFINE fd == objects[obj].sock
<1>1. /\ fd \in Fds /\ fd # -1 /\ -1 \notin Fds
  BY ObjectFacts, FdsAssumption
<1>2. /\ open' = open \ {fd} /\ objects' = [objects EXCEPT ![obj].sock = -1]
      /\ objects = [o \in Live |-> objects[o]]
      /\ objects[obj] \in UserRecords \cup ContainerRecords
  BY DEF BaseClose, KernelInv, ObjectRecords
<1>3. /\ Dispatched' = Dispatched \ {fd}
      /\ \A other \in Dispatched' : registry'[other] = registry[other]
      /\ ReportOK'
  BY DeregisterFacts DEF KernelInv
<1>4. fd \in Dispatched /\ registry[fd].ptr = obj
  BY DEF KernelInv, RegistryMatchesObjects
<1> HIDE DEF fd
<1>5. /\ Live' = Live
      /\ \A o \in Live \ {obj} : objects'[o] = objects[o]
      /\ objects'[obj] = [objects[obj] EXCEPT !.sock = -1]
  BY <1>2 DEF Live
<1>6. /\ objects'[obj].sock = -1 /\ objects'[obj].key = objects[obj].key
      /\ objects'[obj].container = objects[obj].container
      /\ objects[obj] \in UserRecords => objects'[obj] \in UserRecords
      /\ objects[obj] \in ContainerRecords => objects'[obj] \in ContainerRecords
  BY <1>2, <1>5 DEF UserRecords, ContainerRecords
<1>7. ObjectRecords'
  <2>1. objects' = [o \in Live' |-> objects'[o]]
    BY <1>2, <1>5
  <2>. QED BY <1>5, <1>6, <2>1 DEF ObjectRecords, KernelInv
<1>8. KeysDistinct' /\ (Drained' <=> Drained)
  <2>1. /\ Live' = Live
        /\ \A o \in Live : /\ objects'[o].container = objects[o].container
                           /\ objects'[o].key = objects[o].key
    BY <1>5, <1>6
  <2>. QED BY <2>1 DEF KernelInv, KeysDistinct, Drained, Sockets
<1>9. ASSUME NEW f \in Dispatched'
      PROVE  registry'[f].ptr \in Live' /\ objects'[registry'[f].ptr].sock = f
  <2>1. /\ f \in Dispatched /\ f # fd /\ registry'[f] = registry[f]
        /\ registry[f].ptr \in Live /\ objects[registry[f].ptr].sock = f
    BY <1>3 DEF KernelInv, RegistryMatchesObjects
  <2>2. registry[f].ptr # obj
    BY <2>1 DEF fd
  <2>. QED BY <1>5, <2>1, <2>2
<1>10. ASSUME NEW o \in Live', objects'[o].sock >= 0
       PROVE  /\ objects'[o].sock \in Dispatched' \cap open'
              /\ registry'[objects'[o].sock].ptr = o
  <2>1. o # obj
    BY <1>6, <1>10
  <2>2. /\ objects'[o] = objects[o] /\ objects[o].sock \in Dispatched \cap open
        /\ registry[objects[o].sock].ptr = o
    BY <1>5, <1>10, <2>1 DEF KernelInv, RegistryMatchesObjects
  <2>3. objects[o].sock # fd
    BY <1>4, <2>1, <2>2
  <2>4. objects[o].sock \in Dispatched' /\ objects[o].sock \in open'
    BY <1>2, <1>3, <2>2, <2>3
  <2>5. registry'[objects[o].sock] = registry[objects[o].sock]
    BY <1>3, <2>4
  <2>. QED BY <2>2, <2>4, <2>5
<1>11. RegistryMatchesObjects'
  BY <1>9, <1>10 DEF RegistryMatchesObjects
<1>12. Closed' = Closed \cup ({obj} \ UserSockets) /\ obj \notin Closed
  <2>1. objects[obj].sock # -1
    BY <1>1 DEF fd
  <2>. QED BY <1>5, <1>6, <2>1 DEF Closed
<1>13. open' \subseteq Fds /\ Dispatched' \subseteq open'
  BY <1>2, <1>3 DEF KernelInv
<1>14. \A other \in Live \ {obj} : OpenAsBefore(other)
  BY <1>5 DEF OpenAsBefore, OpenIn, Sockets
<1>. QED BY <1>3, <1>5, <1>7, <1>8, <1>11, <1>12, <1>13, <1>14 DEF KernelInv

(* The eraser.                                                             *)
LEMMA EraseKernel ==
    ASSUME KernelInv, NEW obj \in Closed,
           objects' = Restrict(objects, Live \ {obj}), UNCHANGED <<open, dispatchVars>>
    PROVE  /\ KernelInv' /\ Live' = Live \ {obj} /\ Closed' = Closed \ {obj}
           /\ (Drained => Drained') /\ Kept
<1>1. /\ objects' = [o \in Live \ {obj} |-> objects[o]]
      /\ obj \in Live \ UserSockets /\ objects[obj].sock = -1
      /\ UNCHANGED <<open, registry, report, pending>>
  BY DEF Restrict, Closed, dispatchVars
<1>2. /\ Live' = Live \ {obj} /\ \A o \in Live' : objects'[o] = objects[o]
      /\ Dispatched' = Dispatched
  BY <1>1 DEF Live, Dispatched
<1>3. ObjectRecords'
  <2>1. objects' = [o \in Live' |-> objects'[o]]
    BY <1>1, <1>2
  <2>. QED BY <1>1, <1>2, <2>1 DEF ObjectRecords, KernelInv
<1>4. KeysDistinct' /\ ReportOK'
  BY <1>1, <1>2 DEF KernelInv, KeysDistinct, ReportOK
<1>5. RegistryMatchesObjects'
  <2>1. ASSUME NEW fd \in Dispatched
        PROVE  registry[fd].ptr \in Live' /\ objects'[registry[fd].ptr].sock = fd
    <3>1. registry[fd].ptr \in Live /\ objects[registry[fd].ptr].sock = fd
      BY DEF KernelInv, RegistryMatchesObjects
    <3>2. fd # -1
      BY FdsAssumption DEF KernelInv
    <3>. QED BY <1>1, <1>2, <3>1, <3>2
  <2>. QED BY <1>1, <1>2, <2>1 DEF KernelInv, RegistryMatchesObjects
<1>6. Closed' = Closed \ {obj} /\ (Drained => Drained')
  BY <1>2 DEF Closed, Drained, Sockets
<1>7. Kept
  BY <1>1, <1>2 DEF Kept, OpenAsBefore, OpenIn, Sockets
<1>. QED BY <1>1, <1>2, <1>3, <1>4, <1>5, <1>6, <1>7 DEF KernelInv

-----------------------------------------------------------------------------
(* The call stack.                                                         *)

(* What executing CLOSED runs.                                             *)
LEMMA ClosedListRuns ==
    ASSUME KernelInv, NEW obj \in Live
    PROVE  /\ obj \notin UserSockets =>
                 \E hook \in {"CLOSED", "DISCONNECT"} :
                     ClosedTasks(obj) = <<HookTask(hook, obj), EraseTask(obj)>>
           /\ obj \in UserSockets =>
                 \E hook \in {"SOCKET_CLOSED", "UDP_CLOSED"} :
                     ClosedTasks(obj) = <<HookTask(hook, obj)>>
<1> DEFINE tasks(list) ==
               [i \in 1 .. Len(list) |->
                   IF list[i].exec = "erase" THEN EraseTask(obj) ELSE HookTask(list[i].exec, obj)]
<1>1. ClosedTasks(obj) = tasks(Executed(objects[obj].closed))
  BY DEF ClosedTasks
<1>2. \A hook \in Hooks : /\ ClosedHook(hook).exec = hook /\ hook # "erase"
                          /\ ClosedHook(hook).flags = {}
  BY DEF ClosedHook, Hooks, ServerHooks, CommonHooks, ClientHooks, RawHooks, BasicHooks, UdpHooks
<1>3. /\ Eraser.exec = "erase" /\ Eraser.flags = {"QUEUE_END", "STOP_AFTER"}
      /\ Queued(Eraser)
  BY DEF Eraser, Queued
<1>4. ASSUME obj \notin UserSockets
      PROVE  \E hook \in {"CLOSED", "DISCONNECT"} :
                 ClosedTasks(obj) = <<HookTask(hook, obj), EraseTask(obj)>>
  <2>1. objects[obj].closed \in ClosedLists({"CLOSED", "DISCONNECT"})
    BY <1>4 DEF KernelInv, ObjectRecords, ContainerRecords
  <2>2. PICK hook \in {"CLOSED", "DISCONNECT"} :
            objects[obj].closed = AddCallback(AddCallback(<<>>, Eraser), ClosedHook(hook))
    BY <2>1 DEF ClosedLists
  <2>3. hook \in Hooks
    BY DEF Hooks, ServerHooks, CommonHooks
  <2>4. objects[obj].closed = <<ClosedHook(hook), Eraser>>
    <3> DEFINE S == {Eraser, ClosedHook(hook)}
    <3>1. Eraser \in S /\ ClosedHook(hook) \in S
      OBVIOUS
    <3> HIDE DEF S
    <3>. QED BY <1>3, <2>2, <3>1, SecondCallback
  <2>5. Executed(<<ClosedHook(hook), Eraser>>) = <<ClosedHook(hook), Eraser>>
    BY <1>2, <1>3, <2>3, ExecutedTwo
  <2>6. tasks(<<ClosedHook(hook), Eraser>>) = <<HookTask(hook, obj), EraseTask(obj)>>
    BY <1>2, <1>3, <2>3
  <2> HIDE DEF tasks
  <2>7. ClosedTasks(obj) = <<HookTask(hook, obj), EraseTask(obj)>>
    BY <1>1, <2>4, <2>5, <2>6
  <2>. QED BY <2>7
<1>5. ASSUME obj \in UserSockets
      PROVE  \E hook \in {"SOCKET_CLOSED", "UDP_CLOSED"} :
                 ClosedTasks(obj) = <<HookTask(hook, obj)>>
  <2>1. PICK hook \in {"SOCKET_CLOSED", "UDP_CLOSED"} :
            objects[obj].closed = AddCallback(<<>>, ClosedHook(hook))
    BY <1>5 DEF KernelInv, ObjectRecords, UserRecords
  <2>2. hook \in Hooks
    BY DEF Hooks, BasicHooks, UdpHooks
  <2>3. objects[obj].closed = <<ClosedHook(hook)>>
    <3> DEFINE S == {ClosedHook(hook)}
    <3>1. ClosedHook(hook) \in S
      OBVIOUS
    <3> HIDE DEF S
    <3>. QED BY <2>1, <3>1, FirstCallback
  <2>4. Executed(<<ClosedHook(hook)>>) = <<ClosedHook(hook)>>
    BY <1>2, <2>2, ExecutedOne
  <2>5. tasks(<<ClosedHook(hook)>>) = <<HookTask(hook, obj)>>
    BY <1>2, <2>2
  <2>. QED BY <1>1, <2>3, <2>4, <2>5
<1>. QED BY <1>4, <1>5

(* Hooks that are told of no end.                                          *)
LEMMA PlainHooks ==
    /\ Plain(ErrorTask)
    /\ \A hook \in Hooks \ {"CLOSED", "DISCONNECT"}, obj \in Ptrs : Plain(HookTask(hook, obj))
<1>1. "ERROR" \in Hooks
  BY DEF Hooks, ServerHooks
<1>. QED BY <1>1, MaxCallsAssumption
         DEF Plain, ErrorTask, HookTask, Tasks, ToldOfEnd, DrainTask

(* What a stack becomes when user code has called something.               *)
AddsTo(rest) == \A tasks \in Seq(Tasks) : UserCalls(tasks) => todo' = tasks \o rest

Resumes(rest) ==
    \/ todo = <<>> /\ rest = <<>>
    \/ \E again \in Tasks :
          todo # <<>> /\ again.do = "hook" /\ rest = <<again>> \o Tail(todo)

LEMMA CallerStack ==
    ASSUME Below(todo, Closed, Drained), NEW op, MayCall(op)
    PROVE  \E rest : Below(rest, Closed, Drained) /\ AddsTo(rest) /\ Resumes(rest)
<1>1. todo \in Seq(Tasks)
  BY DEF Below
<1>2. CASE todo = <<>>
  <2>1. AddsTo(todo)
    BY <1>2, ConcatEmptySeq DEF AddsTo, UserCalls
  <2>. QED BY <1>2, <2>1 DEF Resumes
<1>3. CASE todo # <<>>
  <2>1. Head(todo).do = "hook" /\ Head(todo) \in Tasks /\ Tail(todo) \in Seq(Tasks)
    BY <1>1, <1>3, HeadTailProperties DEF MayCall, AppRuns, Running
  <2> DEFINE once == [Head(todo) EXCEPT !.calls = @ - 1]
             again == <<once>>
             below == Tail(todo)
  <2>2. Below(again \o below, Closed, Drained)
    BY <1>3, <2>1, BelowAgain
  <2>3. once \in Tasks /\ once.do = "hook"
    BY <2>1, HookAgain
  <2> HIDE DEF once
  <2>4. again \in Seq(Tasks) /\ below \in Seq(Tasks)
    BY <2>1, <2>3
  <2>5. ASSUME NEW tasks \in Seq(Tasks), UserCalls(tasks)
        PROVE  todo' = tasks \o (again \o below)
    <3>1. todo' = (tasks \o again) \o below
      BY <1>3, <2>5 DEF UserCalls, ReplaceBy, once
    <3> HIDE DEF again, below
    <3>2. (tasks \o again) \o below = tasks \o (again \o below)
      BY <2>4, ConcatAssociative
    <3>. QED BY <3>1, <3>2
  <2>6. AddsTo(again \o below)
    BY <2>5 DEF AddsTo
  <2>7. Resumes(again \o below)
    BY <1>3, <2>3 DEF Resumes
  <2>. QED BY <2>2, <2>6, <2>7
<1>. QED BY <1>2, <1>3

(* User code runs on a stack that accept() does not wait on.               *)
LEMMA CallerBelow ==
    ASSUME StackInv, NEW op, MayCall(op) PROVE Below(todo, Closed, Drained)
<1>1. todo # <<AcceptTask>>
  <2>1. todo = <<>> \/ Head(todo).do = "hook"
    BY DEF MayCall, AppRuns, Running
  <2>2. <<AcceptTask>> # <<>> /\ Head(<<AcceptTask>>).do = "accept"
    BY DEF AcceptTask
  <2>. QED BY <2>1, <2>2
<1>. QED BY <1>1 DEF StackInv

(* What user code calls is put on top of the rest.                         *)
LEMMA UserStack ==
    ASSUME StackInv, NEW op, MayCall(op),
           NEW tasks, UserCalls(tasks), Below(tasks, {}, FALSE),
           Closed' = Closed, Drained => Drained'
    PROVE  StackInv'
<1>1. PICK rest : Below(rest, Closed, Drained) /\ AddsTo(rest)
  BY CallerBelow, CallerStack
<1>2. todo' = tasks \o rest
  BY <1>1 DEF AddsTo, Below
<1>3. Below(tasks \o rest, {} \cup Closed, Drained)
  BY <1>1, BelowConcat
<1>4. Below(todo', Closed', Drained)
  BY <1>2, <1>3
<1>. QED BY <1>4, BelowWeaker DEF StackInv

(* The top task is replaced by others, which may be the CLOSED list of one *)
(* more socket.                                                            *)
LEMMA ReplaceStack ==
    ASSUME NEW rest, Below(rest, Closed, Drained), NEW tasks, todo' = tasks \o rest,
           NEW more, Below(tasks, more, FALSE), more \cap Closed = {},
           Closed' = Closed \cup more, Drained => Drained'
    PROVE  StackInv'
<1>1. Below(rest, Closed, Drained')
  BY BelowWeaker
<1>2. Below(todo', more \cup Closed, Drained')
  BY <1>1, BelowConcat
<1>3. Below(todo', Closed', Drained')
  <2>1. more \cup Closed = Closed'
    OBVIOUS
  <2>. QED BY <1>2, <2>1
<1>. QED BY <1>3 DEF StackInv

(* Any other task than the rest of accept() runs on such a stack.          *)
LEMMA RunningStack ==
    ASSUME StackInv, todo = <<>> \/ Head(todo).do # "accept"
    PROVE  Below(todo, Closed, Drained)
<1>1. <<AcceptTask>> # <<>> /\ Head(<<AcceptTask>>).do = "accept"
  BY DEF AcceptTask
<1>. QED BY <1>1 DEF StackInv

(* What lies below a task that is neither an eraser nor a drain.           *)
LEMMA RestStack ==
    ASSUME Below(todo, Closed, Drained), todo # <<>>, Head(todo).do # "erase",
           Head(todo) = DrainTask(Clients) => Drained
    PROVE  Below(Tail(todo), Closed, Drained)
<1>1. Below(Tail(todo), {obj \in Closed : Head(todo) # EraseTask(obj)}, Drained)
  BY BelowTail
<1>2. {obj \in Closed : Head(todo) # EraseTask(obj)} = Closed
  BY DEF EraseTask
<1>. QED BY <1>1, <1>2

LEMMA CallbackStack ==
    ASSUME StackInv, todo = <<>>, Below(todo', {}, FALSE),
           Closed' = Closed, Drained => Drained'
    PROVE  StackInv'
<1>1. Closed' = {}
  <2>1. Below(todo, Closed, Drained)
    BY RunningStack
  <2>. QED BY <2>1 DEF Below, OneEraser
<1>2. Below(todo', Closed', Drained')
  BY <1>1, BelowWeaker
<1>. QED BY <1>2 DEF StackInv

-----------------------------------------------------------------------------
(* The calls of socket::close.                                             *)

(* A stack with one more task on top.                                      *)
LEMMA PushedStack ==
    ASSUME NEW task \in Tasks, NEW rest \in Seq(Tasks)
    PROVE  LET s == <<task>> \o rest IN
           /\ s \in Seq(Tasks) /\ s # <<>> /\ Head(s) = task /\ Tail(s) = rest
           /\ Len(s) = Len(rest) + 1 /\ s[1] = task
           /\ \A i \in 1 .. Len(rest) : s[i + 1] = rest[i]
<1> DEFINE one == <<task>>
           s == one \o rest
<1>1. /\ one \in Seq(Tasks) /\ Len(one) = 1 /\ one[1] = task
      /\ rest \in Seq(Tasks) /\ Len(rest) \in Nat
  BY LenProperties
<1>2. s # <<>> /\ Head(s) = task /\ Tail(s) = rest
  BY PushedHead
<1> HIDE DEF one
<1>3. /\ s \in Seq(Tasks) /\ Len(s) = 1 + Len(rest)
      /\ \A i \in 1 .. 1 + Len(rest) : s[i] = IF i <= 1 THEN one[1] ELSE rest[i - 1]
  <2>1. /\ s \in Seq(Tasks) /\ Len(s) = Len(one) + Len(rest)
        /\ \A i \in 1 .. Len(one) + Len(rest) :
              s[i] = IF i <= Len(one) THEN one[i] ELSE rest[i - Len(one)]
    BY <1>1, ConcatProperties
  <2>. QED BY <1>1, <2>1
<1> HIDE DEF s
<1>4. \A i \in 1 .. Len(rest) : s[i + 1] = rest[i]
  BY <1>1, <1>3
<1>5. Len(s) = Len(rest) + 1 /\ s[1] = task
  BY <1>1, <1>3
<1>. QED BY <1>2, <1>3, <1>4, <1>5 DEF s, one

(* One more task on closes that wait.                                      *)
LEMMA WaitPush ==
    ASSUME NEW task \in Tasks, NEW rest \in Seq(Tasks), NEW L, NEW C,
           Waiting(rest, L, C), Spares(task, rest, L, C),
           task.do = "close" => task.obj \in L \cup C
    PROVE  Waiting(<<task>> \o rest, L, C)
<1> DEFINE s == <<task>> \o rest
           n == Len(rest)
<1>1. /\ n \in Nat /\ Len(s) = n + 1 /\ s[1] = task
      /\ \A i \in 1 .. n : s[i + 1] = rest[i]
  BY PushedStack, LenProperties
<1>2. \A i \in 1 .. n : WaitsAt(rest, L, C, i) /\ (rest[i].do = "close" => ~Hits(task, rest[i].obj, L, C))
  BY DEF Waiting, Spares
<1> HIDE DEF s, n
<1>3. WaitsAt(s, L, C, 1)
  BY <1>1 DEF WaitsAt
<1>4. ASSUME NEW i \in 1 .. n PROVE WaitsAt(s, L, C, i + 1)
  <2>. SUFFICES ASSUME rest[i].do = "close"
                PROVE  /\ rest[i].obj \in L \cup C
                       /\ \A j \in 1 .. i : ~Hits(s[j], rest[i].obj, L, C)
    BY <1>1 DEF WaitsAt
  <2>1. rest[i].obj \in L \cup C /\ \A j \in 1 .. i - 1 : ~Hits(rest[j], rest[i].obj, L, C)
    BY <1>2 DEF WaitsAt
  <2>2. ASSUME NEW j \in 1 .. i PROVE ~Hits(s[j], rest[i].obj, L, C)
    <3>1. CASE j = 1
      BY <1>1, <1>2, <3>1
    <3>2. CASE j # 1
      <4>1. j - 1 \in 1 .. i - 1 /\ j - 1 \in 1 .. n /\ s[(j - 1) + 1] = rest[j - 1] /\ (j - 1) + 1 = j
        BY <1>1, <3>2
      <4>. QED BY <2>1, <4>1
    <3>. QED BY <3>1, <3>2
  <2>. QED BY <2>1, <2>2
<1>5. ASSUME NEW i \in 1 .. Len(s) PROVE WaitsAt(s, L, C, i)
  <2>1. CASE i = 1
    BY <1>3, <2>1
  <2>2. CASE i # 1
    <3>1. i - 1 \in 1 .. n /\ (i - 1) + 1 = i
      BY <1>1, <2>2
    <3>. QED BY <1>4, <3>1
  <2>. QED BY <2>1, <2>2
<1>. QED BY <1>5 DEF Waiting, s

(* One more task, which runs, on closes that wait.                         *)
LEMMA ClosingPush ==
    ASSUME NEW task \in Tasks, NEW rest \in Seq(Tasks), NEW live, NEW L, NEW C,
           Waiting(rest, L, C), Spares(task, rest, L, C),
           task.do = "close" => task.obj \in live
    PROVE  Closing(<<task>> \o rest, live, L, C)
<1> DEFINE s == <<task>> \o rest
<1>1. Head(s) = task /\ Tail(s) = rest
  BY PushedStack
<1> HIDE DEF s
<1>. QED BY <1>1 DEF Closing, s

(* The task above closes that wait ends.                                   *)
LEMMA ClosingPop ==
    ASSUME NEW rest \in Seq(Tasks), NEW live, NEW L, NEW C,
           Waiting(rest, L, C), L \cup C \subseteq live
    PROVE  Closing(rest, live, L, C)
<1>. SUFFICES ASSUME rest # <<>>
              PROVE  /\ Head(rest).do = "close" => Head(rest).obj \in live
                     /\ Waiting(Tail(rest), L, C)
                     /\ Spares(Head(rest), Tail(rest), L, C)
  BY DEF Closing
<1> DEFINE t == Tail(rest)
           n == Len(t)
<1>1. /\ n \in Nat /\ Len(rest) = n + 1 /\ Head(rest) = rest[1]
      /\ \A i \in 1 .. n : t[i] = rest[i + 1]
  BY HeadTailProperties, LenProperties
<1> HIDE DEF t, n
<1>2. \A i \in 1 .. n + 1 : WaitsAt(rest, L, C, i)
  BY <1>1 DEF Waiting
<1>3. Head(rest).do = "close" => Head(rest).obj \in live
  <2>1. WaitsAt(rest, L, C, 1)
    BY <1>1, <1>2
  <2>. QED BY <1>1, <2>1 DEF WaitsAt
<1>4. ASSUME NEW i \in 1 .. n, t[i].do = "close"
      PROVE  /\ WaitsAt(t, L, C, i) /\ ~Hits(Head(rest), t[i].obj, L, C)
  <2>1. i + 1 \in 1 .. n + 1 /\ t[i] = rest[i + 1]
    BY <1>1
  <2>2. /\ t[i].obj \in L \cup C
        /\ \A j \in 1 .. (i + 1) - 1 : ~Hits(rest[j], t[i].obj, L, C)
    BY <1>2, <1>4, <2>1 DEF WaitsAt
  <2>3. ASSUME NEW j \in 1 .. i - 1 PROVE ~Hits(t[j], t[i].obj, L, C)
    <3>1. j + 1 \in 1 .. (i + 1) - 1 /\ t[j] = rest[j + 1]
      BY <1>1
    <3>. QED BY <2>2, <3>1
  <2>4. ~Hits(Head(rest), t[i].obj, L, C)
    <3>1. 1 \in 1 .. (i + 1) - 1
      BY <1>1
    <3>. QED BY <1>1, <2>2, <3>1
  <2>. QED BY <2>2, <2>3, <2>4 DEF WaitsAt
<1>5. Waiting(t, L, C) /\ Spares(Head(rest), t, L, C)
  <2>1. ASSUME NEW i \in 1 .. n PROVE WaitsAt(t, L, C, i)
    BY <1>4 DEF WaitsAt
  <2>. QED BY <1>4, <2>1 DEF Waiting, Spares, n
<1>. QED BY <1>3, <1>5 DEF t

(* What waits does so as long as its sockets stay open.                    *)
Agree(rest, L, C, open1, open2) ==
    \A i \in 1 .. Len(rest) : rest[i].do = "close" =>
        /\ rest[i].obj \in L <=> rest[i].obj \in open1
        /\ rest[i].obj \in C <=> rest[i].obj \in open2

LEMMA WaitingSame ==
    ASSUME NEW rest, NEW L, NEW C, NEW open1, NEW open2, Agree(rest, L, C, open1, open2),
           Waiting(rest, L, C)
    PROVE  /\ Waiting(rest, open1, open2)
           /\ \A task : Spares(task, rest, L, C) => Spares(task, rest, open1, open2)
<1>1. ASSUME NEW i \in 1 .. Len(rest), rest[i].do = "close", NEW task
      PROVE  Hits(task, rest[i].obj, open1, open2) => Hits(task, rest[i].obj, L, C)
  BY <1>1 DEF Agree, Hits
<1>2. ASSUME NEW i \in 1 .. Len(rest) PROVE WaitsAt(rest, open1, open2, i)
  <2>1. WaitsAt(rest, L, C, i)
    BY DEF Waiting
  <2>. QED BY <1>1, <2>1 DEF WaitsAt, Agree
<1>. QED BY <1>1, <1>2 DEF Waiting, Spares

(* Tasks that close nothing by themselves.                                 *)
Idle(task) == task \in Tasks /\ task.do \notin {"close", "drain"}

LEMMA IdleSpares ==
    ASSUME NEW task, Idle(task), NEW rest, NEW L, NEW C
    PROVE  Spares(task, rest, L, C) /\ \A obj : ~Hits(task, obj, L, C)
  BY DEF Idle, Spares, Hits, CloseTask, DrainTask

(* Nothing, one or two idle tasks.                                         *)
Idles(tasks) ==
    \/ tasks = <<>>
    \/ \E a : Idle(a) /\ tasks = <<a>>
    \/ \E a, b : Idle(a) /\ Idle(b) /\ tasks = <<a, b>>

LEMMA IdlePush ==
    ASSUME NEW tasks, Idles(tasks), NEW rest \in Seq(Tasks), NEW L, NEW C, Waiting(rest, L, C)
    PROVE  tasks \o rest \in Seq(Tasks) /\ Waiting(tasks \o rest, L, C)
<1>1. ASSUME NEW a, Idle(a), NEW s \in Seq(Tasks), Waiting(s, L, C)
      PROVE  <<a>> \o s \in Seq(Tasks) /\ Waiting(<<a>> \o s, L, C)
  <2>1. a \in Tasks /\ a.do # "close" /\ Spares(a, s, L, C)
    BY <1>1, IdleSpares DEF Idle
  <2>. QED BY <1>1, <2>1, WaitPush, PushedStack
<1>2. CASE tasks = <<>>
  BY <1>2, ConcatEmptySeq
<1>3. ASSUME NEW a, NEW b, Idle(a), Idle(b), tasks = <<a, b>>
      PROVE  tasks \o rest \in Seq(Tasks) /\ Waiting(tasks \o rest, L, C)
  <2>1. tasks \o rest = <<a>> \o (<<b>> \o rest)
    BY <1>3, PushedOnTop DEF Idle
  <2>2. <<b>> \o rest \in Seq(Tasks) /\ Waiting(<<b>> \o rest, L, C)
    BY <1>1, <1>3
  <2>3. <<a>> \o (<<b>> \o rest) \in Seq(Tasks) /\ Waiting(<<a>> \o (<<b>> \o rest), L, C)
    BY <1>1, <1>3, <2>2
  <2>. QED BY <2>1, <2>3
<1>. QED BY <1>1, <1>2, <1>3 DEF Idles

LEMMA OpenAreLive ==
    \A container : OpenIn(container) \subseteq Live
  BY DEF OpenIn, Sockets

StillOpen(rest) ==
    Agree(rest, OpenIn(Listeners), OpenIn(Connections), OpenIn(Listeners)', OpenIn(Connections)')

NowWaiting(rest) == Waiting(rest, OpenIn(Listeners), OpenIn(Connections))

LEMMA KeptOpen ==
    ASSUME Kept, NEW rest, NowWaiting(rest)
    PROVE  StillOpen(rest)
<1>. SUFFICES ASSUME NEW i \in 1 .. Len(rest), rest[i].do = "close"
              PROVE  rest[i].obj \in Live
  BY DEF Kept, OpenAsBefore, StillOpen, Agree
<1>1. WaitsAt(rest, OpenIn(Listeners), OpenIn(Connections), i)
  BY DEF NowWaiting, Waiting
<1>. QED BY <1>1, OpenAreLive DEF WaitsAt

LEMMA TailWaits ==
    ASSUME CloseInv, todo # <<>>
    PROVE  /\ NowWaiting(Tail(todo))
           /\ Spares(Head(todo), Tail(todo), OpenIn(Listeners), OpenIn(Connections))
           /\ Head(todo).do = "close" => Head(todo).obj \in Live
  BY DEF CloseInv, Closing, NowWaiting

(* The top task is replaced by idle ones.                                  *)
LEMMA ReplaceCloses ==
    ASSUME NEW rest \in Seq(Tasks), NowWaiting(rest), StillOpen(rest),
           NEW tasks, Idles(tasks), todo' = tasks \o rest
    PROVE  CloseInv'
<1> DEFINE L == OpenIn(Listeners)'
           C == OpenIn(Connections)'
<1>1. Waiting(rest, L, C)
  BY WaitingSame DEF StillOpen, NowWaiting
<1>2. L \cup C \subseteq Live'
  BY DEF OpenIn, Sockets
<1> HIDE DEF L, C
<1>3. tasks \o rest \in Seq(Tasks) /\ Waiting(tasks \o rest, L, C)
  BY <1>1, IdlePush
<1>4. Closing(tasks \o rest, Live', L, C)
  BY <1>2, <1>3, ClosingPop
<1>. QED BY <1>4 DEF CloseInv, L, C

(* A task that closes nothing that waits to be closed.                     *)
SafeTask(task) ==
    /\ task \in Tasks
    /\ \A obj \in Live :
          ToBeClosed(obj) => ~Hits(task, obj, OpenIn(Listeners), OpenIn(Connections))

(* What user code may call for: nothing, or one or two such tasks, the     *)
(* second of which may be a close.                                         *)
Safely(tasks, live, L, C) ==
    \/ tasks = <<>>
    \/ \E a : /\ SafeTask(a) /\ tasks = <<a>>
              /\ a.do = "close" => a.obj \in live
    \/ \E a, b : /\ SafeTask(a) /\ SafeTask(b) /\ tasks = <<a, b>>
                 /\ a.do = "close" => a.obj \in live
                 /\ b.do = "close" => b.obj \in L \cup C /\ ~Hits(a, b.obj, L, C)

LEMMA CallerRest ==
    ASSUME Below(todo, Closed, Drained), CloseInv, NEW op, MayCall(op)
    PROVE  \E rest \in Seq(Tasks) :
              /\ AddsTo(rest) /\ NowWaiting(rest)
              /\ \A i \in 1 .. Len(rest) : rest[i].do = "close" => ToBeClosed(rest[i].obj)
<1>1. PICK rest : Below(rest, Closed, Drained) /\ AddsTo(rest) /\ Resumes(rest)
  BY CallerStack
<1>2. rest \in Seq(Tasks) /\ todo \in Seq(Tasks)
  BY <1>1 DEF Below
<1>3. ASSUME rest = <<>>
      PROVE  /\ NowWaiting(rest)
             /\ \A i \in 1 .. Len(rest) : rest[i].do = "close" => ToBeClosed(rest[i].obj)
  BY <1>3 DEF NowWaiting, Waiting
<1>4. ASSUME NEW again \in Tasks, todo # <<>>, again.do = "hook",
             rest = <<again>> \o Tail(todo)
      PROVE  /\ NowWaiting(rest)
             /\ \A i \in 1 .. Len(rest) : rest[i].do = "close" => ToBeClosed(rest[i].obj)
  <2> DEFINE t == Tail(todo)
             n == Len(t)
  <2>1. /\ t \in Seq(Tasks) /\ n \in Nat /\ Len(todo) = n + 1
        /\ \A i \in 1 .. n : t[i] = todo[i + 1]
    BY <1>2, <1>4, HeadTailProperties, LenProperties
  <2>2. Idle(again) /\ NowWaiting(t)
    BY <1>4, TailWaits DEF Idle
  <2> HIDE DEF t
  <2>3. NowWaiting(rest)
    <3> DEFINE L == OpenIn(Listeners)
               C == OpenIn(Connections)
    <3>1. Spares(again, t, L, C) /\ again.do # "close" /\ Waiting(t, L, C)
      BY <2>2, IdleSpares DEF Idle, NowWaiting
    <3> HIDE DEF L, C
    <3>2. Waiting(<<again>> \o t, L, C)
      BY <1>4, <2>1, <3>1, WaitPush
    <3>. QED BY <1>4, <3>2 DEF NowWaiting, L, C, t
  <2>4. Len(rest) = n + 1 /\ rest[1] = again /\ \A i \in 1 .. n : rest[i + 1] = t[i]
    BY <1>4, <2>1, PushedStack DEF t
  <2> HIDE DEF n
  <2>5. ASSUME NEW i \in 1 .. Len(rest), rest[i].do = "close" PROVE ToBeClosed(rest[i].obj)
    <3>1. i # 1
      BY <1>4, <2>4, <2>5
    <3>2. i - 1 \in 1 .. n /\ (i - 1) + 1 = i
      BY <2>1, <2>4, <3>1
    <3>3. rest[i] = todo[i] /\ i \in 1 .. Len(todo)
      BY <2>1, <2>4, <3>2
    <3>4. rest[i] = CloseTask(rest[i].obj)
      <4>1. todo[i] \in Tasks
        BY <1>2, <3>3, ElementOfSeq
      <4>. QED BY <2>5, <3>3, <4>1, TaskKinds
    <3>5. DOMAIN todo = 1 .. Len(todo)
      BY <1>2, LenProperties
    <3>. QED BY <3>3, <3>4, <3>5 DEF ToBeClosed, ToSet
  <2>. QED BY <2>3, <2>5
<1>5. /\ NowWaiting(rest)
      /\ \A i \in 1 .. Len(rest) : rest[i].do = "close" => ToBeClosed(rest[i].obj)
  BY <1>1, <1>3, <1>4 DEF Resumes
<1>. QED BY <1>1, <1>2, <1>5

LEMMA UserCloses ==
    ASSUME StackInv, CloseInv, NEW op, MayCall(op), NEW tasks, UserCalls(tasks), Kept,
           Safely(tasks, Live', OpenIn(Listeners)', OpenIn(Connections)')
    PROVE  CloseInv'
<1> DEFINE L == OpenIn(Listeners)'
           C == OpenIn(Connections)'
<1>1. PICK rest \in Seq(Tasks) :
          /\ AddsTo(rest) /\ NowWaiting(rest)
          /\ \A i \in 1 .. Len(rest) : rest[i].do = "close" => ToBeClosed(rest[i].obj)
  BY CallerBelow, CallerRest
<1>2. StillOpen(rest)
  BY <1>1, KeptOpen
<1>3. /\ Waiting(rest, L, C)
      /\ \A task : Spares(task, rest, OpenIn(Listeners), OpenIn(Connections))
                       => Spares(task, rest, L, C)
  BY <1>1, <1>2, WaitingSame DEF StillOpen, NowWaiting
<1>4. ASSUME NEW task, SafeTask(task) PROVE task \in Tasks /\ Spares(task, rest, L, C)
  <2>1. Spares(task, rest, OpenIn(Listeners), OpenIn(Connections))
    <3>1. ASSUME NEW i \in 1 .. Len(rest), rest[i].do = "close"
          PROVE  ToBeClosed(rest[i].obj) /\ rest[i].obj \in Live
      <4>1. WaitsAt(rest, OpenIn(Listeners), OpenIn(Connections), i)
        BY <1>1 DEF NowWaiting, Waiting
      <4>. QED BY <1>1, <3>1, <4>1, OpenAreLive DEF WaitsAt
    <3>. QED BY <1>4, <3>1 DEF SafeTask, Spares
  <2>. QED BY <1>3, <1>4, <2>1 DEF SafeTask
<1>5. CASE tasks = <<>>
  <2>1. Idles(tasks) /\ tasks \in Seq(Tasks)
    BY <1>5 DEF Idles
  <2>. QED BY <1>1, <1>2, <2>1, ReplaceCloses DEF AddsTo
<1>6. ASSUME NEW a, SafeTask(a), tasks = <<a>>, a.do = "close" => a.obj \in Live'
      PROVE  CloseInv'
  <2>1. a \in Tasks /\ Spares(a, rest, L, C) /\ tasks \in Seq(Tasks)
    BY <1>4, <1>6
  <2>2. todo' = <<a>> \o rest
    BY <1>1, <1>6, <2>1 DEF AddsTo
  <2> HIDE DEF L, C
  <2>3. Closing(<<a>> \o rest, Live', L, C)
    BY <1>3, <1>6, <2>1, ClosingPush
  <2>. QED BY <2>2, <2>3 DEF CloseInv, L, C
<1>7. ASSUME NEW a, NEW b, SafeTask(a), SafeTask(b), tasks = <<a, b>>,
             a.do = "close" => a.obj \in Live',
             b.do = "close" => b.obj \in L \cup C /\ ~Hits(a, b.obj, L, C)
      PROVE  CloseInv'
  <2>1. /\ a \in Tasks /\ Spares(a, rest, L, C) /\ tasks \in Seq(Tasks)
        /\ b \in Tasks /\ Spares(b, rest, L, C)
    BY <1>4, <1>7
  <2>2. todo' = <<a>> \o (<<b>> \o rest)
    <3>1. todo' = tasks \o rest
      BY <1>1, <1>7, <2>1 DEF AddsTo
    <3>. QED BY <1>7, <2>1, <3>1, PushedOnTop
  <2> HIDE DEF L, C
  <2>3. Waiting(<<b>> \o rest, L, C)
    BY <1>3, <1>7, <2>1, WaitPush
  <2>4. Spares(a, <<b>> \o rest, L, C)
    <3> DEFINE s == <<b>> \o rest
    <3>1. /\ Len(rest) \in Nat /\ Len(s) = Len(rest) + 1 /\ s[1] = b
          /\ \A i \in 1 .. Len(rest) : s[i + 1] = rest[i]
      BY <2>1, PushedStack, LenProperties
    <3> HIDE DEF s
    <3>2. ASSUME NEW i \in 1 .. Len(s), s[i].do = "close" PROVE ~Hits(a, s[i].obj, L, C)
      <4>1. CASE i = 1
        BY <1>7, <3>1, <3>2, <4>1
      <4>2. CASE i # 1
        <5>1. i - 1 \in 1 .. Len(rest) /\ (i - 1) + 1 = i
          BY <3>1, <4>2
        <5>2. s[i] = rest[i - 1]
          BY <3>1, <5>1
        <5>. QED BY <2>1, <3>2, <5>1, <5>2 DEF Spares
      <4>. QED BY <4>1, <4>2
    <3>. QED BY <3>2 DEF Spares, s
  <2>5. <<b>> \o rest \in Seq(Tasks)
    BY <2>1, PushedStack
  <2>6. Closing(<<a>> \o (<<b>> \o rest), Live', L, C)
    BY <1>7, <2>1, <2>3, <2>4, <2>5, ClosingPush
  <2>. QED BY <2>2, <2>6 DEF CloseInv, L, C
<1>. QED BY <1>5, <1>6, <1>7 DEF Safely

(* A callback of events::poll begins with one task at most.                *)
LEMMA CallbackCloses ==
    ASSUME \/ todo' = <<>>
           \/ \E a \in Tasks : todo' = <<a>> /\ (a.do = "close" => a.obj \in Live')
    PROVE  CloseInv'
<1>1. CASE todo' = <<>>
  BY <1>1 DEF CloseInv, Closing
<1>2. ASSUME NEW a \in Tasks, todo' = <<a>>, a.do = "close" => a.obj \in Live'
      PROVE  CloseInv'
  <2>1. Tail(todo') = <<>> /\ Head(todo') = a
    BY <1>2
  <2>. QED BY <1>2, <2>1 DEF CloseInv, Closing, Waiting, Spares
<1>. QED BY <1>1, <1>2

-----------------------------------------------------------------------------
(* The steps.                                                              *)

(* Steps that change no object.                                            *)
LEMMA SameObjects ==
    ASSUME UNCHANGED objects
    PROVE  /\ Live' = Live /\ Closed' = Closed /\ (Drained' <=> Drained)
           /\ OpenIn(Listeners)' = OpenIn(Listeners)
           /\ OpenIn(Connections)' = OpenIn(Connections)
           /\ Kept
  BY DEF Live, Closed, Drained, OpenIn, Sockets, Kept, OpenAsBefore

(* What user code may call for: tasks that close nothing that waits to be  *)
(* closed, and put no eraser on the stack.                                 *)
Called(tasks) ==
    /\ Below(tasks, {}, FALSE)
    /\ Safely(tasks, Live', OpenIn(Listeners)', OpenIn(Connections)')

LEMMA QuietCall ==
    ASSUME Inv, NEW op, MayCall(op), NEW tasks, UserCalls(tasks),
           Called(tasks), UNCHANGED <<open, objects, dispatchVars>>
    PROVE  Inv'
<1>1. KernelInv'
  BY PollKernel DEF Inv
<1>2. Closed' = Closed /\ (Drained' <=> Drained) /\ Kept
  BY SameObjects
<1>3. StackInv' /\ CloseInv'
  BY <1>2, UserStack, UserCloses DEF Inv, Called
<1>. QED BY <1>1, <1>3 DEF Inv

(* The tasks user code may call for.                                       *)
Quiet(task) == Plain(task) /\ Idle(task)

LEMMA CalledFor ==
    /\ Called(<<>>)
    /\ \A a : Quiet(a) => Called(<<a>>)
    /\ \A a, b : Quiet(a) /\ Quiet(b) => Called(<<a, b>>)
<1>1. \A a : Quiet(a) => SafeTask(a) /\ Plain(a) /\ a.do # "close"
  BY IdleSpares DEF Quiet, Idle, SafeTask
<1>2. Called(<<>>)
  BY BelowEmpty DEF Called, Safely
<1>3. ASSUME NEW a, Quiet(a) PROVE Called(<<a>>)
  BY <1>1, <1>3, BelowPlain DEF Called, Safely
<1>4. ASSUME NEW a, NEW b, Quiet(a), Quiet(b) PROVE Called(<<a, b>>)
  BY <1>1, <1>4, BelowTwo DEF Called, Safely
<1>. QED BY <1>2, <1>3, <1>4

(* Hooks that are told of no end, and the rest of bind().                  *)
LEMMA QuietTasks ==
    /\ Quiet(ErrorTask)
    /\ \A hook \in Hooks \ {"CLOSED", "DISCONNECT"}, obj \in Ptrs : Quiet(HookTask(hook, obj))
    /\ \A obj \in Ptrs : Quiet(BoundTask(obj))
<1>1. ErrorTask.do = "hook" /\ \A hook, obj : HookTask(hook, obj).do = "hook"
  BY DEF ErrorTask, HookTask
<1>2. \A obj \in Ptrs : Plain(BoundTask(obj)) /\ BoundTask(obj).do = "bound"
  BY DEF Plain, Tasks, BoundTask, DrainTask, ToldOfEnd
<1>. QED BY <1>1, <1>2, PlainHooks DEF Quiet, Idle, Plain

LEMMA PlainClose ==
    ASSUME NEW obj \in Ptrs
    PROVE  /\ Plain(CloseTask(obj))
           /\ CloseTask(obj).do = "close" /\ CloseTask(obj).obj = obj
  BY DEF Plain, Tasks, CloseTask, DrainTask, ToldOfEnd

(* A close of a socket that no other call is about to close.               *)
LEMMA CalledToClose ==
    ASSUME NEW obj \in Ptrs, obj \in Live', obj \in Live => ~ToBeClosed(obj)
    PROVE  /\ Called(<<CloseTask(obj)>>) /\ Called(<<CloseTask(obj), ErrorTask>>)
           /\ obj \in OpenIn(Listeners)' \cup OpenIn(Connections)' =>
                 Called(<<ErrorTask, CloseTask(obj)>>)
<1>1. Plain(CloseTask(obj)) /\ CloseTask(obj).do = "close" /\ CloseTask(obj).obj = obj
  BY PlainClose
<1>2. SafeTask(CloseTask(obj))
  <2>1. \A other, L, C : Hits(CloseTask(obj), other, L, C) => other = obj
    BY DEF Hits, CloseTask, DrainTask
  <2>. QED BY <1>1, <2>1 DEF SafeTask, Plain
<1>3. Plain(ErrorTask) /\ ErrorTask.do = "hook" /\ SafeTask(ErrorTask)
  BY QuietTasks, IdleSpares DEF Quiet, Idle, SafeTask, ErrorTask
<1>4. \A L, C : ~Hits(ErrorTask, obj, L, C)
  BY QuietTasks, IdleSpares DEF Quiet
<1>5. Called(<<CloseTask(obj)>>)
  BY <1>1, <1>2, BelowPlain DEF Called, Safely
<1>6. Called(<<CloseTask(obj), ErrorTask>>)
  BY <1>1, <1>2, <1>3, BelowTwo DEF Called, Safely
<1>7. ASSUME obj \in OpenIn(Listeners)' \cup OpenIn(Connections)'
      PROVE  Called(<<ErrorTask, CloseTask(obj)>>)
  BY <1>1, <1>2, <1>3, <1>4, <1>7, BelowTwo DEF Called, Safely
<1>. QED BY <1>5, <1>6, <1>7

(* A close of the server or of the client.                                 *)
LEMMA CalledToDrain ==
    /\ SafeToDrain(Listeners) => Called(<<DrainTask(Clients), DrainTask(Listeners)>>)
    /\ SafeToDrain(Connections) => Called(<<DrainTask(Connections)>>)
<1>1. /\ \A c \in {Listeners, Clients, Connections} :
            DrainTask(c) \in Tasks /\ DrainTask(c).do = "drain"
      /\ \A obj, c : DrainTask(c) # CloseTask(obj)
      /\ \A c, other : DrainTask(c) = DrainTask(other) => c = other
  BY DEF Tasks, DrainTask, CloseTask
<1>2. \A c, obj, L, C : Hits(DrainTask(c), obj, L, C) =>
                            (c = Listeners /\ obj \in L) \/ (c = Connections /\ obj \in C)
  BY <1>1 DEF Hits
<1>3. ASSUME NEW c \in {Listeners, Clients, Connections},
             c \in {Listeners, Connections} => SafeToDrain(c)
      PROVE  SafeTask(DrainTask(c))
  BY <1>1, <1>2, <1>3 DEF SafeTask, SafeToDrain, OpenIn
<1>4. Clients \notin {Listeners, Connections}
  BY DEF Clients, Listeners, Connections
<1>5. ASSUME SafeToDrain(Listeners)
      PROVE  Called(<<DrainTask(Clients), DrainTask(Listeners)>>)
  <2>1. SafeTask(DrainTask(Clients)) /\ SafeTask(DrainTask(Listeners))
    BY <1>3, <1>4, <1>5
  <2>. QED BY <1>1, <2>1, BelowDrains DEF Called, Safely
<1>6. ASSUME SafeToDrain(Connections)
      PROVE  Called(<<DrainTask(Connections)>>)
  <2>1. SafeTask(DrainTask(Connections))
    BY <1>3, <1>6
  <2>2. Plain(DrainTask(Connections))
    BY <1>1 DEF Plain, ToldOfEnd, Connections, Listeners
  <2>. QED BY <1>1, <2>1, <2>2, BelowPlain DEF Called, Safely
<1>. QED BY <1>5, <1>6

(* A socket is made, or is not, and user code is told.                     *)
LEMMA MakesSocket ==
    ASSUME Inv, NEW op, MayCall(op),
           NEW container \in {Listeners, Connections}, NEW obj \in Ptrs \ Live,
           MakeSocket(container, obj, "CLOSED"),
           NEW tasks, UserCalls(tasks), Called(tasks)
    PROVE  Inv'
<1>1. KernelInv' /\ Closed' = Closed /\ (Drained' <=> Drained) /\ Kept
  BY MakeSocketKernel DEF Inv, Listeners, Clients, Connections
<1>2. StackInv' /\ CloseInv'
  BY <1>1, UserStack, UserCloses DEF Inv, Called
<1>. QED BY <1>1, <1>2 DEF Inv

LEMMA MakesNone ==
    ASSUME Inv, NEW op, MayCall(op), NEW container,
           MakeSocketFails(container), UserCalls(<<ErrorTask>>)
    PROVE  Inv'
<1>1. KernelInv' /\ UNCHANGED objects
  BY MakeSocketFailsKernel DEF Inv
<1>2. Closed' = Closed /\ (Drained' <=> Drained) /\ Kept
  BY <1>1, SameObjects
<1>3. Called(<<ErrorTask>>)
  BY QuietTasks, CalledFor
<1>4. StackInv' /\ CloseInv'
  BY <1>2, <1>3, UserStack, UserCloses DEF Inv, Called
<1>. QED BY <1>1, <1>4 DEF Inv

LEMMA ServerCallsKeep == ASSUME Inv, ServerCalls PROVE Inv'
<1>1. CASE ListenFailsToOpen
  BY <1>1, QuietCall, QuietTasks, CalledFor DEF ListenFailsToOpen
<1>2. CASE ListenNotInserted
  BY <1>2, MakesNone DEF ListenNotInserted
<1>3. CASE CloseServer
  BY <1>3, CalledToDrain, QuietCall DEF CloseServer
<1>4. ASSUME NEW obj \in Ptrs \ Live, Listen(obj) PROVE Inv'
  <2>1. obj \in Live' /\ obj \in OpenIn(Listeners)'
    BY <1>4, MakeSocketKernel DEF Listen, Inv
  <2>2. "LISTEN" \in Hooks
    BY DEF Hooks, ServerHooks
  <2>3. Called(<<HookTask("LISTEN", obj)>>) /\ Called(<<ErrorTask, CloseTask(obj)>>)
    BY <2>1, <2>2, QuietTasks, CalledFor, CalledToClose
  <2>. QED BY <1>4, <2>3, MakesSocket DEF Listen
<1>. QED BY <1>1, <1>2, <1>3, <1>4 DEF ServerCalls

LEMMA ClientCallsKeep == ASSUME Inv, ClientCalls PROVE Inv'
<1>1. CASE ConnectFailsToOpen
  BY <1>1, QuietCall, QuietTasks, CalledFor DEF ConnectFailsToOpen
<1>2. CASE ConnectNotInserted
  BY <1>2, MakesNone DEF ConnectNotInserted
<1>3. CASE CloseClient
  BY <1>3, CalledToDrain, QuietCall DEF CloseClient
<1>4. ASSUME NEW obj \in Ptrs \ Live, Connect(obj) PROVE Inv'
  <2>1. obj \in Live' /\ obj \in OpenIn(Connections)'
    BY <1>4, MakeSocketKernel DEF Connect, Inv
  <2>2. "CONNECT" \in Hooks
    BY DEF Hooks, ClientHooks
  <2>3. /\ Called(<<HookTask("CONNECT", obj)>>)
        /\ Called(<<ErrorTask, CloseTask(obj)>>)
        /\ Called(<<CloseTask(obj), ErrorTask>>)
    BY <2>1, <2>2, QuietTasks, CalledFor, CalledToClose
  <2>. QED BY <1>4, <2>3, MakesSocket DEF Connect
<1>. QED BY <1>1, <1>2, <1>3, <1>4 DEF ClientCalls

(* A socket of the user's is opened.                                       *)
LEMMA OpensSocket ==
    ASSUME Inv, NEW op, MayCall(op),
           NEW obj \in UserSockets, objects[obj].sock = -1, OpenSocket(obj),
           NEW tasks, UserCalls(tasks), Called(tasks)
    PROVE  Inv'
<1>1. KernelInv' /\ Closed' = Closed /\ (Drained' <=> Drained) /\ Kept
  BY OpenSocketKernel DEF Inv
<1>2. StackInv' /\ CloseInv'
  BY <1>1, UserStack, UserCloses DEF Inv, Called
<1>. QED BY <1>1, <1>2 DEF Inv

LEMMA RawCallsKeep == ASSUME Inv, RawCalls PROVE Inv'
<1>. PICK obj \in RawSockets :
         RawOpen(obj) \/ RawOpenFails(obj) \/ RawReceives(obj) \/ RawCallFails(obj)
  BY DEF RawCalls
<1>1. obj \in UserSockets /\ obj \in Ptrs
  BY SocketsAssumption
<1>2. Called(<<>>) /\ Called(<<ErrorTask>>)
  BY QuietTasks, CalledFor
<1>3. CASE RawOpen(obj)
  BY <1>1, <1>2, <1>3, OpensSocket DEF RawOpen
<1>4. CASE RawOpenFails(obj)
  BY <1>2, <1>4, QuietCall DEF RawOpenFails
<1>5. CASE RawReceives(obj)
  <2>1. \A hook \in RawHooks : hook \in Hooks \ {"CLOSED", "DISCONNECT"}
    BY DEF RawHooks, Hooks
  <2>2. \A hook \in RawHooks : Called(<<HookTask(hook, obj)>>)
    BY <1>1, <2>1, QuietTasks, CalledFor
  <2>3. \E tasks : Called(tasks) /\ UserCalls(tasks)
    BY <1>2, <1>5, <2>2 DEF RawReceives
  <2>. QED BY <1>5, <2>3, QuietCall DEF RawReceives
<1>6. CASE RawCallFails(obj)
  BY <1>2, <1>6, QuietCall DEF RawCallFails
<1>. QED BY <1>3, <1>4, <1>5, <1>6

LEMMA UdpCallsKeep == ASSUME Inv, UdpCalls PROVE Inv'
<1>. PICK obj \in UserSockets \ RawSockets :
         UdpOpen(obj) \/ UdpOpenFails(obj) \/ UdpBind(obj) \/ UdpSendFails(obj)
  BY DEF UdpCalls
<1>1. obj \in UserSockets /\ obj \in Ptrs /\ obj \in Live
  BY SocketsAssumption DEF Inv, KernelInv
<1>2. /\ Called(<<>>) /\ Called(<<ErrorTask>>) /\ Called(<<BoundTask(obj)>>)
      /\ Called(<<ErrorTask, BoundTask(obj)>>)
  BY <1>1, QuietTasks, CalledFor
<1>3. objects[obj].sock < 0 => objects[obj].sock = -1
  BY <1>1, ObjectFacts DEF Inv
<1>4. CASE UdpOpen(obj)
  BY <1>1, <1>2, <1>3, <1>4, OpensSocket DEF UdpOpen
<1>5. CASE UdpOpenFails(obj)
  BY <1>2, <1>5, QuietCall DEF UdpOpenFails
<1>6. CASE UdpBind(obj)
  BY <1>1, <1>2, <1>6, OpensSocket DEF UdpBind
<1>7. CASE UdpSendFails(obj)
  BY <1>2, <1>7, QuietCall DEF UdpSendFails
<1>. QED BY <1>4, <1>5, <1>6, <1>7

LEMMA UserStepKeeps == ASSUME Inv, UserStep PROVE Inv'
<1>1. ASSUME NEW obj \in Live, UserClose(obj) PROVE Inv'
  <2>1. obj \in Ptrs /\ obj \in Live'
    BY <1>1, SameObjects DEF UserClose, Inv, KernelInv
  <2>2. Called(<<CloseTask(obj)>>)
    BY <1>1, <2>1, CalledToClose DEF UserClose
  <2>. QED BY <1>1, <2>2, QuietCall DEF UserClose
<1>. QED BY <1>1, ServerCallsKeep, ClientCallsKeep, RawCallsKeep, UdpCallsKeep DEF UserStep

(* A callback of events::poll on the object of a descriptor.               *)
Begins(stack) ==
    \/ stack = <<>>
    \/ \E a : Plain(a) /\ stack = <<a>> /\ (a.do = "close" => a.obj \in Live)

LEMMA CallbackKeeps ==
    ASSUME Inv, todo = <<>>, UNCHANGED <<open, objects>>,
           NEW fd \in Dispatched, NEW event, Deliver(fd, event), Begins(todo')
    PROVE  Inv'
<1>1. KernelInv'
  BY PollKernel DEF Inv
<1>2. Live' = Live /\ Closed' = Closed /\ (Drained' <=> Drained)
  BY SameObjects
<1>3. StackInv'
  <2>1. Below(todo', {}, FALSE)
    BY BelowEmpty, BelowPlain DEF Begins
  <2>. QED BY <1>2, <2>1, CallbackStack DEF Inv
<1>4. CloseInv'
  BY <1>2, CallbackCloses DEF Begins, Plain
<1>. QED BY <1>1, <1>3, <1>4 DEF Inv

LEMMA PollStepKeeps == ASSUME Inv, PollStep PROVE Inv'
<1>1. \A fd \in Dispatched : registry[fd].ptr \in Live /\ registry[fd].ptr \in Ptrs
  BY DEF Inv, KernelInv, RegistryMatchesObjects
<1>2. Begins(<<>>) /\ Begins(<<ErrorTask>>)
  BY QuietTasks DEF Begins, Quiet, Idle
<1>3. \A hook \in {"RECEIVE", "READABLE", "UDP_RECEIVE"}, obj \in Ptrs :
          Begins(<<HookTask(hook, obj)>>)
  <2>1. \A hook \in {"RECEIVE", "READABLE", "UDP_RECEIVE"} : hook \in Hooks \ {"CLOSED", "DISCONNECT"}
    BY DEF Hooks, ServerHooks, CommonHooks, BasicHooks, UdpHooks
  <2>. QED BY <2>1, QuietTasks DEF Begins, Quiet, Idle
<1>4. CASE Poll \/ BackToPoll
  <2>1. /\ UNCHANGED <<open, objects, todo>> /\ todo = <<>>
        /\ PollSucceeds \/ PollErrs \/ Return \/ Finish
    BY <1>4 DEF Poll, BackToPoll, AppRuns, lifeVars
  <2>2. KernelInv'
    BY <2>1, PollKernel DEF Inv
  <2>3. StackInv'
    BY <2>1, SameObjects, BelowEmpty, CallbackStack DEF Inv
  <2>4. CloseInv'
    BY <2>1, CallbackCloses
  <2>. QED BY <2>2, <2>3, <2>4 DEF Inv
<1>5. CASE AcceptFails
  BY <1>2, <1>5, CallbackKeeps DEF AcceptFails, ReadableListeners
<1>6. CASE AcceptStarts
  <2>1. PICK fd \in Dispatched : Deliver(fd, "POLLIN")
    BY <1>6 DEF AcceptStarts, ReadableListeners
  <2>2. todo = <<>> /\ CanOpen /\ UNCHANGED <<open, objects>> /\ todo' = <<AcceptTask>>
    BY <1>6 DEF AcceptStarts
  <2>3. KernelInv'
    BY <2>1, <2>2, PollKernel DEF Inv
  <2>4. Below(<<>>, Closed, Drained)
    BY <2>2, RunningStack DEF Inv
  <2>5. Closed' = {}
    BY <2>2, <2>4, SameObjects DEF Below, OneEraser
  <2>6. StackInv'
    BY <2>2, <2>5 DEF StackInv, CanOpen
  <2>7. CloseInv'
    <3>1. AcceptTask \in Tasks /\ AcceptTask.do # "close"
      BY DEF Tasks, AcceptTask
    <3>. QED BY <2>2, <3>1, CallbackCloses
  <2>. QED BY <2>3, <2>6, <2>7 DEF Inv
<1>7. ASSUME NEW container, Receive(container) PROVE Inv'
  <2>1. PICK fd \in Dispatched :
            LET obj == registry[fd].ptr IN
            /\ todo = <<>> /\ objects[obj].container = container
            /\ Deliver(fd, "POLLIN")
            /\ todo' \in {<<HookTask("RECEIVE", obj)>>, <<CloseTask(obj)>>, <<>>}
            /\ UNCHANGED <<open, objects>>
    BY <1>7 DEF Receive
  <2>2. Begins(<<CloseTask(registry[fd].ptr)>>)
    BY <1>1, PlainClose DEF Begins
  <2>3. Begins(<<HookTask("RECEIVE", registry[fd].ptr)>>)
    BY <1>1, <1>3
  <2>4. Begins(todo')
    BY <1>2, <2>1, <2>2, <2>3
  <2>. QED BY <2>1, <2>4, CallbackKeeps
<1>8. CASE RawReadable
  <2>1. PICK fd \in Dispatched :
            /\ todo = <<>> /\ Deliver(fd, "POLLIN") /\ UNCHANGED <<open, objects>>
            /\ todo' = <<HookTask("READABLE", registry[fd].ptr)>>
    BY <1>8 DEF RawReadable
  <2>2. Begins(<<HookTask("READABLE", registry[fd].ptr)>>)
    BY <1>1, <1>3
  <2>. QED BY <2>1, <2>2, CallbackKeeps
<1>9. CASE UdpReceive
  <2>1. PICK fd \in Dispatched :
            /\ todo = <<>> /\ Deliver(fd, "POLLIN") /\ UNCHANGED <<open, objects>>
            /\ todo' \in {<<HookTask("UDP_RECEIVE", registry[fd].ptr)>>, <<ErrorTask>>}
    BY <1>9 DEF UdpReceive
  <2>2. Begins(<<HookTask("UDP_RECEIVE", registry[fd].ptr)>>)
    BY <1>1, <1>3
  <2>3. Begins(todo')
    BY <1>2, <2>1, <2>2
  <2>. QED BY <2>1, <2>3, CallbackKeeps
<1>. QED BY <1>4, <1>5, <1>6, <1>7, <1>8, <1>9 DEF PollStep, ServerDispatch, ClientDispatch

(* The first task of a stack.                                              *)
LEMMA FirstTask ==
    ASSUME NEW s, NEW closed, NEW drained, Below(s, closed, drained), s # <<>>
    PROVE  Head(s) \in Tasks /\ Head(s) = s[1] /\ BelowAt(s, closed, drained, 1)
<1>1. s \in Seq(Tasks) /\ 1 \in 1 .. Len(s) /\ Head(s) = s[1] /\ s[1] \in Tasks
  BY HeadTailProperties, LenProperties DEF Below
<1>2. BelowAt(s, closed, drained, 1)
  BY <1>1 DEF Below
<1>. QED BY <1>1, <1>2

(* A close runs on top of the rest.                                        *)
LEMMA CloseStack ==
    ASSUME StackInv, CloseInv, Running("close")
    PROVE  /\ Below(Tail(todo), Closed, Drained) /\ Head(todo).obj \in Live
           /\ Head(todo) = CloseTask(Head(todo).obj)
<1>1. todo # <<>> /\ Head(todo).do = "close" /\ Below(todo, Closed, Drained)
  BY RunningStack DEF Running
<1>2. Below(Tail(todo), Closed, Drained)
  BY <1>1, RestStack DEF DrainTask
<1>. QED BY <1>1, <1>2, TailWaits, FirstTask, TaskKinds

LEMMA CloseKeeps == ASSUME Inv, Close PROVE Inv'
<1> DEFINE obj == Head(todo).obj
           more == {obj} \ UserSockets
<1>1. /\ Below(Tail(todo), Closed, Drained) /\ obj \in Live
      /\ Head(todo) = CloseTask(obj) /\ todo # <<>>
  BY CloseStack DEF Close, Inv, Running
<1>2. Tail(todo) \in Seq(Tasks) /\ NowWaiting(Tail(todo))
  BY <1>1, TailWaits DEF Below, Inv
<1>3. CASE objects[obj].sock < 0
  <2>1. ReplaceBy(<<>>) /\ UNCHANGED <<open, objects, dispatchVars>>
    BY <1>3, <1>1, ObjectFacts DEF Close, Inv
  <2>2. KernelInv'
    BY <2>1, PollKernel DEF Inv
  <2>3. todo' = <<>> \o Tail(todo)
    BY <2>1 DEF ReplaceBy
  <2>4. StackInv'
    <3>1. Closed' = Closed \cup {} /\ (Drained' <=> Drained)
      BY <2>1, SameObjects
    <3>. QED BY <1>1, <2>3, <3>1, BelowEmpty, ReplaceStack
  <2>5. CloseInv'
    BY <1>2, <2>1, <2>3, SameObjects, KeptOpen, ReplaceCloses DEF Idles
  <2>. QED BY <2>2, <2>4, <2>5 DEF Inv
<1>4. CASE ~(objects[obj].sock < 0)
  <2>1. /\ objects[obj].sock >= 0 /\ Deregister(objects[obj].sock) /\ BaseClose(obj)
        /\ ReplaceBy(ClosedTasks(obj))
    BY <1>4 DEF Close
  <2>2. /\ KernelInv' /\ Live' = Live /\ (Drained' <=> Drained)
        /\ Closed' = Closed \cup more /\ obj \notin Closed
        /\ \A other \in Live \ {obj} : OpenAsBefore(other)
    BY <1>1, <2>1, CloseKernel DEF Inv
  <2>3. Below(ClosedTasks(obj), more, FALSE) /\ Idles(ClosedTasks(obj))
    <3>1. obj \in Ptrs /\ Idle(EraseTask(obj))
      BY <1>1 DEF Inv, KernelInv, Idle, Tasks, EraseTask
    <3>2. \A hook \in Hooks : Idle(HookTask(hook, obj))
      BY <3>1, MaxCallsAssumption DEF Idle, Tasks, HookTask
    <3>3. CASE obj \notin UserSockets
      <4>1. PICK hook \in {"CLOSED", "DISCONNECT"} :
                ClosedTasks(obj) = <<HookTask(hook, obj), EraseTask(obj)>>
        BY <1>1, <3>3, ClosedListRuns DEF Inv
      <4>2. more = {obj} /\ hook \in Hooks
        BY <3>3 DEF Hooks, ServerHooks, CommonHooks
      <4>3. Idles(<<HookTask(hook, obj), EraseTask(obj)>>)
        BY <3>1, <3>2, <4>2 DEF Idles
      <4>. QED BY <3>1, <4>1, <4>2, <4>3, BelowClosed
    <3>4. CASE obj \in UserSockets
      <4>1. PICK hook \in {"SOCKET_CLOSED", "UDP_CLOSED"} :
                ClosedTasks(obj) = <<HookTask(hook, obj)>>
        BY <1>1, <3>4, ClosedListRuns DEF Inv
      <4>2. hook \in Hooks \ {"CLOSED", "DISCONNECT"}
        BY DEF Hooks, BasicHooks, UdpHooks
      <4>3. Below(<<HookTask(hook, obj)>>, {}, FALSE) /\ Idles(<<HookTask(hook, obj)>>)
        BY <3>1, <3>2, <4>2, PlainHooks, BelowPlain DEF Idles
      <4>4. more = {}
        BY <3>4
      <4>. QED BY <4>1, <4>3, <4>4
    <3>. QED BY <3>3, <3>4
  <2>4. todo' = ClosedTasks(obj) \o Tail(todo)
    BY <2>1 DEF ReplaceBy
  <2>5. more \cap Closed = {}
    BY <2>2
  <2>6. StillOpen(Tail(todo))
    <3> DEFINE t == Tail(todo)
    <3>1. ASSUME NEW i \in 1 .. Len(t), t[i].do = "close" PROVE OpenAsBefore(t[i].obj)
      <4>1. WaitsAt(t, OpenIn(Listeners), OpenIn(Connections), i)
        BY <1>2 DEF NowWaiting, Waiting
      <4>2. t[i].obj \in Live
        BY <3>1, <4>1, OpenAreLive DEF WaitsAt
      <4>3. t[i].obj # obj
        <5>1. Spares(CloseTask(obj), t, OpenIn(Listeners), OpenIn(Connections))
          BY <1>1, TailWaits DEF Inv
        <5>. QED BY <3>1, <5>1 DEF Spares, Hits
      <4>. QED BY <2>2, <4>2, <4>3
    <3>. QED BY <3>1 DEF StillOpen, Agree, OpenAsBefore
  <2> HIDE DEF more, obj
  <2>7. StackInv'
    BY <1>1, <2>2, <2>3, <2>4, <2>5, ReplaceStack
  <2>8. CloseInv'
    BY <1>2, <2>3, <2>4, <2>6, ReplaceCloses
  <2>. QED BY <2>2, <2>7, <2>8 DEF Inv
<1>. QED BY <1>3, <1>4

LEMMA EraseKeeps == ASSUME Inv, Erase PROVE Inv'
<1> DEFINE obj == Head(todo).obj
<1>1. todo # <<>> /\ Head(todo).do = "erase" /\ Below(todo, Closed, Drained)
  BY RunningStack DEF Erase, Running, Inv
<1>2. obj \in Closed /\ Head(todo) = EraseTask(obj)
  <2>1. Head(todo) \in Tasks /\ Head(todo) = todo[1] /\ BelowAt(todo, Closed, Drained, 1)
    BY <1>1, FirstTask
  <2>2. Head(todo) = EraseTask(obj)
    BY <1>1, <2>1, TaskKinds
  <2>. QED BY <1>1, <2>1, <2>2 DEF BelowAt
<1>3. /\ objects' = Restrict(objects, Live \ {obj})
      /\ UNCHANGED <<open, dispatchVars>> /\ todo' = <<>> \o Tail(todo)
  BY DEF Erase, ReplaceBy
<1>4. /\ KernelInv' /\ Live' = Live \ {obj} /\ Closed' = Closed \ {obj}
      /\ (Drained => Drained') /\ Kept
  BY <1>2, <1>3, EraseKernel DEF Inv
<1>5. Below(Tail(todo), Closed', Drained)
  <2>1. Head(todo) # DrainTask(Clients)
    BY <1>1 DEF DrainTask
  <2>2. Below(Tail(todo), {o \in Closed : Head(todo) # EraseTask(o)}, Drained)
    BY <1>1, <2>1, BelowTail
  <2>3. {o \in Closed : Head(todo) # EraseTask(o)} = Closed'
    BY <1>2, <1>4 DEF EraseTask
  <2>. QED BY <2>2, <2>3
<1>6. todo' = Tail(todo)
  <2>1. Tail(todo) \in Seq(Tasks)
    BY <1>5 DEF Below
  <2>. QED BY <1>3, <2>1, ConcatEmptySeq
<1>7. StackInv'
  <2>1. Below(todo', Closed', Drained')
    BY <1>4, <1>5, <1>6, BelowWeaker
  <2>. QED BY <2>1 DEF StackInv
<1>8. CloseInv'
  <2>1. Tail(todo) \in Seq(Tasks) /\ NowWaiting(Tail(todo))
    BY <1>1, <1>5, TailWaits DEF Below, Inv
  <2>. QED BY <1>3, <1>4, <2>1, KeptOpen, ReplaceCloses DEF Idles
<1>. QED BY <1>4, <1>7, <1>8 DEF Inv

(* begin() of a map that is not empty.                                     *)
LEMMA BeginIsLive ==
    ASSUME KernelInv, NEW container \in {Listeners, Clients, Connections},
           Sockets(container) # {}
    PROVE  Begin(container) \in Sockets(container) /\ Begin(container) \in Live
<1> DEFINE S == {objects[obj].key : obj \in Sockets(container)}
<1>1. \A obj \in Sockets(container) : obj \in Live /\ objects[obj].key \in Nat
  <2>. TAKE obj \in Sockets(container)
  <2>1. obj \in Live /\ objects[obj].container = container
    BY DEF Sockets
  <2>2. obj \notin UserSockets
    BY <2>1, ObjectFacts DEF Listeners, Clients, Connections
  <2>. QED BY <2>1, <2>2, FdsAssumption DEF KernelInv, ObjectRecords, ContainerRecords
<1>2. S \subseteq Nat /\ S # {}
  BY <1>1
<1> HIDE DEF S
<1>3. PICK x \in S : \A y \in S : ~ (<<y, x>> \in OpToRel(<, Nat))
  BY <1>2, NatLessThanWellFounded, WFMin
<1>4. \A y \in S : x <= y
  <2>. TAKE y \in S
  <2>1. ~(y < x)
    BY <1>2, <1>3 DEF OpToRel
  <2>. QED BY <1>2, <2>1
<1>5. \E obj \in Sockets(container) :
          \A other \in Sockets(container) : objects[obj].key <= objects[other].key
  BY <1>4 DEF S
<1>6. Begin(container) \in Sockets(container)
  BY <1>5 DEF Begin
<1>. QED BY <1>1, <1>6

(* A task that runs and closes nothing by itself waits for no close below. *)
LEMMA WholeWaits ==
    ASSUME CloseInv, todo \in Seq(Tasks), todo # <<>>, Head(todo).do # "close"
    PROVE  NowWaiting(todo)
<1> DEFINE L == OpenIn(Listeners)
           C == OpenIn(Connections)
           head == Head(todo)
           rest == Tail(todo)
           one == <<head>>
<1>1. head \in Tasks /\ rest \in Seq(Tasks)
  BY HeadTailProperties
<1>2. Waiting(rest, L, C) /\ Spares(head, rest, L, C)
  BY TailWaits DEF NowWaiting
<1>3. todo = one \o rest
  <2>1. /\ one \o rest \in Seq(Tasks) /\ Len(one \o rest) = Len(rest) + 1
        /\ (one \o rest)[1] = head
        /\ \A i \in 1 .. Len(rest) : (one \o rest)[i + 1] = rest[i]
    BY <1>1, PushedStack
  <2>2. /\ Len(rest) \in Nat /\ Len(todo) = Len(rest) + 1 /\ todo[1] = head
        /\ \A i \in 1 .. Len(rest) : todo[i + 1] = rest[i]
    BY HeadTailProperties, LenProperties
  <2> HIDE DEF one, head, rest
  <2>3. ASSUME NEW i \in 1 .. Len(todo) PROVE todo[i] = (one \o rest)[i]
    <3>1. CASE i = 1
      BY <2>1, <2>2, <3>1
    <3>2. CASE i # 1
      <4>1. i - 1 \in 1 .. Len(rest) /\ (i - 1) + 1 = i
        BY <2>2, <3>2
      <4>. QED BY <2>1, <2>2, <4>1
    <3>. QED BY <3>1, <3>2
  <2>. QED BY <2>1, <2>2, <2>3, SeqEqual
<1> HIDE DEF L, C, one
<1>4. Waiting(<<head>> \o rest, L, C)
  BY <1>1, <1>2, WaitPush
<1>. QED BY <1>3, <1>4 DEF NowWaiting, L, C, one

LEMMA DrainKeeps == ASSUME Inv, Drain PROVE Inv'
<1> DEFINE container == Head(todo).container
<1>1. todo # <<>> /\ Head(todo).do = "drain" /\ Below(todo, Closed, Drained)
  BY RunningStack DEF Drain, Running, Inv
<1>2. container \in {Listeners, Clients, Connections} /\ Head(todo) = DrainTask(container)
  BY <1>1, FirstTask, TaskKinds
<1>3. KernelInv'
  BY PollKernel DEF Inv, Drain
<1>4. Live' = Live /\ Closed' = Closed /\ (Drained' <=> Drained) /\ Kept
  BY SameObjects DEF Drain
<1>5. CASE Sockets(container) = {}
  <2>1. todo' = <<>> \o Tail(todo)
    BY <1>5 DEF Drain, ReplaceBy
  <2>2. Head(todo) = DrainTask(Clients) => Drained
    BY <1>2, <1>5 DEF DrainTask, Drained
  <2>3. Below(Tail(todo), Closed, Drained)
    BY <1>1, <2>2, RestStack
  <2>4. StackInv'
    <3>1. Closed' = Closed \cup {}
      BY <1>4
    <3>. QED BY <1>4, <2>1, <2>3, <3>1, BelowEmpty, ReplaceStack
  <2>5. CloseInv'
    <3>1. Tail(todo) \in Seq(Tasks) /\ NowWaiting(Tail(todo))
      BY <1>1, <2>3, TailWaits DEF Below, Inv
    <3>. QED BY <1>4, <2>1, <3>1, KeptOpen, ReplaceCloses DEF Idles
  <2>. QED BY <1>3, <2>4, <2>5 DEF Inv
<1>6. CASE Sockets(container) # {}
  <2>1. todo' = <<CloseTask(Begin(container))>> \o todo
    BY <1>6 DEF Drain
  <2>2. Begin(container) \in Sockets(container) /\ Begin(container) \in Live
    BY <1>2, <1>6, BeginIsLive DEF Inv
  <2> DEFINE begin == Begin(container)
             close == CloseTask(begin)
  <2>3. Plain(close) /\ close.do = "close" /\ close.obj = begin
    BY <2>2, PlainClose DEF Inv, KernelInv
  <2>4. todo \in Seq(Tasks) /\ NowWaiting(todo)
    BY <1>1, WholeWaits DEF Below, Inv
  <2>5. Spares(close, todo, OpenIn(Listeners), OpenIn(Connections))
    <3>. SUFFICES ASSUME NEW i \in 1 .. Len(todo), todo[i] = CloseTask(begin) PROVE FALSE
      <4>1. \A o, L, C : Hits(close, o, L, C) => o = begin
        BY DEF Hits, CloseTask, DrainTask
      <4>2. \A i \in 1 .. Len(todo) : todo[i] \in Tasks
        BY <2>4, ElementOfSeq
      <4>3. \A i \in 1 .. Len(todo) : todo[i].do = "close" => todo[i] = CloseTask(todo[i].obj)
        BY <4>2, TaskKinds
      <4>. QED BY <4>1, <4>3 DEF Spares
    <3>1. WaitsAt(todo, OpenIn(Listeners), OpenIn(Connections), i)
      BY <2>4 DEF NowWaiting, Waiting
    <3>2. /\ begin \in OpenIn(Listeners) \cup OpenIn(Connections)
          /\ \A j \in 1 .. i - 1 : ~Hits(todo[j], begin, OpenIn(Listeners), OpenIn(Connections))
      BY <2>3, <3>1 DEF WaitsAt
    <3>3. 1 \in 1 .. i - 1 /\ todo[1] = DrainTask(container)
      <4>1. todo[1] = Head(todo)
        BY <1>1, FirstTask
      <4>2. i # 1
        BY <1>1, <4>1 DEF CloseTask
      <4>. QED BY <1>2, <4>1, <4>2
    <3>4. ~Hits(DrainTask(container), begin, OpenIn(Listeners), OpenIn(Connections))
      BY <3>2, <3>3
    <3>5. objects[begin].container = container
      BY <2>2 DEF Sockets
    <3>6. container = Listeners \/ container = Connections
      BY <3>2, <3>5 DEF OpenIn, Sockets
    <3>. QED BY <3>2, <3>4, <3>5, <3>6 DEF Hits, OpenIn, Sockets, Listeners, Connections
  <2>6. StackInv'
    <3>1. Below(<<close>>, {}, FALSE)
      BY <2>3, BelowPlain
    <3>2. Closed' = Closed \cup {}
      BY <1>4
    <3>. QED BY <1>1, <1>4, <2>1, <3>1, <3>2, ReplaceStack
  <2>7. CloseInv'
    <3> DEFINE L == OpenIn(Listeners)'
               C == OpenIn(Connections)'
    <3>1. Waiting(todo, L, C) /\ Spares(close, todo, L, C)
      BY <1>4, <2>4, <2>5, KeptOpen, WaitingSame DEF StillOpen, NowWaiting
    <3>2. close \in Tasks /\ close.obj \in Live'
      BY <1>4, <2>2, <2>3 DEF Plain
    <3> HIDE DEF L, C, close
    <3>3. Closing(<<close>> \o todo, Live', L, C)
      BY <2>4, <3>1, <3>2, ClosingPush
    <3>. QED BY <2>1, <3>3 DEF CloseInv, L, C, close
  <2>. QED BY <1>3, <2>6, <2>7 DEF Inv
<1>. QED BY <1>5, <1>6

(* accept() runs on an empty stack, when nothing is being closed.          *)
LEMMA AcceptStack ==
    ASSUME StackInv, Running("accept")
    PROVE  todo = <<AcceptTask>> /\ CanOpen /\ Closed = {}
<1>1. ~Below(todo, Closed, Drained)
  BY FirstTask DEF Running, BelowAt
<1>. QED BY <1>1 DEF StackInv

LEMMA ServerStepKeeps == ASSUME Inv, ServerStep PROVE Inv'
<1>1. PICK obj \in Ptrs \ Live : Accept(obj)
  BY DEF ServerStep
<1>2. /\ Running("accept") /\ MakeSocket(Clients, obj, "DISCONNECT")
      /\ todo' = <<HookTask("ACCEPT", obj)>> \o Tail(todo)
  BY <1>1 DEF Accept, ReplaceBy
<1>3. todo = <<AcceptTask>> /\ Closed = {}
  BY <1>2, AcceptStack DEF Inv
<1>4. KernelInv' /\ Closed' = {}
  BY <1>2, <1>3, MakeSocketKernel DEF Inv
<1>5. Plain(HookTask("ACCEPT", obj)) /\ HookTask("ACCEPT", obj).do = "hook"
  <2>1. "ACCEPT" \in Hooks
    BY DEF Hooks, ServerHooks
  <2>. QED BY <2>1, PlainHooks DEF HookTask
<1> DEFINE hook == HookTask("ACCEPT", obj)
<1>6. todo' = <<hook>> /\ hook \in Tasks /\ hook.do # "close"
  BY <1>2, <1>3, <1>5 DEF Plain
<1>7. Below(<<hook>>, {}, Drained')
  BY <1>5, BelowPlain, BelowWeaker
<1> HIDE DEF hook
<1>8. StackInv' /\ CloseInv'
  BY <1>4, <1>6, <1>7, CallbackCloses DEF StackInv
<1>. QED BY <1>4, <1>8 DEF Inv

LEMMA UdpBoundKeeps == ASSUME Inv, UdpBound PROVE Inv'
<1> DEFINE obj == Head(todo).obj
<1>1. todo # <<>> /\ Head(todo).do = "bound" /\ Below(todo, Closed, Drained)
  BY RunningStack DEF UdpBound, Running, Inv
<1>2. obj \in Ptrs
  BY <1>1, FirstTask, TaskKinds
<1>3. KernelInv' /\ Live' = Live /\ Closed' = Closed \cup {} /\ (Drained' <=> Drained) /\ Kept
  BY PollKernel, SameObjects DEF Inv, UdpBound
<1>4. Below(Tail(todo), Closed, Drained)
  <2>1. Head(todo) # DrainTask(Clients)
    BY <1>1 DEF DrainTask
  <2>. QED BY <1>1, <2>1, RestStack
<1>5. PICK task : Plain(task) /\ Idle(task) /\ todo' = <<task>> \o Tail(todo)
  <2>1. "BIND" \in Hooks
    BY DEF Hooks, UdpHooks
  <2>. QED BY <1>2, <2>1, QuietTasks DEF Quiet, UdpBound, ReplaceBy
<1>6. StackInv'
  BY <1>3, <1>4, <1>5, BelowPlain, ReplaceStack
<1>7. CloseInv'
  <2>1. Tail(todo) \in Seq(Tasks) /\ NowWaiting(Tail(todo))
    BY <1>1, <1>4, TailWaits DEF Below, Inv
  <2>. QED BY <1>3, <1>5, <2>1, KeptOpen, ReplaceCloses DEF Idles
<1>. QED BY <1>3, <1>6, <1>7 DEF Inv

LEMMA HookReturnsKeeps == ASSUME Inv, HookReturns PROVE Inv'
<1>1. /\ todo # <<>> /\ Head(todo).do = "hook" /\ todo' = <<>> \o Tail(todo)
      /\ UNCHANGED <<open, objects, dispatchVars>>
  BY DEF HookReturns, Running, ReplaceBy
<1>2. /\ KernelInv' /\ Closed' = Closed \cup {} /\ (Drained' <=> Drained)
      /\ Kept
  BY <1>1, PollKernel, SameObjects DEF Inv
<1>3. Below(Tail(todo), Closed, Drained)
  <2>1. Head(todo) # DrainTask(Clients)
    BY <1>1 DEF DrainTask
  <2>. QED BY <1>1, <2>1, RunningStack, RestStack DEF Inv
<1>4. StackInv'
  BY <1>1, <1>2, <1>3, BelowEmpty, ReplaceStack
<1>5. CloseInv'
  <2>1. Tail(todo) \in Seq(Tasks) /\ NowWaiting(Tail(todo))
    BY <1>1, <1>3, TailWaits DEF Below, Inv
  <2>. QED BY <1>1, <1>2, <2>1, KeptOpen, ReplaceCloses DEF Idles
<1>. QED BY <1>2, <1>4, <1>5 DEF Inv

-----------------------------------------------------------------------------
LEMMA InitInv == ASSUME Init PROVE Inv
<1>1. /\ open = {} /\ todo = <<>> /\ objects = [obj \in UserSockets |-> UserSocket(obj)]
      /\ registry = <<>> /\ report = <<>> /\ pending = {}
  BY DEF Init, ContainerInit, DispatchInit
<1>2. Live = UserSockets /\ UserSockets \subseteq Ptrs
  BY <1>1, SocketsAssumption DEF Live
<1>3. Dispatched = {} /\ DOMAIN report = {}
  BY <1>1 DEF Dispatched
<1>4. \A obj \in Live : objects[obj] \in UserRecords /\ objects[obj].sock = -1
  <2>. TAKE obj \in Live
  <2>1. objects[obj] = UserSocket(obj)
    BY <1>1, <1>2
  <2>2. UserSocket(obj).closed
            \in {AddCallback(<<>>, ClosedHook(hook)) : hook \in {"SOCKET_CLOSED", "UDP_CLOSED"}}
    BY DEF UserSocket
  <2>. QED BY <2>1, <2>2 DEF UserSocket, UserRecords
<1>5. ObjectRecords /\ KeysDistinct
  BY <1>1, <1>2, <1>4 DEF ObjectRecords, KeysDistinct
<1>6. RegistryMatchesObjects
  BY <1>3, <1>4 DEF RegistryMatchesObjects
<1>7. KernelInv
  BY <1>1, <1>2, <1>3, <1>5, <1>6 DEF KernelInv, ReportOK
<1>8. Closed = {}
  BY <1>2 DEF Closed
<1>9. Below(todo, Closed, Drained)
  BY <1>1, <1>8, BelowEmpty, BelowWeaker
<1>. QED BY <1>1, <1>7, <1>9 DEF Inv, StackInv, CloseInv, Closing

LEMMA NextInv == ASSUME Inv, [Next]_vars PROVE Inv'
<1>1. CASE UserStep
  BY <1>1, UserStepKeeps
<1>2. CASE PollStep
  BY <1>2, PollStepKeeps
<1>3. CASE LibraryStep
  BY <1>3, CloseKeeps, EraseKeeps, DrainKeeps, ServerStepKeeps, UdpBoundKeeps DEF LibraryStep
<1>4. CASE HookReturns
  BY <1>4, HookReturnsKeeps
<1>5. CASE UNCHANGED vars
  <2>1. UNCHANGED <<open, objects, todo>> /\ UNCHANGED dispatchVars
    BY <1>5 DEF vars, lifeVars
  <2>2. KernelInv'
    BY <2>1, PollKernel DEF Inv
  <2>3. Live' = Live /\ Closed' = Closed /\ (Drained' <=> Drained)
    BY <2>1, SameObjects
  <2>4. StackInv'
    BY <2>1, <2>3, BelowWeaker DEF StackInv, CanOpen, Inv
  <2>5. CloseInv'
    BY <2>1, SameObjects DEF CloseInv, Inv
  <2>. QED BY <2>2, <2>4, <2>5 DEF Inv
<1>. QED BY <1>1, <1>2, <1>3, <1>4, <1>5 DEF Next

-----------------------------------------------------------------------------
(* What the invariant says of the whole stack.                             *)

LEMMA NoTaskDangles == ASSUME Inv PROVE NoDanglingTask
<1>1. \A obj \in Closed : obj \in Live
  BY DEF Closed
<1>2. CASE todo = <<AcceptTask>>
  <2>1. /\ \A i \in 1 .. Len(todo) : todo[i] = AcceptTask
        /\ AcceptTask.do = "accept"
    BY <1>2 DEF AcceptTask
  <2>. QED BY <2>1 DEF NoDanglingTask
<1>3. CASE Below(todo, Closed, Drained)
  <2>1. todo \in Seq(Tasks) /\ Len(todo) \in Nat
    BY <1>3, LenProperties DEF Below
  <2>. SUFFICES ASSUME NEW i \in 1 .. Len(todo),
                       todo[i].do \in {"close", "erase"} \/ ToldOfEnd(todo[i])
                PROVE  todo[i].obj \in Live
    BY DEF NoDanglingTask, ToldOfEnd
  <2>2. BelowAt(todo, Closed, Drained, i)
    BY <1>3 DEF Below
  <2>3. CASE todo[i].do = "close"
    <3>1. todo # <<>> /\ Head(todo) = todo[1]
      BY <1>3, <2>1, FirstTask
    <3>2. CASE i = 1
      BY <2>3, <3>1, <3>2, TailWaits DEF Inv
    <3>3. CASE i # 1
      <4> DEFINE t == Tail(todo)
      <4>1. i - 1 \in 1 .. Len(t) /\ t[i - 1] = todo[i]
        BY <2>1, <3>1, <3>3, HeadTailProperties
      <4>2. NowWaiting(t)
        BY <3>1, TailWaits DEF Inv
      <4> HIDE DEF t
      <4>3. WaitsAt(t, OpenIn(Listeners), OpenIn(Connections), i - 1)
        BY <4>1, <4>2 DEF NowWaiting, Waiting
      <4>. QED BY <2>3, <4>1, <4>3, OpenAreLive DEF WaitsAt
    <3>. QED BY <3>2, <3>3
  <2>4. CASE todo[i].do = "erase"
    BY <1>1, <2>2, <2>4 DEF BelowAt
  <2>5. CASE ToldOfEnd(todo[i])
    <3>1. i + 1 \in 1 .. Len(todo) /\ todo[i + 1] = EraseTask(todo[i].obj)
      BY <2>1, <2>2, <2>5 DEF BelowAt
    <3>2. BelowAt(todo, Closed, Drained, i + 1)
      BY <1>3, <3>1 DEF Below
    <3>. QED BY <1>1, <3>1, <3>2 DEF BelowAt, EraseTask
  <2>. QED BY <2>3, <2>4, <2>5
<1>. QED BY <1>2, <1>3 DEF Inv, StackInv

LEMMA ClosedHaveOneEraser == ASSUME Inv PROVE OneEraserPerClosed
<1>. SUFFICES ASSUME NEW obj \in Live \ UserSockets
              PROVE  Cardinality({i \in 1 .. Len(todo) : todo[i] = EraseTask(obj)})
                        = IF objects[obj].sock < 0 THEN 1 ELSE 0
  BY DEF OneEraserPerClosed
<1> DEFINE places == {i \in 1 .. Len(todo) : todo[i] = EraseTask(obj)}
<1>1. objects[obj].sock < 0 <=> obj \in Closed
  BY ObjectFacts DEF Inv, Closed
<1>2. CASE obj \in Closed
  <2>1. Below(todo, Closed, Drained)
    BY <1>2 DEF Inv, StackInv
  <2>2. PICK j \in 1 .. Len(todo) :
            /\ todo[j] = EraseTask(obj)
            /\ \A k \in 1 .. Len(todo) : todo[k] = EraseTask(obj) => k = j
    BY <1>2, <2>1 DEF Below, OneEraser
  <2>3. places = {j}
    BY <2>2
  <2>. QED BY <1>1, <1>2, <2>3, FS_Singleton
<1>3. CASE obj \notin Closed
  <2>1. ASSUME NEW i \in places PROVE FALSE
    <3>1. CASE Below(todo, Closed, Drained)
      <4>1. BelowAt(todo, Closed, Drained, i)
        BY <3>1 DEF Below
      <4>. QED BY <1>3, <4>1 DEF BelowAt, EraseTask
    <3>2. CASE todo = <<AcceptTask>>
      BY <3>2 DEF AcceptTask, EraseTask
    <3>. QED BY <3>1, <3>2 DEF Inv, StackInv
  <2>2. places = {}
    BY <2>1
  <2>. QED BY <1>1, <1>3, <2>2, FS_EmptySet
<1>. QED BY <1>2, <1>3

(* The key of a descriptor is free when no closed socket is left behind.    *)
LEMMA KeyIsFree ==
    ASSUME KernelInv, Closed = {}, CanOpen,
           NEW container \in {Listeners, Clients, Connections}
    PROVE  ~HasKey(container, LowestFree)
<1>. SUFFICES ASSUME HasKey(container, LowestFree) PROVE FALSE
  OBVIOUS
<1>1. LowestFree \in Fds /\ LowestFree \notin open
  BY FreeDescriptor
<1>2. PICK obj \in Live : objects[obj].container = container /\ objects[obj].key = LowestFree
  BY DEF HasKey, Sockets
<1>3. obj \notin UserSockets
  BY <1>2, ObjectFacts DEF Listeners, Clients, Connections
<1>4. objects[obj].sock = LowestFree
  BY <1>2, <1>3 DEF Closed, KernelInv, ObjectRecords
<1>5. objects[obj].sock >= 0
  BY <1>1, <1>4, FdsAssumption
<1>. QED BY <1>1, <1>4, <1>5 DEF KernelInv, RegistryMatchesObjects

LEMMA AcceptedIsNew == ASSUME Inv PROVE AcceptInserts
<1>. SUFFICES ASSUME Running("accept"), HasKey(Clients, LowestFree) PROVE FALSE
  BY DEF AcceptInserts
<1>1. CanOpen /\ Closed = {}
  BY AcceptStack DEF Inv
<1>. QED BY <1>1, KeyIsFree DEF Inv

(* A drain that runs is the only thing that runs.                          *)
LEMMA OnlyDrainRuns ==
    ASSUME Next, Running("drain")
    PROVE  Drain
<1>1. todo # <<>> /\ Head(todo).do = "drain"
  BY DEF Running
<1>2. \A op : ~MayCall(op)
  BY <1>1 DEF MayCall, AppRuns, Running
<1>3. ~UserStep
  BY <1>2 DEF UserStep, ServerCalls, ListenFailsToOpen, ListenNotInserted, Listen, CloseServer,
              ClientCalls, ConnectFailsToOpen, ConnectNotInserted, Connect, CloseClient,
              RawCalls, RawOpen, RawOpenFails, RawReceives, RawCallFails,
              UdpCalls, UdpOpen, UdpOpenFails, UdpBind, UdpSendFails, UserClose
<1>4. ~PollStep
  BY <1>1 DEF PollStep, Poll, AppRuns, BackToPoll, ServerDispatch, AcceptFails, AcceptStarts,
              ClientDispatch, Receive, RawReadable, UdpReceive
<1>5. ~Close /\ ~Erase /\ ~ServerStep /\ ~UdpBound /\ ~HookReturns
  BY <1>1 DEF Close, Erase, ServerStep, Accept, UdpBound, HookReturns, Running
<1>. QED BY <1>3, <1>4, <1>5 DEF Next, LibraryStep

LEMMA DrainedAtTheEnd ==
    ASSUME Inv, [Next]_vars, Running("drain"), Head(todo) = DrainTask(Listeners),
           Len(todo') < Len(todo)
    PROVE  Sockets(Clients) \cup Sockets(Listeners) = {}
<1>1. Below(todo, Closed, Drained) /\ todo # <<>>
  BY RunningStack DEF Running, Inv
<1>2. todo \in Seq(Tasks) /\ Len(todo) \in Nat
  BY <1>1, LenProperties DEF Below
<1>3. Drained
  BY <1>1, FirstTask DEF BelowAt
<1>4. Drain
  <2>1. todo' # todo
    BY <1>2
  <2>. QED BY <2>1, OnlyDrainRuns DEF vars, lifeVars
<1>5. Sockets(Listeners) = {}
  <2>. SUFFICES ASSUME Sockets(Listeners) # {} PROVE FALSE
    OBVIOUS
  <2> DEFINE s == <<CloseTask(Begin(Listeners))>>
  <2>1. todo' = s \o todo
    BY <1>4 DEF Drain, DrainTask
  <2>2. s \in Seq(Tasks) /\ Len(s) = 1
    <3>1. CloseTask(Begin(Listeners)) \in Tasks
      BY BeginIsLive DEF Tasks, Inv, KernelInv
    <3>. QED BY <3>1
  <2> HIDE DEF s
  <2>3. Len(todo') = Len(s) + Len(todo)
    BY <1>2, <2>1, <2>2, ConcatProperties
  <2>. QED BY <1>2, <2>2, <2>3
<1>. QED BY <1>3, <1>5 DEF Drained

-----------------------------------------------------------------------------
(* What holds of every program.                                            *)

THEOREM AlwaysInv == Spec => []Inv
<1>1. Init => Inv
  BY InitInv
<1>2. Inv /\ [Next]_vars => Inv'
  BY NextInv
<1>. QED BY <1>1, <1>2, PTL DEF Spec

(* Every value has its type, the keys of a container are distinct, and no  *)
(* two sockets share a descriptor.                                         *)
THEOREM ProgramTypes == Spec => []TypeOK
<1>1. Inv => TypeOK
  BY KernelTypeOK DEF Inv
<1>. QED BY <1>1, AlwaysInv, PTL

(* add_socket and delete_socket keep the handler and the objects in step:  *)
(* events::poll never calls an object that was destroyed, nor one that no  *)
(* longer has the descriptor, and misses none that has one.                *)
THEOREM HandlerMatchesObjects == Spec => []RegistryMatchesObjects
<1>1. Inv => RegistryMatchesObjects
  BY DEF Inv, KernelInv
<1>. QED BY <1>1, AlwaysInv, PTL

(* No pending close, eraser, CLOSED hook or DISCONNECT hook has a pointer  *)
(* to a socket that sockets.erase destroyed.                               *)
THEOREM NothingDangles == Spec => []NoDanglingTask
<1>1. Inv => NoDanglingTask
  BY NoTaskDangles
<1>. QED BY <1>1, AlwaysInv, PTL

(* A socket of a container that socket::close has closed is erased from    *)
(* its map by one pending eraser, never by two and never by none.          *)
THEOREM EachClosedIsErasedOnce == Spec => []OneEraserPerClosed
<1>1. Inv => OneEraserPerClosed
  BY ClosedHaveOneEraser
<1>. QED BY <1>1, AlwaysInv, PTL

(* server::accept always finds the key of its new client free.             *)
THEOREM AcceptNeverCollides == Spec => []AcceptInserts
<1>1. Inv => AcceptInserts
  BY AcceptedIsNew
<1>. QED BY <1>1, AlwaysInv, PTL

(* When server::close returns, its maps are empty.                         *)
THEOREM CloseEmptiesServer == Spec => CloseLeavesNothing
<1>1. Inv /\ [Next]_vars =>
          [Running("drain") /\ Head(todo) = DrainTask(Listeners) /\ Len(todo') < Len(todo)
              => Sockets(Clients) \cup Sockets(Listeners) = {}]_vars
  BY DrainedAtTheEnd
<1>. QED BY <1>1, AlwaysInv, PTL DEF Spec, CloseLeavesNothing

-----------------------------------------------------------------------------
(* Programs that open no listener and no connection while a socket closes. *)

(* The hooks that may run before the eraser of a closed socket does: its   *)
(* own, those of the sockets these close, and those of the user's sockets  *)
(* they open and use.                                                      *)
EndHooks ==
    {"CLOSED", "DISCONNECT", "SOCKET_CLOSED", "UDP_CLOSED", "BIND", "ERROR"} \cup RawHooks

ClosingOpensNothing ==
    \A hook \in EndHooks : "listen" \notin HookOps[hook] /\ "connect" \notin HookOps[hook]

Calm(task) == task.do = "hook" => task.hook \in EndHooks

(* Only such hooks are above an eraser.                                    *)
CalmAboveErasers(stack) ==
    \A i, j \in 1 .. Len(stack) : i < j /\ stack[j].do = "erase" => Calm(stack[i])

NoEraser(stack) == \A i \in 1 .. Len(stack) : stack[i].do # "erase"
AllCalm(stack) == \A i \in 1 .. Len(stack) : Calm(stack[i])

LeakInv == Inv /\ CalmAboveErasers(todo) /\ NoDescriptorLeak

(* The whole stack is one of tasks.                                        *)
LEMMA TodoIsStack == ASSUME Inv PROVE todo \in Seq(Tasks)
<1>1. AcceptTask \in Tasks /\ \A task \in Tasks : <<task>> \in Seq(Tasks)
  BY DEF Tasks
<1>2. <<AcceptTask>> \in Seq(Tasks)
  BY <1>1
<1>. QED BY <1>2 DEF Inv, StackInv, Below

(* Calm tasks may be put on any stack, and any but erasers on one without  *)
(* erasers.                                                                *)
LEMMA CalmConcat ==
    ASSUME NEW top \in Seq(Tasks), NEW rest \in Seq(Tasks), CalmAboveErasers(rest),
           AllCalm(top) \/ (NoEraser(top) /\ NoEraser(rest))
    PROVE  CalmAboveErasers(top \o rest)
<1> DEFINE s == top \o rest
           m == Len(top)
           n == Len(rest)
<1>1. /\ m \in Nat /\ n \in Nat /\ Len(s) = m + n
      /\ \A i \in 1 .. m + n : s[i] = IF i <= m THEN top[i] ELSE rest[i - m]
  BY ConcatProperties, LenProperties
<1> HIDE DEF s, m, n
<1>2. SUFFICES ASSUME NEW i \in 1 .. Len(s), NEW j \in 1 .. Len(s), i < j, s[j].do = "erase"
               PROVE  Calm(s[i])
  BY DEF CalmAboveErasers, s
<1>3. CASE AllCalm(top)
  <2>1. CASE i <= m
    <3>1. i \in 1 .. m /\ s[i] = top[i]
      BY <1>1, <2>1
    <3>. QED BY <1>3, <3>1 DEF AllCalm, m
  <2>2. CASE ~(i <= m)
    <3>1. /\ i - m \in 1 .. n /\ j - m \in 1 .. n /\ i - m < j - m
          /\ s[i] = rest[i - m] /\ s[j] = rest[j - m]
      BY <1>1, <1>2, <2>2
    <3>. QED BY <1>2, <3>1 DEF CalmAboveErasers, n
  <2>. QED BY <2>1, <2>2
<1>4. CASE NoEraser(top) /\ NoEraser(rest)
  <2>1. CASE j <= m
    <3>1. j \in 1 .. m /\ s[j] = top[j]
      BY <1>1, <2>1
    <3>. QED BY <1>2, <1>4, <3>1 DEF NoEraser, m
  <2>2. CASE ~(j <= m)
    <3>1. j - m \in 1 .. n /\ s[j] = rest[j - m]
      BY <1>1, <2>2
    <3>. QED BY <1>2, <1>4, <3>1 DEF NoEraser, n
  <2>. QED BY <2>1, <2>2
<1>. QED BY <1>3, <1>4

LEMMA CalmTail ==
    ASSUME NEW s \in Seq(Tasks), s # <<>>, CalmAboveErasers(s)
    PROVE  /\ Tail(s) \in Seq(Tasks) /\ CalmAboveErasers(Tail(s))
           /\ Calm(Head(s)) \/ NoEraser(Tail(s))
<1> DEFINE t == Tail(s)
           n == Len(t)
<1>1. /\ t \in Seq(Tasks) /\ n \in Nat /\ Len(s) = n + 1 /\ Head(s) = s[1]
      /\ \A i \in 1 .. n : t[i] = s[i + 1]
  BY HeadTailProperties, LenProperties
<1> HIDE DEF t, n
<1>2. ASSUME NEW i \in 1 .. n, NEW j \in 1 .. n, i < j, t[j].do = "erase"
      PROVE  Calm(t[i])
  <2>1. /\ i + 1 \in 1 .. Len(s) /\ j + 1 \in 1 .. Len(s) /\ i + 1 < j + 1
        /\ t[i] = s[i + 1] /\ t[j] = s[j + 1]
    BY <1>1, <1>2
  <2>. QED BY <1>2, <2>1 DEF CalmAboveErasers
<1>3. ASSUME NEW j \in 1 .. n, t[j].do = "erase"
      PROVE  Calm(Head(s))
  <2>1. 1 \in 1 .. Len(s) /\ j + 1 \in 1 .. Len(s) /\ 1 < j + 1 /\ t[j] = s[j + 1]
    BY <1>1
  <2>. QED BY <1>1, <1>3, <2>1 DEF CalmAboveErasers
<1>. QED BY <1>1, <1>2, <1>3 DEF CalmAboveErasers, NoEraser, t, n

(* A stack without erasers, in particular one of one or two other tasks.   *)
LEMMA CalmWithout ==
    ASSUME NEW s, NoEraser(s) PROVE CalmAboveErasers(s)
  BY DEF NoEraser, CalmAboveErasers

Ordinary(task) == task \in Tasks /\ task.do # "erase"

LEMMA ShortStacks ==
    /\ <<>> \in Seq(Tasks) /\ NoEraser(<<>>) /\ AllCalm(<<>>)
    /\ \A a : Ordinary(a) =>
          <<a>> \in Seq(Tasks) /\ NoEraser(<<a>>) /\ (Calm(a) => AllCalm(<<a>>))
    /\ \A a, b : Ordinary(a) /\ Ordinary(b) =>
          /\ <<a, b>> \in Seq(Tasks) /\ NoEraser(<<a, b>>)
          /\ Calm(a) /\ Calm(b) => AllCalm(<<a, b>>)
<1>1. <<>> \in Seq(Tasks) /\ NoEraser(<<>>) /\ AllCalm(<<>>)
  BY DEF NoEraser, AllCalm
<1>2. ASSUME NEW a, Ordinary(a)
      PROVE  <<a>> \in Seq(Tasks) /\ NoEraser(<<a>>) /\ (Calm(a) => AllCalm(<<a>>))
  <2> DEFINE s == <<a>>
  <2>1. s \in Seq(Tasks) /\ Len(s) = 1 /\ s[1] = a
    BY <1>2 DEF Ordinary
  <2> HIDE DEF s
  <2>2. \A i \in 1 .. Len(s) : i = 1
    BY <2>1
  <2>3. NoEraser(s) /\ (Calm(a) => AllCalm(s))
    BY <1>2, <2>1, <2>2 DEF NoEraser, AllCalm, Ordinary
  <2>. QED BY <2>1, <2>3 DEF s
<1>3. ASSUME NEW a, NEW b, Ordinary(a), Ordinary(b)
      PROVE  /\ <<a, b>> \in Seq(Tasks) /\ NoEraser(<<a, b>>)
             /\ Calm(a) /\ Calm(b) => AllCalm(<<a, b>>)
  <2> DEFINE s == <<a, b>>
  <2>1. s \in Seq(Tasks) /\ Len(s) = 2 /\ s[1] = a /\ s[2] = b
    BY <1>3 DEF Ordinary
  <2> HIDE DEF s
  <2>2. \A i \in 1 .. Len(s) : i = 1 \/ i = 2
    BY <2>1
  <2>3. NoEraser(s) /\ (Calm(a) /\ Calm(b) => AllCalm(s))
    BY <1>3, <2>1, <2>2 DEF NoEraser, AllCalm, Ordinary
  <2>. QED BY <2>1, <2>3 DEF s
<1>. QED BY <1>1, <1>2, <1>3

(* The tasks that operations put on the stack.                             *)
LEMMA TaskFacts ==
    /\ Ordinary(ErrorTask) /\ Calm(ErrorTask)
    /\ \A obj \in Ptrs : /\ Ordinary(CloseTask(obj)) /\ Calm(CloseTask(obj))
                         /\ Ordinary(BoundTask(obj)) /\ Calm(BoundTask(obj))
                         /\ \A hook \in Hooks : Ordinary(HookTask(hook, obj))
                         /\ \A hook \in EndHooks : Calm(HookTask(hook, obj))
    /\ \A c \in {Listeners, Clients, Connections} : Ordinary(DrainTask(c)) /\ Calm(DrainTask(c))
    /\ Ordinary(AcceptTask)
<1>1. Ordinary(ErrorTask) /\ Calm(ErrorTask)
  BY PlainHooks DEF Plain, Ordinary, Calm, ErrorTask, EndHooks
<1>2. ASSUME NEW obj \in Ptrs
      PROVE  /\ Ordinary(CloseTask(obj)) /\ Calm(CloseTask(obj))
             /\ Ordinary(BoundTask(obj)) /\ Calm(BoundTask(obj))
             /\ \A hook \in Hooks : Ordinary(HookTask(hook, obj))
             /\ \A hook \in EndHooks : Calm(HookTask(hook, obj))
  BY MaxCallsAssumption DEF Ordinary, Calm, Tasks, CloseTask, BoundTask, HookTask
<1>3. \A c \in {Listeners, Clients, Connections} : Ordinary(DrainTask(c)) /\ Calm(DrainTask(c))
  BY DEF Ordinary, Calm, Tasks, DrainTask
<1>4. Ordinary(AcceptTask)
  BY DEF Ordinary, Tasks, AcceptTask
<1>. QED BY <1>1, <1>2, <1>3, <1>4

(* User code that runs below an eraser opens nothing: what it calls is     *)
(* calm, or there is no eraser.                                            *)
Proper(op, tasks) ==
    /\ tasks \in Seq(Tasks) /\ NoEraser(tasks)
    /\ op \in {"listen", "connect"} \/ AllCalm(tasks)

LEMMA UserCallsCalmly ==
    ASSUME Inv, ClosingOpensNothing, CalmAboveErasers(todo),
           NEW op, MayCall(op), NEW tasks, Proper(op, tasks), UserCalls(tasks)
    PROVE  CalmAboveErasers(todo')
<1>1. todo \in Seq(Tasks) /\ tasks \in Seq(Tasks) /\ NoEraser(tasks)
  BY TodoIsStack DEF Proper
<1>2. CASE todo = <<>>
  BY <1>1, <1>2, CalmWithout DEF UserCalls
<1>3. CASE todo # <<>>
  <2> DEFINE again == [Head(todo) EXCEPT !.calls = @ - 1]
             top == tasks \o <<again>>
  <2>1. Head(todo).do = "hook" /\ op \in HookOps[Head(todo).hook] /\ Head(todo) \in Tasks
    BY <1>1, <1>3, HeadTailProperties DEF MayCall, AppRuns, Running
  <2>2. /\ again \in Tasks /\ again.do = "hook" /\ again.hook = Head(todo).hook
    BY <2>1, HookAgain
  <2>3. /\ Tail(todo) \in Seq(Tasks) /\ CalmAboveErasers(Tail(todo))
        /\ Calm(Head(todo)) \/ NoEraser(Tail(todo))
    BY <1>1, <1>3, CalmTail
  <2>4. todo' = top \o Tail(todo)
    BY <1>3 DEF UserCalls, ReplaceBy
  <2> HIDE DEF again
  <2>5. Ordinary(again) /\ (Calm(again) <=> Calm(Head(todo)))
    BY <2>1, <2>2 DEF Ordinary, Calm
  <2>6. /\ top \in Seq(Tasks) /\ NoEraser(top)
        /\ AllCalm(tasks) /\ Calm(again) => AllCalm(top)
    <3> DEFINE s == <<again>>
               m == Len(tasks)
    <3>1. s \in Seq(Tasks) /\ Len(s) = 1 /\ s[1] = again
      BY <2>2
    <3>2. m \in Nat
      BY <1>1, LenProperties
    <3> HIDE DEF s
    <3>3. /\ tasks \o s \in Seq(Tasks) /\ Len(tasks \o s) = m + 1
          /\ \A i \in 1 .. m + 1 : (tasks \o s)[i] = IF i <= m THEN tasks[i] ELSE s[i - m]
      BY <1>1, <3>1, ConcatProperties
    <3>4. /\ \A i \in 1 .. m : (tasks \o s)[i] = tasks[i]
          /\ (tasks \o s)[m + 1] = again
          /\ \A i \in 1 .. m + 1 : i \in 1 .. m \/ i = m + 1
      BY <3>1, <3>2, <3>3
    <3> HIDE DEF m
    <3>5. NoEraser(tasks \o s)
      <4>1. \A i \in 1 .. m : tasks[i].do # "erase"
        BY <1>1 DEF NoEraser, m
      <4>. QED BY <2>5, <3>3, <3>4, <4>1 DEF NoEraser, Ordinary
    <3>6. AllCalm(tasks) /\ Calm(again) => AllCalm(tasks \o s)
      <4>1. AllCalm(tasks) => \A i \in 1 .. m : Calm(tasks[i])
        BY DEF AllCalm, m
      <4>. QED BY <3>3, <3>4, <4>1 DEF AllCalm
    <3>. QED BY <3>3, <3>5, <3>6 DEF s
  <2> HIDE DEF top
  <2>7. CASE NoEraser(Tail(todo))
    BY <2>3, <2>4, <2>6, <2>7, CalmConcat
  <2>8. CASE Calm(Head(todo))
    <3>1. op \notin {"listen", "connect"}
      BY <2>1, <2>8 DEF Calm, ClosingOpensNothing
    <3>2. AllCalm(top)
      BY <2>5, <2>6, <2>8, <3>1 DEF Proper
    <3>. QED BY <2>3, <2>4, <2>6, <3>2, CalmConcat
  <2>. QED BY <2>3, <2>7, <2>8
<1>. QED BY <1>2, <1>3

(* The operations of user code are proper.                                 *)
LEMMA ProperCalls ==
    /\ \A op : /\ Proper(op, <<>>) /\ Proper(op, <<ErrorTask>>)
               /\ Proper(op, <<DrainTask(Clients), DrainTask(Listeners)>>)
               /\ Proper(op, <<DrainTask(Connections)>>)
    /\ \A op, obj : obj \in Ptrs =>
          /\ Proper(op, <<CloseTask(obj)>>) /\ Proper(op, <<BoundTask(obj)>>)
          /\ Proper(op, <<ErrorTask, CloseTask(obj)>>) /\ Proper(op, <<CloseTask(obj), ErrorTask>>)
          /\ Proper(op, <<ErrorTask, BoundTask(obj)>>)
          /\ \A hook \in RawHooks : Proper(op, <<HookTask(hook, obj)>>)
    /\ \A obj \in Ptrs : /\ Proper("listen", <<HookTask("LISTEN", obj)>>)
                         /\ Proper("connect", <<HookTask("CONNECT", obj)>>)
<1>1. \A op : /\ Proper(op, <<>>) /\ Proper(op, <<ErrorTask>>)
              /\ Proper(op, <<DrainTask(Clients), DrainTask(Listeners)>>)
              /\ Proper(op, <<DrainTask(Connections)>>)
  BY TaskFacts, ShortStacks DEF Proper
<1>2. ASSUME NEW op, NEW obj \in Ptrs
      PROVE  /\ Proper(op, <<CloseTask(obj)>>) /\ Proper(op, <<BoundTask(obj)>>)
             /\ Proper(op, <<ErrorTask, CloseTask(obj)>>)
             /\ Proper(op, <<CloseTask(obj), ErrorTask>>)
             /\ Proper(op, <<ErrorTask, BoundTask(obj)>>)
             /\ \A hook \in RawHooks : Proper(op, <<HookTask(hook, obj)>>)
  <2>1. \A hook \in RawHooks : hook \in Hooks /\ hook \in EndHooks
    BY DEF Hooks, EndHooks
  <2>. QED BY <2>1, TaskFacts, ShortStacks DEF Proper
<1>3. ASSUME NEW obj \in Ptrs
      PROVE  /\ Proper("listen", <<HookTask("LISTEN", obj)>>)
             /\ Proper("connect", <<HookTask("CONNECT", obj)>>)
  <2>1. "LISTEN" \in Hooks /\ "CONNECT" \in Hooks
    BY DEF Hooks, ServerHooks, ClientHooks
  <2>. QED BY <2>1, TaskFacts, ShortStacks DEF Proper
<1>. QED BY <1>1, <1>2, <1>3

(* While listen() or connect() may be called no closed socket waits for    *)
(* its eraser.                                                             *)
LEMMA NothingIsClosing ==
    ASSUME Inv, ClosingOpensNothing, CalmAboveErasers(todo),
           NEW op \in {"listen", "connect"}, MayCall(op)
    PROVE  Closed = {}
<1>. SUFFICES ASSUME NEW obj \in Closed PROVE FALSE
  OBVIOUS
<1>1. todo \in Seq(Tasks) /\ Len(todo) \in Nat
  BY TodoIsStack, LenProperties
<1>2. PICK j \in 1 .. Len(todo) : todo[j] = EraseTask(obj)
  <2> DEFINE places == {i \in 1 .. Len(todo) : todo[i] = EraseTask(obj)}
  <2>1. Cardinality(places) = 1
    BY ClosedHaveOneEraser DEF OneEraserPerClosed, Closed
  <2>2. places # {}
    BY <2>1, FS_EmptySet
  <2>. QED BY <2>2
<1>3. todo # <<>>
  BY <1>1, <1>2
<1>4. Head(todo).do = "hook" /\ op \in HookOps[Head(todo).hook] /\ Head(todo) = todo[1]
  BY <1>1, <1>3, HeadTailProperties DEF MayCall, AppRuns, Running
<1>5. 1 \in 1 .. Len(todo) /\ 1 < j /\ todo[j].do = "erase"
  <2>1. todo[j].do = "erase"
    BY <1>2 DEF EraseTask
  <2>2. j # 1
    BY <1>4, <2>1
  <2>. QED BY <1>1, <2>1, <2>2
<1>6. Calm(todo[1])
  BY <1>5 DEF CalmAboveErasers
<1>. QED BY <1>4, <1>6 DEF Calm, ClosingOpensNothing

LEMMA NoFailedInsert ==
    ASSUME Inv, ClosingOpensNothing, CalmAboveErasers(todo)
    PROVE  ~ListenNotInserted /\ ~ConnectNotInserted
<1>1. ~ListenNotInserted
  BY NothingIsClosing, KeyIsFree DEF ListenNotInserted, MakeSocketFails, NotInserted, Inv
<1>2. ~ConnectNotInserted
  BY NothingIsClosing, KeyIsFree DEF ConnectNotInserted, MakeSocketFails, NotInserted, Inv
<1>. QED BY <1>1, <1>2

(* A descriptor that is opened goes to an object; one that is closed was   *)
(* the only one of its object; what is erased has none.                    *)
LEMMA MadeDoesNotLeak ==
    ASSUME NoDescriptorLeak, NEW container, NEW obj, obj \notin Live, NEW hook,
           MakeSocket(container, obj, hook)
    PROVE  NoDescriptorLeak'
<1> DEFINE list == AddCallback(AddCallback(<<>>, Eraser), ClosedHook(hook))
           new == [container |-> container, key |-> LowestFree, sock |-> LowestFree,
                   closed |-> list]
<1>1. open' = open \cup {LowestFree}
  BY DEF MakeSocket, BaseOpen
<1>2. objects' = [o \in Live \cup {obj} |-> IF o = obj THEN new ELSE objects[o]]
  BY DEF MakeSocket, Insert, With, Live
<1>3. /\ Live' = Live \cup {obj} /\ objects'[obj].sock = LowestFree
      /\ \A o \in Live : objects'[o] = objects[o]
  BY <1>2 DEF Live
<1>. QED BY <1>1, <1>3 DEF NoDescriptorLeak

LEMMA OpenedDoesNotLeak ==
    ASSUME KernelInv, NoDescriptorLeak, NEW obj \in UserSockets, objects[obj].sock = -1,
           OpenSocket(obj)
    PROVE  NoDescriptorLeak'
<1>1. /\ open' = open \cup {LowestFree}
      /\ objects' = [objects EXCEPT ![obj].sock = LowestFree]
      /\ obj \in Live /\ objects = [o \in Live |-> objects[o]] /\ objects[obj] \in UserRecords
      /\ open \subseteq Fds
  BY DEF OpenSocket, BaseOpen, KernelInv, ObjectRecords
<1>2. /\ Live' = Live /\ objects'[obj].sock = LowestFree
      /\ \A o \in Live \ {obj} : objects'[o] = objects[o]
  <2>1. Live' = Live
    BY <1>1 DEF Live
  <2>2. objects'[obj] = [objects[obj] EXCEPT !.sock = LowestFree]
    BY <1>1
  <2>. QED BY <1>1, <2>1, <2>2 DEF UserRecords
<1>3. \A fd \in open : fd # -1
  BY <1>1, FdsAssumption
<1>. QED BY <1>1, <1>2, <1>3 DEF NoDescriptorLeak

LEMMA ClosedDoesNotLeak ==
    ASSUME KernelInv, NoDescriptorLeak, NEW obj \in Live, BaseClose(obj)
    PROVE  NoDescriptorLeak'
<1>1. /\ open' = open \ {objects[obj].sock}
      /\ objects' = [objects EXCEPT ![obj].sock = -1] /\ objects = [o \in Live |-> objects[o]]
  BY DEF BaseClose, KernelInv, ObjectRecords
<1>2. Live' = Live /\ \A o \in Live \ {obj} : objects'[o] = objects[o]
  BY <1>1 DEF Live
<1>. QED BY <1>1, <1>2 DEF NoDescriptorLeak

LEMMA ErasedDoesNotLeak ==
    ASSUME KernelInv, NoDescriptorLeak, NEW obj \in Closed,
           objects' = Restrict(objects, Live \ {obj}), UNCHANGED open
    PROVE  NoDescriptorLeak'
<1>1. objects' = [o \in Live \ {obj} |-> objects[o]]
  BY DEF Restrict, Live, Closed
<1>2. Live' = Live \ {obj} /\ \A o \in Live' : objects'[o] = objects[o]
  BY <1>1 DEF Live
<1>3. /\ objects[obj].sock = -1 /\ \A fd \in open : fd # -1
  BY FdsAssumption DEF Closed, KernelInv
<1>. QED BY <1>2, <1>3 DEF NoDescriptorLeak

LEMMA UnchangedDoesNotLeak ==
    ASSUME NoDescriptorLeak, UNCHANGED <<open, objects>> PROVE NoDescriptorLeak'
  BY DEF NoDescriptorLeak, Live

(* The steps.                                                              *)
StaysCalm == CalmAboveErasers(todo') /\ NoDescriptorLeak'

LEMMA ServerCallsLeakNone ==
    ASSUME LeakInv, ClosingOpensNothing, ServerCalls PROVE StaysCalm
<1>. Inv /\ CalmAboveErasers(todo) /\ NoDescriptorLeak
  BY DEF LeakInv
<1>1. CASE ListenFailsToOpen
  BY <1>1, ProperCalls, UserCallsCalmly, UnchangedDoesNotLeak DEF ListenFailsToOpen, StaysCalm
<1>2. ~ListenNotInserted
  BY NoFailedInsert
<1>3. CASE CloseServer
  BY <1>3, ProperCalls, UserCallsCalmly, UnchangedDoesNotLeak DEF CloseServer, StaysCalm
<1>4. ASSUME NEW obj \in Ptrs \ Live, Listen(obj) PROVE StaysCalm
  <2>1. /\ MayCall("listen") /\ MakeSocket(Listeners, obj, "CLOSED")
        /\ \/ UserCalls(<<HookTask("LISTEN", obj)>>)
           \/ UserCalls(<<ErrorTask, CloseTask(obj)>>)
    BY <1>4 DEF Listen
  <2>2. CalmAboveErasers(todo')
    BY <2>1, ProperCalls, UserCallsCalmly
  <2>3. NoDescriptorLeak'
    BY <2>1, MadeDoesNotLeak
  <2>. QED BY <2>2, <2>3 DEF StaysCalm
<1>. QED BY <1>1, <1>2, <1>3, <1>4 DEF ServerCalls

LEMMA ClientCallsLeakNone ==
    ASSUME LeakInv, ClosingOpensNothing, ClientCalls PROVE StaysCalm
<1>. Inv /\ CalmAboveErasers(todo) /\ NoDescriptorLeak
  BY DEF LeakInv
<1>1. CASE ConnectFailsToOpen
  BY <1>1, ProperCalls, UserCallsCalmly, UnchangedDoesNotLeak DEF ConnectFailsToOpen, StaysCalm
<1>2. ~ConnectNotInserted
  BY NoFailedInsert
<1>3. CASE CloseClient
  BY <1>3, ProperCalls, UserCallsCalmly, UnchangedDoesNotLeak DEF CloseClient, StaysCalm
<1>4. ASSUME NEW obj \in Ptrs \ Live, Connect(obj) PROVE StaysCalm
  <2>1. /\ MayCall("connect") /\ MakeSocket(Connections, obj, "CLOSED")
        /\ \/ UserCalls(<<HookTask("CONNECT", obj)>>)
           \/ UserCalls(<<ErrorTask, CloseTask(obj)>>)
           \/ UserCalls(<<CloseTask(obj), ErrorTask>>)
    BY <1>4 DEF Connect
  <2>2. CalmAboveErasers(todo')
    BY <2>1, ProperCalls, UserCallsCalmly
  <2>3. NoDescriptorLeak'
    BY <2>1, MadeDoesNotLeak
  <2>. QED BY <2>2, <2>3 DEF StaysCalm
<1>. QED BY <1>1, <1>2, <1>3, <1>4 DEF ClientCalls

LEMMA SocketCallsLeakNone ==
    ASSUME LeakInv, ClosingOpensNothing, RawCalls \/ UdpCalls PROVE StaysCalm
<1>. Inv /\ CalmAboveErasers(todo) /\ NoDescriptorLeak /\ KernelInv
  BY DEF LeakInv, Inv
<1>1. \A obj \in UserSockets : obj \in Ptrs /\ obj \in Live
  BY SocketsAssumption DEF KernelInv
<1>2. \A obj \in UserSockets : objects[obj].sock < 0 => objects[obj].sock = -1
  BY <1>1, ObjectFacts
<1>3. ASSUME NEW op, MayCall(op), NEW obj \in UserSockets, objects[obj].sock = -1,
             OpenSocket(obj), NEW tasks, Proper(op, tasks), UserCalls(tasks)
      PROVE  StaysCalm
  BY <1>3, UserCallsCalmly, OpenedDoesNotLeak DEF StaysCalm
<1>4. ASSUME NEW op, MayCall(op), UNCHANGED <<open, objects>>,
             NEW tasks, Proper(op, tasks), UserCalls(tasks)
      PROVE  StaysCalm
  BY <1>4, UserCallsCalmly, UnchangedDoesNotLeak DEF StaysCalm
<1>5. CASE RawCalls
  <2>. PICK obj \in RawSockets :
           RawOpen(obj) \/ RawOpenFails(obj) \/ RawReceives(obj) \/ RawCallFails(obj)
    BY <1>5 DEF RawCalls
  <2>1. obj \in UserSockets /\ obj \in Ptrs
    BY SocketsAssumption
  <2>2. CASE RawOpen(obj)
    BY <1>3, <2>1, <2>2, ProperCalls DEF RawOpen
  <2>3. CASE RawOpenFails(obj)
    BY <1>4, <2>3, ProperCalls DEF RawOpenFails
  <2>4. CASE RawReceives(obj)
    BY <1>4, <2>1, <2>4, ProperCalls DEF RawReceives
  <2>5. CASE RawCallFails(obj)
    BY <1>4, <2>5, ProperCalls DEF RawCallFails
  <2>. QED BY <2>2, <2>3, <2>4, <2>5
<1>6. CASE UdpCalls
  <2>. PICK obj \in UserSockets \ RawSockets :
           UdpOpen(obj) \/ UdpOpenFails(obj) \/ UdpBind(obj) \/ UdpSendFails(obj)
    BY <1>6 DEF UdpCalls
  <2>1. obj \in UserSockets /\ obj \in Ptrs
    BY <1>1
  <2>2. CASE UdpOpen(obj)
    BY <1>2, <1>3, <2>1, <2>2, ProperCalls DEF UdpOpen
  <2>3. CASE UdpOpenFails(obj)
    BY <1>4, <2>1, <2>3, ProperCalls DEF UdpOpenFails
  <2>4. CASE UdpBind(obj)
    BY <1>3, <2>1, <2>4, ProperCalls DEF UdpBind
  <2>5. CASE UdpSendFails(obj)
    BY <1>4, <2>5, ProperCalls DEF UdpSendFails
  <2>. QED BY <2>2, <2>3, <2>4, <2>5
<1>. QED BY <1>5, <1>6

(* What events::poll calls begins a stack without erasers.                 *)
LEMMA PollStepLeaksNone == ASSUME LeakInv, PollStep PROVE StaysCalm
<1>1. \A fd \in Dispatched : registry[fd].ptr \in Ptrs
  BY DEF LeakInv, Inv, KernelInv, RegistryMatchesObjects
<1>2. \A hook \in {"RECEIVE", "READABLE", "UDP_RECEIVE"} : hook \in Hooks
  BY DEF Hooks, ServerHooks, CommonHooks, BasicHooks, UdpHooks
<1>3. UNCHANGED <<open, objects>>
  BY DEF PollStep, Poll, BackToPoll, lifeVars, ServerDispatch, AcceptFails, AcceptStarts,
         ClientDispatch, Receive, RawReadable, UdpReceive
<1>4. NoEraser(todo')
  <2>1. CASE Poll \/ BackToPoll
    BY <2>1, ShortStacks DEF Poll, BackToPoll, AppRuns, lifeVars
  <2>2. CASE AcceptFails \/ AcceptStarts
    BY <2>2, ShortStacks, TaskFacts DEF AcceptFails, AcceptStarts
  <2>3. ASSUME NEW container, Receive(container) PROVE NoEraser(todo')
    BY <1>1, <1>2, <2>3, ShortStacks, TaskFacts DEF Receive
  <2>4. CASE RawReadable
    BY <1>1, <1>2, <2>4, ShortStacks, TaskFacts DEF RawReadable
  <2>5. CASE UdpReceive
    BY <1>1, <1>2, <2>5, ShortStacks, TaskFacts DEF UdpReceive
  <2>. QED BY <2>1, <2>2, <2>3, <2>4, <2>5 DEF PollStep, ServerDispatch, ClientDispatch
<1>. QED BY <1>3, <1>4, CalmWithout, UnchangedDoesNotLeak DEF StaysCalm, LeakInv

(* The top task is replaced by calm ones.                                  *)
LEMMA ReplacedCalmly ==
    ASSUME LeakInv, todo # <<>>, NEW tasks \in Seq(Tasks), AllCalm(tasks), ReplaceBy(tasks)
    PROVE  CalmAboveErasers(todo')
<1>1. Tail(todo) \in Seq(Tasks) /\ CalmAboveErasers(Tail(todo))
  BY TodoIsStack, CalmTail DEF LeakInv
<1>. QED BY <1>1, CalmConcat DEF ReplaceBy

LEMMA CloseLeaksNone == ASSUME LeakInv, Close PROVE StaysCalm
<1> DEFINE obj == Head(todo).obj
<1>1. todo # <<>> /\ obj \in Live /\ obj \in Ptrs /\ KernelInv /\ NoDescriptorLeak
  BY CloseStack DEF Close, Running, LeakInv, Inv, KernelInv
<1>2. CASE ReplaceBy(<<>>) /\ UNCHANGED <<open, objects>>
  BY <1>1, <1>2, ReplacedCalmly, ShortStacks, UnchangedDoesNotLeak DEF StaysCalm
<1>3. CASE BaseClose(obj) /\ ReplaceBy(ClosedTasks(obj))
  <2>1. ClosedTasks(obj) \in Seq(Tasks) /\ AllCalm(ClosedTasks(obj))
    <3>1. CASE obj \notin UserSockets
      <4>1. PICK hook \in {"CLOSED", "DISCONNECT"} :
                ClosedTasks(obj) = <<HookTask(hook, obj), EraseTask(obj)>>
        BY <1>1, <3>1, ClosedListRuns
      <4> DEFINE s == <<HookTask(hook, obj), EraseTask(obj)>>
      <4>2. /\ HookTask(hook, obj) \in Tasks /\ Calm(HookTask(hook, obj))
            /\ EraseTask(obj) \in Tasks /\ Calm(EraseTask(obj))
        <5>1. hook \in Hooks /\ hook \in EndHooks
          BY DEF Hooks, ServerHooks, CommonHooks, EndHooks
        <5>. QED BY <1>1, <5>1, TaskFacts DEF Ordinary, Tasks, Calm, EraseTask
      <4>3. /\ s \in Seq(Tasks) /\ Len(s) = 2
            /\ s[1] = HookTask(hook, obj) /\ s[2] = EraseTask(obj)
        BY <4>2
      <4> HIDE DEF s
      <4>4. \A i \in 1 .. Len(s) : i = 1 \/ i = 2
        BY <4>3
      <4>5. AllCalm(s)
        BY <4>2, <4>3, <4>4 DEF AllCalm
      <4>. QED BY <4>1, <4>3, <4>5 DEF s
    <3>2. CASE obj \in UserSockets
      <4>1. PICK hook \in {"SOCKET_CLOSED", "UDP_CLOSED"} :
                ClosedTasks(obj) = <<HookTask(hook, obj)>>
        BY <1>1, <3>2, ClosedListRuns
      <4>2. hook \in Hooks /\ hook \in EndHooks
        BY DEF Hooks, BasicHooks, UdpHooks, EndHooks
      <4>. QED BY <1>1, <4>1, <4>2, TaskFacts, ShortStacks
    <3>. QED BY <3>1, <3>2
  <2>2. CalmAboveErasers(todo')
    BY <1>1, <1>3, <2>1, ReplacedCalmly
  <2>3. NoDescriptorLeak'
    BY <1>1, <1>3, ClosedDoesNotLeak
  <2>. QED BY <2>2, <2>3 DEF StaysCalm
<1>. QED BY <1>2, <1>3 DEF Close

LEMMA EraseLeaksNone == ASSUME LeakInv, Erase PROVE StaysCalm
<1> DEFINE obj == Head(todo).obj
<1>1. /\ todo # <<>> /\ Head(todo).do = "erase" /\ Below(todo, Closed, Drained)
      /\ KernelInv /\ NoDescriptorLeak
  BY RunningStack DEF Erase, Running, LeakInv, Inv
<1>2. obj \in Closed
  BY <1>1, FirstTask DEF BelowAt
<1>3. NoDescriptorLeak'
  BY <1>1, <1>2, ErasedDoesNotLeak DEF Erase
<1>4. CalmAboveErasers(todo')
  BY <1>1, ReplacedCalmly, ShortStacks DEF Erase
<1>. QED BY <1>3, <1>4 DEF StaysCalm

LEMMA DrainLeaksNone == ASSUME LeakInv, Drain PROVE StaysCalm
<1> DEFINE container == Head(todo).container
<1>1. /\ todo # <<>> /\ Head(todo).do = "drain" /\ Below(todo, Closed, Drained)
      /\ KernelInv /\ NoDescriptorLeak /\ CalmAboveErasers(todo) /\ todo \in Seq(Tasks)
  BY RunningStack, TodoIsStack DEF Drain, Running, LeakInv, Inv
<1>2. container \in {Listeners, Clients, Connections}
  BY <1>1, FirstTask, TaskKinds
<1>3. NoDescriptorLeak'
  BY <1>1, UnchangedDoesNotLeak DEF Drain
<1>4. CASE Sockets(container) = {}
  BY <1>1, <1>3, <1>4, ReplacedCalmly, ShortStacks DEF Drain, StaysCalm
<1>5. CASE Sockets(container) # {}
  <2>1. Begin(container) \in Ptrs
    BY <1>1, <1>2, <1>5, BeginIsLive DEF KernelInv
  <2>2. /\ <<CloseTask(Begin(container))>> \in Seq(Tasks)
        /\ AllCalm(<<CloseTask(Begin(container))>>)
    BY <2>1, TaskFacts, ShortStacks
  <2>3. todo' = <<CloseTask(Begin(container))>> \o todo
    BY <1>5 DEF Drain
  <2>4. CalmAboveErasers(todo')
    BY <1>1, <2>2, <2>3, CalmConcat
  <2>. QED BY <1>3, <2>4 DEF StaysCalm
<1>. QED BY <1>4, <1>5

(* accept() runs on an empty stack.                                        *)
LEMMA AcceptLeaksNone == ASSUME LeakInv, ServerStep PROVE StaysCalm
<1>1. PICK obj \in Ptrs \ Live : Accept(obj)
  BY DEF ServerStep
<1>2. /\ Running("accept") /\ MakeSocket(Clients, obj, "DISCONNECT")
      /\ todo' = <<HookTask("ACCEPT", obj)>> \o Tail(todo)
  BY <1>1 DEF Accept, ReplaceBy
<1>3. todo = <<AcceptTask>>
  BY <1>2, AcceptStack DEF Inv, LeakInv
<1>4. CalmAboveErasers(todo')
  <2>1. "ACCEPT" \in Hooks
    BY DEF Hooks, ServerHooks
  <2>2. NoEraser(<<HookTask("ACCEPT", obj)>>) /\ <<HookTask("ACCEPT", obj)>> \in Seq(Tasks)
    BY <2>1, TaskFacts, ShortStacks
  <2>3. todo' = <<HookTask("ACCEPT", obj)>>
    BY <1>2, <1>3, <2>2, ConcatEmptySeq
  <2>. QED BY <2>2, <2>3, CalmWithout
<1>5. NoDescriptorLeak'
  BY <1>2, MadeDoesNotLeak DEF LeakInv
<1>. QED BY <1>4, <1>5 DEF StaysCalm

LEMMA BoundLeaksNone == ASSUME LeakInv, UdpBound PROVE StaysCalm
<1>1. /\ todo # <<>> /\ Head(todo).do = "bound" /\ Below(todo, Closed, Drained)
      /\ UNCHANGED <<open, objects>>
  BY RunningStack DEF UdpBound, Running, LeakInv, Inv
<1>2. Head(todo).obj \in Ptrs
  BY <1>1, FirstTask, TaskKinds
<1>3. "BIND" \in Hooks /\ "BIND" \in EndHooks
  BY DEF Hooks, UdpHooks, EndHooks
<1>4. PICK tasks \in Seq(Tasks) : AllCalm(tasks) /\ ReplaceBy(tasks)
  BY <1>2, <1>3, TaskFacts, ShortStacks DEF UdpBound
<1>5. CalmAboveErasers(todo')
  BY <1>1, <1>4, ReplacedCalmly
<1>. QED BY <1>1, <1>5, UnchangedDoesNotLeak DEF StaysCalm, LeakInv

LEMMA NextLeaksNone ==
    ASSUME LeakInv, ClosingOpensNothing, [Next]_vars PROVE LeakInv'
<1>1. CASE UserStep
  <2>1. ASSUME NEW obj \in Live, UserClose(obj) PROVE StaysCalm
    <3>1. obj \in Ptrs
      BY DEF LeakInv, Inv, KernelInv
    <3>. QED BY <2>1, <3>1, ProperCalls, UserCallsCalmly, UnchangedDoesNotLeak
             DEF UserClose, StaysCalm, LeakInv
  <2>2. StaysCalm
    BY <1>1, <2>1, ServerCallsLeakNone, ClientCallsLeakNone, SocketCallsLeakNone DEF UserStep
  <2>. QED BY <2>2, NextInv DEF LeakInv, StaysCalm
<1>2. CASE PollStep
  BY <1>2, PollStepLeaksNone, NextInv DEF LeakInv, StaysCalm
<1>3. CASE LibraryStep
  <2>1. StaysCalm
    BY <1>3, CloseLeaksNone, EraseLeaksNone, DrainLeaksNone, AcceptLeaksNone, BoundLeaksNone
       DEF LibraryStep
  <2>. QED BY <2>1, NextInv DEF LeakInv, StaysCalm
<1>4. CASE HookReturns
  <2>1. todo # <<>> /\ ReplaceBy(<<>>) /\ UNCHANGED <<open, objects>>
    BY <1>4 DEF HookReturns, Running
  <2>2. CalmAboveErasers(todo')
    BY <2>1, ReplacedCalmly, ShortStacks
  <2>3. NoDescriptorLeak'
    BY <2>1, UnchangedDoesNotLeak DEF LeakInv
  <2>. QED BY <2>2, <2>3, NextInv DEF LeakInv
<1>5. CASE UNCHANGED vars
  <2>1. todo' = todo /\ UNCHANGED <<open, objects>>
    BY <1>5 DEF vars, lifeVars
  <2>2. NoDescriptorLeak'
    BY <2>1, UnchangedDoesNotLeak DEF LeakInv
  <2>. QED BY <2>1, <2>2, NextInv DEF LeakInv
<1>. QED BY <1>1, <1>2, <1>3, <1>4, <1>5 DEF Next

THEOREM AlwaysLeakInv == ASSUME ClosingOpensNothing PROVE Spec => []LeakInv
<1>1. Init => LeakInv
  <2>. SUFFICES ASSUME Init PROVE LeakInv
    OBVIOUS
  <2>1. todo = <<>> /\ open = {}
    BY DEF Init, ContainerInit
  <2>. QED BY <2>1, InitInv, ShortStacks, CalmWithout DEF LeakInv, NoDescriptorLeak
<1>2. LeakInv /\ [Next]_vars => LeakInv'
  BY NextLeaksNone
<1>. QED BY <1>1, <1>2, PTL DEF Spec

(* Every descriptor that socket_base::open or ::accept got belongs to an   *)
(* object, in programs whose hooks neither listen nor connect while a      *)
(* socket is being closed.                                                 *)
THEOREM NothingLeaks ==
    ASSUME ClosingOpensNothing PROVE Spec => []NoDescriptorLeak
<1>1. LeakInv => NoDescriptorLeak
  BY DEF LeakInv
<1>. QED BY <1>1, AlwaysLeakInv, PTL

(* "insert error, should not happen unless socket was not previously       *)
(* deleted": in those programs it does not.                                *)
THEOREM InsertDoesNotFail ==
    ASSUME ClosingOpensNothing PROVE Spec => InsertNeverFails
<1>1. LeakInv /\ [Next]_vars => [~ListenNotInserted /\ ~ConnectNotInserted]_vars
  BY NoFailedInsert DEF LeakInv
<1>. QED BY <1>1, AlwaysLeakInv, PTL DEF Spec, InsertNeverFails

=============================================================================

------------------------- MODULE DetExecutorsProofs -------------------------
(***************************************************************************)
(* Theorems about the two same-thread executors, for any threads and any   *)
(* tasks, finitely many or not: one loop a thread, no task inside another, *)
(* no thread that waits on itself, and every step is one a serial executor *)
(* could take, or none.                                                    *)
(***************************************************************************)
EXTENDS DetExecutors, SequenceTheorems, TLAPS

(* The stack of one thread: its own code is at the bottom, and nowhere     *)
(* else.                                                                   *)
Bottom(s) ==
  /\ s # <<>> /\ s[1].kind = "main"
  /\ \A i \in 2..Len(s) : s[i].kind # "main"

(* The task a loop runs is right above the loop, and nothing else is.      *)
LoopRuns(s) ==
  \A i \in 1..(Len(s) - 1) : s[i].kind = "drain" <=> s[i + 1].kind = "queued"

OneDrain(s) ==
  \A i, j \in 1..Len(s) : s[i].kind = "drain" /\ s[j].kind = "drain" => i = j

HasTasks(s, U) ==
  \A i \in 1..Len(s) : s[i].kind \in {"queued", "direct"} => s[i].task \in U

Shape(s, U) == Bottom(s) /\ LoopRuns(s) /\ OneDrain(s) /\ HasTasks(s, U)

(* A frame joins the task of the direct call above it, or what is done by  *)
(* now, or nothing.                                                        *)
Joins(s, D) ==
  /\ \A i \in 1..(Len(s) - 1) :
       s[i].joins \in D \cup {None} \cup
                      {x \in {s[i + 1].task} : s[i + 1].kind = "direct"}
  /\ s[Len(s)].joins \in D \cup {None}

Loops(s) == {i \in 1..Len(s) : s[i].kind = "drain"}

(* The flag is the loop, a queue without a loop is empty, and what waits   *)
(* in it was submitted.                                                    *)
Flag(t) ==
  /\ draining[t] <=> Loops(stack[t]) # {}
  /\ queue[t] # <<>> => draining[t]
  /\ queue[t] \in Seq(used)

IInv == TypeOK /\ \A t \in Thread : Shape(stack[t], used) /\ Joins(stack[t], done) /\ Flag(t)

-----------------------------------------------------------------------------
(* What a call and a return do to the frames of a stack.                   *)

LEMMA Pushed ==
  ASSUME NEW s \in Seq(Frame), NEW f \in Frame
  PROVE  /\ Push(s, f) \in Seq(Frame)
         /\ Len(Push(s, f)) = Len(s) + 1
         /\ \A i \in 1..Len(s) : Push(s, f)[i] = s[i]
         /\ Push(s, f)[Len(s) + 1] = f
BY DEF Push

LEMMA Popped ==
  ASSUME NEW s \in Seq(Frame), s # <<>>
  PROVE  /\ Pop(s) \in Seq(Frame)
         /\ Len(Pop(s)) = Len(s) - 1
         /\ \A i \in 1..(Len(s) - 1) : Pop(s)[i] = s[i]
<1>1. Len(s) \in Nat /\ Len(s) - 1 \in Nat /\ \A i \in 1..(Len(s) - 1) : s[i] \in Frame
  OBVIOUS
<1>2. /\ SubSeq(s, 1, Len(s) - 1) \in Seq(Frame)
      /\ Len(SubSeq(s, 1, Len(s) - 1)) = IF 1 <= Len(s) - 1 THEN (Len(s) - 1) - 1 + 1 ELSE 0
      /\ \A i \in 1..((Len(s) - 1) - 1 + 1) : SubSeq(s, 1, Len(s) - 1)[i] = s[1 + i - 1]
  BY <1>1, SubSeqProperties
<1>3. \A n \in Nat : n - 1 + 1 = n /\ (~ 1 <= n => n = 0)
  OBVIOUS
<1>4. \A i \in Int : 1 + i - 1 = i
  OBVIOUS
<1>5. (Len(s) - 1) - 1 + 1 = Len(s) - 1 /\ Len(SubSeq(s, 1, Len(s) - 1)) = Len(s) - 1
  BY <1>1, <1>2, <1>3
<1> QED BY <1>2, <1>4, <1>5 DEF Pop

LEMMA TopJoins ==
  ASSUME NEW s \in Seq(Frame), s # <<>>, NEW x \in Task
  PROVE  LET r == [s EXCEPT ![Len(s)].joins = x]
         IN /\ r \in Seq(Frame) /\ r # <<>> /\ Len(r) = Len(s)
            /\ \A i \in 1..(Len(s) - 1) : r[i] = s[i]
            /\ r[Len(s)].kind = s[Len(s)].kind /\ r[Len(s)].task = s[Len(s)].task
            /\ r[Len(s)].joins = x
<1> DEFINE r == [s EXCEPT ![Len(s)].joins = x]
<1>1. Len(s) \in 1..Len(s) /\ s \in [1..Len(s) -> Frame] /\ Len(s) \in Nat
  OBVIOUS
<1>2. [s[Len(s)] EXCEPT !.joins = x] \in Frame
  BY <1>1 DEF Frame
<1>3. r = [i \in 1..Len(s) |-> IF i = Len(s) THEN [s[Len(s)] EXCEPT !.joins = x] ELSE s[i]]
  BY <1>1
<1>4. r \in [1..Len(s) -> Frame]
  BY <1>1, <1>2, <1>3
<1>5. r \in Seq(Frame) /\ Len(r) = Len(s)
  BY <1>1, <1>4
<1>6. s[Len(s)] \in Frame
  BY <1>1
<1>7. r[Len(s)] = [s[Len(s)] EXCEPT !.joins = x]
  BY <1>1, <1>3
<1>8. r # <<>>
  BY <1>1, <1>5
<1>9. \A i \in 1..(Len(s) - 1) : r[i] = s[i]
  BY <1>1, <1>3
<1> QED BY <1>5, <1>6, <1>7, <1>8, <1>9 DEF Frame

(* Nothing changes a stack but a call, with or without a join, and a       *)
(* return.                                                                 *)
LEMMA Typed == ASSUME NEW kind \in {"main", "drain", "queued", "direct"},
                      NEW x \in Task \cup {None}
               PROVE  Call(kind, x) \in Frame /\ Call(kind, x).kind = kind
                      /\ Call(kind, x).task = x /\ Call(kind, x).joins = None
BY DEF Call, Frame

LEMMA LoopPushed ==
  ASSUME NEW s \in Seq(Frame), NEW D, NEW U, Shape(s, U), Joins(s, D), Loops(s) = {},
         s[Len(s)].kind # "drain"
  PROVE  LET r == Push(s, Call("drain", None))
         IN Shape(r, U) /\ Joins(r, D) /\ Loops(r) # {}
<1> DEFINE f == Call("drain", None)  r == Push(s, f)
<1>1. f \in Frame /\ f.kind = "drain" /\ f.joins = None
  BY Typed
<1> HIDE DEF f
<1>2. /\ Len(r) = Len(s) + 1 /\ r[Len(s) + 1] = f
      /\ \A i \in 1..Len(s) : r[i] = s[i]
  BY <1>1, Pushed
<1>3. r \in Seq(Frame)
  BY <1>1, Pushed
<1>4. Len(s) \in Nat \ {0} /\ Len(r) \in Nat
  BY <1>3 DEF Shape, Bottom
<1> HIDE DEF r
<1>5. Shape(r, U)
  <2>1. Bottom(r)
    BY <1>1, <1>2, <1>3, <1>4 DEF Shape, Bottom
  <2>2. LoopRuns(r)
    BY <1>1, <1>2, <1>3, <1>4 DEF Shape, LoopRuns, Bottom
  <2>3. OneDrain(r)
    BY <1>1, <1>2, <1>3, <1>4 DEF Shape, OneDrain, Loops
  <2>4. HasTasks(r, U)
    BY <1>1, <1>2, <1>3, <1>4 DEF Shape, HasTasks
  <2> QED BY <2>1, <2>2, <2>3, <2>4 DEF Shape
<1>6. Joins(r, D)
  BY <1>1, <1>2, <1>4 DEF Joins
<1>7. Loops(r) # {}
  BY <1>1, <1>2, <1>4 DEF Loops
<1> QED BY <1>5, <1>6, <1>7 DEF r, f

LEMMA TaskPushed ==
  ASSUME NEW s \in Seq(Frame), NEW D, NEW U, Shape(s, U), Joins(s, D), NEW x \in Task \cap U,
         s[Len(s)].kind = "drain"
  PROVE  LET r == Push(s, Call("queued", x))
         IN Shape(r, U) /\ Joins(r, D) /\ (Loops(r) = {} <=> Loops(s) = {})
<1> DEFINE f == Call("queued", x)  r == Push(s, f)
<1>1. f \in Frame /\ f.kind = "queued" /\ f.joins = None /\ f.task = x
  BY Typed
<1> HIDE DEF f
<1>2. /\ Len(r) = Len(s) + 1 /\ r[Len(s) + 1] = f
      /\ \A i \in 1..Len(s) : r[i] = s[i]
  BY <1>1, Pushed
<1>3. r \in Seq(Frame)
  BY <1>1, Pushed
<1>4. Len(s) \in Nat \ {0} /\ Len(r) \in Nat
  BY <1>3 DEF Shape, Bottom
<1> HIDE DEF r
<1>5. Shape(r, U)
  <2>1. Bottom(r)
    BY <1>1, <1>2, <1>3, <1>4 DEF Shape, Bottom
  <2>2. LoopRuns(r)
    BY <1>1, <1>2, <1>3, <1>4 DEF Shape, LoopRuns, Bottom
  <2>3. OneDrain(r)
    BY <1>1, <1>2, <1>3, <1>4 DEF Shape, OneDrain, Loops
  <2>4. HasTasks(r, U)
    BY <1>1, <1>2, <1>3, <1>4 DEF Shape, HasTasks
  <2> QED BY <2>1, <2>2, <2>3, <2>4 DEF Shape
<1>6. Joins(r, D)
  BY <1>1, <1>2, <1>4 DEF Joins
<1>7. Loops(r) = {} <=> Loops(s) = {}
  BY <1>1, <1>2, <1>4 DEF Loops
<1> QED BY <1>5, <1>6, <1>7 DEF r, f

LEMMA DirectPushed ==
  ASSUME NEW s \in Seq(Frame), NEW D, NEW U, Shape(s, U), Joins(s, D), NEW x \in Task \cap U,
         s[Len(s)].kind # "drain"
  PROVE  LET r == Push([s EXCEPT ![Len(s)].joins = x], Call("direct", x))
         IN Shape(r, U) /\ Joins(r, D) /\ (Loops(r) = {} <=> Loops(s) = {})
<1> DEFINE f == Call("direct", x)  q == [s EXCEPT ![Len(s)].joins = x]  r == Push(q, f)
<1>1. f \in Frame /\ f.kind = "direct" /\ f.joins = None /\ f.task = x
  BY Typed
<1>2. /\ q \in Seq(Frame) /\ Len(q) = Len(s)
      /\ \A i \in 1..(Len(s) - 1) : q[i] = s[i]
      /\ q[Len(s)].kind = s[Len(s)].kind /\ q[Len(s)].task = s[Len(s)].task
      /\ q[Len(s)].joins = x
  BY TopJoins DEF Shape, Bottom
<1> HIDE DEF f, q
<1>3. /\ Len(r) = Len(s) + 1 /\ r[Len(s) + 1] = f
      /\ \A i \in 1..Len(s) : r[i] = q[i]
  <2>1. /\ Len(r) = Len(q) + 1 /\ r[Len(q) + 1] = f
        /\ \A i \in 1..Len(q) : r[i] = q[i]
    BY <1>1, <1>2, Pushed
  <2> QED BY <2>1, <1>2
<1>4. r \in Seq(Frame)
  BY <1>1, <1>2, Pushed
<1>5. Len(s) \in Nat \ {0} /\ Len(r) \in Nat
  BY <1>4 DEF Shape, Bottom
<1> HIDE DEF r
<1>6. \A i \in 1..Len(s) : r[i].kind = s[i].kind /\ r[i].task = s[i].task
  BY <1>2, <1>3, <1>5
<1>7. Shape(r, U)
  <2>1. Bottom(r)
    BY <1>1, <1>3, <1>4, <1>5, <1>6 DEF Shape, Bottom
  <2>2. LoopRuns(r)
    BY <1>1, <1>3, <1>4, <1>5, <1>6 DEF Shape, LoopRuns, Bottom
  <2>3. OneDrain(r)
    BY <1>1, <1>3, <1>4, <1>5, <1>6 DEF Shape, OneDrain, Loops
  <2>4. HasTasks(r, U)
    BY <1>1, <1>3, <1>4, <1>5, <1>6 DEF Shape, HasTasks
  <2> QED BY <2>1, <2>2, <2>3, <2>4 DEF Shape
<1>8. Joins(r, D)
  BY <1>1, <1>2, <1>3, <1>5 DEF Joins
<1>9. Loops(r) = {} <=> Loops(s) = {}
  BY <1>1, <1>3, <1>5, <1>6 DEF Loops
<1> QED BY <1>7, <1>8, <1>9 DEF r, q, f

LEMMA LoopPopped ==
  ASSUME NEW s \in Seq(Frame), NEW D, NEW U, Shape(s, U), Joins(s, D),
         s[Len(s)].kind = "drain"
  PROVE  LET r == Pop(s)
         IN Shape(r, U) /\ Joins(r, D) /\ Loops(r) = {} /\ Loops(s) # {}
<1> DEFINE r == Pop(s)
<1>1. s # <<>> /\ s[1].kind = "main"
  BY DEF Shape, Bottom
<1>2. /\ Len(r) = Len(s) - 1
      /\ \A i \in 1..(Len(s) - 1) : r[i] = s[i]
  BY <1>1, Popped
<1>3. r \in Seq(Frame)
  BY <1>1, Popped
<1>4. Len(s) \in Nat /\ Len(s) >= 2 /\ Len(r) \in Nat \ {0}
  <2>1. Len(s) \in Nat /\ Len(s) # 0 /\ Len(s) # 1
    BY <1>1
  <2> QED BY <2>1, <1>2
<1> HIDE DEF r
<1>5. Shape(r, U)
  <2>1. Bottom(r)
    BY <1>2, <1>3, <1>4 DEF Shape, Bottom
  <2>2. LoopRuns(r)
    BY <1>2, <1>3, <1>4 DEF Shape, LoopRuns
  <2>3. OneDrain(r)
    BY <1>2, <1>3, <1>4 DEF Shape, OneDrain
  <2>4. HasTasks(r, U)
    BY <1>2, <1>3, <1>4 DEF Shape, HasTasks
  <2> QED BY <2>1, <2>2, <2>3, <2>4 DEF Shape
<1>6. Joins(r, D)
  <2>1. \A i \in 1..(Len(r) - 1) : r[i] = s[i] /\ r[i + 1] = s[i + 1] /\ i \in 1..(Len(s) - 1)
    BY <1>2, <1>4
  <2>2. r[Len(r)] = s[Len(s) - 1] /\ Len(s) - 1 \in 1..(Len(s) - 1)
    BY <1>2, <1>4
  <2>3. s[Len(s) - 1].joins \in D \cup {None}
    BY <2>2, <1>4 DEF Joins
  <2> QED BY <2>1, <2>2, <2>3 DEF Joins
<1>7. Loops(r) = {} /\ Loops(s) # {}
  BY <1>2, <1>4 DEF Loops, Shape, OneDrain
<1> QED BY <1>5, <1>6, <1>7 DEF r

LEMMA TaskPopped ==
  ASSUME NEW s \in Seq(Frame), NEW D, NEW U, Shape(s, U), Joins(s, D),
         s[Len(s)].kind \in {"queued", "direct"}
  PROVE  LET r == Pop(s)
         IN /\ Shape(r, U) /\ Joins(r, D \cup {s[Len(s)].task})
            /\ (Loops(r) = {} <=> Loops(s) = {})
<1> DEFINE r == Pop(s)
<1>1. s # <<>> /\ s[1].kind = "main"
  BY DEF Shape, Bottom
<1>2. /\ Len(r) = Len(s) - 1
      /\ \A i \in 1..(Len(s) - 1) : r[i] = s[i]
  BY <1>1, Popped
<1>3. r \in Seq(Frame)
  BY <1>1, Popped
<1>4. Len(s) \in Nat /\ Len(s) >= 2 /\ Len(r) \in Nat \ {0}
  <2>1. Len(s) \in Nat /\ Len(s) # 0 /\ Len(s) # 1
    BY <1>1
  <2> QED BY <2>1, <1>2
<1> HIDE DEF r
<1>5. Shape(r, U)
  <2>1. Bottom(r)
    BY <1>2, <1>3, <1>4 DEF Shape, Bottom
  <2>2. LoopRuns(r)
    BY <1>2, <1>3, <1>4 DEF Shape, LoopRuns
  <2>3. OneDrain(r)
    BY <1>2, <1>3, <1>4 DEF Shape, OneDrain
  <2>4. HasTasks(r, U)
    BY <1>2, <1>3, <1>4 DEF Shape, HasTasks
  <2> QED BY <2>1, <2>2, <2>3, <2>4 DEF Shape
<1>6. Joins(r, D \cup {s[Len(s)].task})
  <2>1. \A i \in 1..(Len(r) - 1) : r[i] = s[i] /\ r[i + 1] = s[i + 1] /\ i \in 1..(Len(s) - 1)
    BY <1>2, <1>4
  <2>2. r[Len(r)] = s[Len(s) - 1] /\ Len(s) - 1 \in 1..(Len(s) - 1) /\ (Len(s) - 1) + 1 = Len(s)
    BY <1>2, <1>4
  <2>3. s[Len(s) - 1].joins \in D \cup {s[Len(s)].task} \cup {None}
    BY <2>2, <1>4 DEF Joins
  <2> QED BY <2>1, <2>2, <2>3 DEF Joins
<1>7. Loops(r) = {} <=> Loops(s) = {}
  BY <1>2, <1>4 DEF Loops
<1> QED BY <1>5, <1>6, <1>7 DEF r

-----------------------------------------------------------------------------
(* The innermost frame.                                                    *)
LEMMA TopOfTheStack ==
  ASSUME IInv, NEW t \in Thread
  PROVE  /\ stack[t] \in Seq(Frame) /\ stack[t] # <<>>
         /\ Depth(t) \in Nat \ {0} /\ Top(t) = stack[t][Len(stack[t])]
         /\ Top(t) \in Frame
<1>1. stack[t] \in Seq(Frame) /\ stack[t] # <<>>
  BY DEF IInv, TypeOK, Shape, Bottom
<1> QED BY <1>1 DEF Depth, Top

LEMMA InitHolds == Init => IInv
<1> SUFFICES ASSUME Init PROVE IInv
  OBVIOUS
<1>1. /\ Call("main", None) \in Frame /\ Call("main", None).kind = "main"
      /\ Call("main", None).joins = None
  BY Typed
<1>2. ASSUME NEW t \in Thread PROVE Shape(stack[t], used) /\ Joins(stack[t], done) /\ Flag(t)
  <2>1. /\ Len(stack[t]) = 1 /\ stack[t] # <<>> /\ stack[t][1] = Call("main", None)
        /\ draining[t] = FALSE /\ queue[t] = <<>>
    BY DEF Init
  <2>2. Bottom(stack[t]) /\ LoopRuns(stack[t]) /\ OneDrain(stack[t]) /\ HasTasks(stack[t], used)
    BY <1>1, <2>1 DEF Bottom, LoopRuns, OneDrain, HasTasks
  <2>3. Joins(stack[t], done)
    BY <1>1, <2>1 DEF Joins
  <2>4. Flag(t)
    BY <1>1, <2>1 DEF Flag, Loops
  <2> QED BY <2>2, <2>3, <2>4 DEF Shape
<1>3. TypeOK
  BY <1>1 DEF Init, TypeOK
<1> QED BY <1>2, <1>3 DEF IInv

-----------------------------------------------------------------------------
(* The steps.  A step is one thread's; the others only see that more tasks *)
(* are done.                                                               *)
LEMMA OneThread ==
  ASSUME IInv, TypeOK', NEW t \in Thread, done \subseteq done', used \subseteq used',
         Shape(stack'[t], used'), Joins(stack'[t], done'), Flag(t)',
         \A u \in Thread \ {t} : /\ stack'[u] = stack[u]
                                 /\ queue'[u] = queue[u] /\ draining'[u] = draining[u]
  PROVE  IInv'
<1>1. ASSUME NEW u \in Thread \ {t}
      PROVE  Shape(stack'[u], used') /\ Joins(stack'[u], done') /\ Flag(u)'
  <2>1. Shape(stack[u], used) /\ Joins(stack[u], done) /\ Flag(u)
    BY DEF IInv
  <2>2. Joins(stack[u], done') /\ Shape(stack[u], used')
    BY <2>1 DEF Joins, Shape, HasTasks
  <2>3. queue[u] \in Seq(used')
    BY <2>1 DEF Flag
  <2> QED BY <2>1, <2>2, <2>3 DEF Flag
<1> QED BY <1>1 DEF IInv

LEMMA MoreUsed ==
  ASSUME NEW s, NEW U, NEW V, U \subseteq V, Shape(s, U)
  PROVE  Shape(s, V)
BY DEF Shape, HasTasks

LEMMA SubmitHolds ==
  ASSUME IInv, NEW t \in Thread, NEW x \in Task, Submit(t, x)
  PROVE  IInv'
<1> DEFINE s == stack[t]
<1>1. /\ queue' = [queue EXCEPT ![t] = Append(@, x)] /\ done' = done /\ used' = used \cup {x}
      /\ Top(t).kind # "drain"
      /\ IF draining[t] THEN draining' = draining /\ stack' = stack
         ELSE /\ draining' = [draining EXCEPT ![t] = TRUE]
              /\ stack' = [stack EXCEPT ![t] = Push(@, Call("drain", None))]
  BY DEF Submit, Acting, runHere
<1>2. TypeOK /\ s \in Seq(Frame) /\ Shape(s, used') /\ Joins(s, done) /\ Flag(t) /\ s[Len(s)].kind # "drain"
  BY <1>1, TopOfTheStack, MoreUsed DEF IInv
<1>3. /\ queue' \in [Thread -> Seq(Task)] /\ queue'[t] # <<>> /\ queue'[t] \in Seq(used')
      /\ done' \subseteq used' /\ used' \subseteq Task /\ used \subseteq used' /\ x \in used'
  <2>1. queue[t] \in Seq(used') /\ x \in used'
    BY <1>1, <1>2 DEF Flag
  <2>2. queue'[t] = Append(queue[t], x)
    BY <1>1, <1>2 DEF TypeOK
  <2>3. queue'[t] # <<>> /\ queue'[t] \in Seq(used')
    BY <2>1, <2>2, AppendProperties
  <2> QED BY <1>1, <1>2, <2>3 DEF TypeOK
<1>4. CASE draining[t]
  <2>1. draining' = draining /\ stack' = stack
    BY <1>1, <1>4
  <2>2. TypeOK'
    BY <1>2, <1>3, <2>1 DEF TypeOK
  <2>3. Flag(t)'
    BY <1>2, <1>3, <1>4, <2>1 DEF Flag
  <2> QED BY <1>1, <1>2, <1>3, <2>1, <2>2, <2>3, OneThread DEF TypeOK
<1>5. CASE ~draining[t]
  <2>1. Loops(s) = {}
    BY <1>2, <1>5 DEF Flag
  <2>2. LET r == Push(s, Call("drain", None))
        IN Shape(r, used') /\ Joins(r, done) /\ Loops(r) # {} /\ r \in Seq(Frame)
    BY <1>2, <2>1, LoopPushed, Typed, Pushed
  <2>3. /\ draining' = [draining EXCEPT ![t] = TRUE]
        /\ stack' = [stack EXCEPT ![t] = Push(s, Call("drain", None))]
    BY <1>1, <1>5
  <2>4. TypeOK'
    BY <1>2, <1>3, <2>2, <2>3 DEF TypeOK
  <2>5. stack'[t] = Push(s, Call("drain", None)) /\ draining'[t] = TRUE
    BY <1>2, <2>3 DEF TypeOK
  <2>6. Flag(t)'
    BY <1>3, <2>2, <2>5 DEF Flag
  <2>7. \A u \in Thread \ {t} : /\ stack'[u] = stack[u]
                                /\ queue'[u] = queue[u] /\ draining'[u] = draining[u]
    BY <1>1, <1>2, <2>3 DEF TypeOK
  <2> QED BY <1>1, <1>3, <2>2, <2>4, <2>5, <2>6, <2>7, OneThread
<1> QED BY <1>4, <1>5

LEMMA JoinHolds ==
  ASSUME IInv, NEW t \in Thread, NEW x \in Task, SupplyAndJoin(t, x)
  PROVE  IInv'
<1> DEFINE s == stack[t]
           q == [s EXCEPT ![Len(s)].joins = x]
           r == Push(q, Call("direct", x))
<1>1. /\ stack' = [stack EXCEPT ![t] = r] /\ used' = used \cup {x}
      /\ queue' = queue /\ draining' = draining /\ done' = done /\ Top(t).kind # "drain"
  BY DEF SupplyAndJoin, Acting, executeDirect
<1>2. /\ TypeOK /\ s \in Seq(Frame) /\ s # <<>> /\ Shape(s, used') /\ Joins(s, done) /\ Flag(t)
      /\ s[Len(s)].kind # "drain"
  BY <1>1, TopOfTheStack, MoreUsed DEF IInv
<1>3. Shape(r, used') /\ Joins(r, done) /\ (Loops(r) = {} <=> Loops(s) = {})
  BY <1>1, <1>2, DirectPushed
<1>4. r \in Seq(Frame)
  BY <1>2, TopJoins, Typed, Pushed
<1> HIDE DEF r
<1>5. stack'[t] = r
  BY <1>1, <1>2 DEF TypeOK
<1>6. TypeOK'
  BY <1>1, <1>2, <1>4 DEF TypeOK
<1>7. Flag(t)'
  BY <1>1, <1>2, <1>3, <1>5 DEF Flag
<1>8. \A u \in Thread \ {t} : /\ stack'[u] = stack[u]
                              /\ queue'[u] = queue[u] /\ draining'[u] = draining[u]
  BY <1>1, <1>2 DEF TypeOK
<1> QED BY <1>1, <1>3, <1>5, <1>6, <1>7, <1>8, OneThread

LEMMA RunHolds ==
  ASSUME IInv, NEW t \in Thread, RunNext(t)
  PROVE  IInv'
<1> DEFINE s == stack[t]
           x == Head(queue[t])
           r == Push(s, Call("queued", x))
<1>1. /\ stack' = [stack EXCEPT ![t] = r] /\ used' = used /\ done' = done
      /\ queue' = [queue EXCEPT ![t] = Tail(@)] /\ draining' = draining
      /\ Top(t).kind = "drain" /\ queue[t] # <<>>
  BY DEF RunNext
<1>2. /\ TypeOK /\ s \in Seq(Frame) /\ Shape(s, used') /\ Joins(s, done) /\ Flag(t)
      /\ s[Len(s)].kind = "drain"
  BY <1>1, TopOfTheStack, MoreUsed DEF IInv
<1>3. x \in Task \cap used' /\ Tail(queue[t]) \in Seq(Task) /\ Tail(queue[t]) \in Seq(used')
  BY <1>1, <1>2 DEF TypeOK, Flag
<1>4. Shape(r, used') /\ Joins(r, done) /\ (Loops(r) = {} <=> Loops(s) = {})
  BY <1>2, <1>3, TaskPushed
<1>5. r \in Seq(Frame)
  BY <1>2, <1>3, Typed, Pushed
<1> HIDE DEF r
<1>6. stack'[t] = r
  BY <1>1, <1>2 DEF TypeOK
<1>7. TypeOK'
  BY <1>1, <1>2, <1>3, <1>5 DEF TypeOK
<1>8. Flag(t)'
  <2>1. queue'[t] = Tail(queue[t])
    BY <1>1, <1>2 DEF TypeOK
  <2> QED BY <1>1, <1>2, <1>3, <1>4, <1>6, <2>1 DEF Flag
<1>9. \A u \in Thread \ {t} : /\ stack'[u] = stack[u]
                              /\ queue'[u] = queue[u] /\ draining'[u] = draining[u]
  BY <1>1, <1>2 DEF TypeOK
<1> QED BY <1>1, <1>4, <1>6, <1>7, <1>8, <1>9, OneThread

LEMMA LoopEndHolds ==
  ASSUME IInv, NEW t \in Thread, LoopEnds(t)
  PROVE  IInv'
<1> DEFINE s == stack[t]
           r == Pop(s)
<1>1. /\ stack' = [stack EXCEPT ![t] = r] /\ used' = used /\ done' = done
      /\ queue' = queue /\ draining' = [draining EXCEPT ![t] = FALSE]
      /\ Top(t).kind = "drain" /\ queue[t] = <<>>
  BY DEF LoopEnds
<1>2. /\ TypeOK /\ s \in Seq(Frame) /\ s # <<>> /\ Shape(s, used') /\ Joins(s, done) /\ Flag(t)
      /\ s[Len(s)].kind = "drain"
  BY <1>1, TopOfTheStack, MoreUsed DEF IInv
<1>3. Shape(r, used') /\ Joins(r, done) /\ Loops(r) = {}
  BY <1>2, LoopPopped
<1>4. r \in Seq(Frame)
  BY <1>2, Popped
<1> HIDE DEF r
<1>5. stack'[t] = r /\ draining'[t] = FALSE
  BY <1>1, <1>2 DEF TypeOK
<1>6. TypeOK'
  BY <1>1, <1>2, <1>4 DEF TypeOK
<1>7. Flag(t)'
  BY <1>1, <1>2, <1>3, <1>5 DEF Flag
<1>8. \A u \in Thread \ {t} : /\ stack'[u] = stack[u]
                              /\ queue'[u] = queue[u] /\ draining'[u] = draining[u]
  BY <1>1, <1>2 DEF TypeOK
<1> QED BY <1>1, <1>3, <1>5, <1>6, <1>7, <1>8, OneThread

LEMMA ReturnHolds ==
  ASSUME IInv, NEW t \in Thread, Return(t) \/ Throw(t)
  PROVE  IInv'
<1> DEFINE s == stack[t]
           r == Pop(s)
<1>1. /\ stack' = [stack EXCEPT ![t] = r] /\ used' = used /\ done' = done \cup {Top(t).task}
      /\ queue' = queue /\ draining' = draining
      /\ Top(t).kind \in {"queued", "direct"}
  BY DEF Return, Throw
<1>2. /\ TypeOK /\ s \in Seq(Frame) /\ s # <<>> /\ Shape(s, used') /\ Joins(s, done) /\ Flag(t)
      /\ s[Len(s)].kind \in {"queued", "direct"} /\ Top(t) = s[Len(s)]
  BY <1>1, TopOfTheStack, MoreUsed DEF IInv
<1>3. Shape(r, used') /\ Joins(r, done') /\ (Loops(r) = {} <=> Loops(s) = {})
  BY <1>1, <1>2, TaskPopped
<1>4. r \in Seq(Frame)
  BY <1>2, Popped
<1>5. Top(t).task \in used
  BY <1>1, <1>2, TopOfTheStack DEF IInv, Shape, HasTasks
<1> HIDE DEF r
<1>6. stack'[t] = r
  BY <1>1, <1>2 DEF TypeOK
<1>7. TypeOK'
  BY <1>1, <1>2, <1>4, <1>5 DEF TypeOK
<1>8. Flag(t)'
  BY <1>1, <1>2, <1>3, <1>6 DEF Flag
<1>9. \A u \in Thread \ {t} : /\ stack'[u] = stack[u]
                              /\ queue'[u] = queue[u] /\ draining'[u] = draining[u]
  BY <1>1, <1>2 DEF TypeOK
<1> QED BY <1>1, <1>3, <1>6, <1>7, <1>8, <1>9, OneThread

LEMMA StutterHolds ==
  ASSUME IInv, UNCHANGED vars
  PROVE  IInv'
BY DEF vars, IInv, TypeOK, Flag

LEMMA Invariance == Spec => []IInv
<1>1. IInv /\ [Next]_vars => IInv'
  BY SubmitHolds, JoinHolds, RunHolds, LoopEndHolds, ReturnHolds, StutterHolds
     DEF Next, Quiescent
<1> QED BY <1>1, InitHolds, PTL DEF Spec

(* Every variable has its type.                                            *)
THEOREM TypeCorrect == Spec => []TypeOK
<1>1. IInv => TypeOK
  BY DEF IInv
<1> QED BY <1>1, Invariance, PTL

(* The trampoline: the flag says that the thread is in its one loop, a     *)
(* queued task is never run inside another, and when control is back at a  *)
(* frame, what it joined is complete.                                      *)
LEMMA WhatItImplies ==
  ASSUME IInv
  PROVE  TrampolineHolds
<1> SUFFICES ASSUME NEW t \in Thread
             PROVE  /\ draining[t] <=> FramesOf(t, "drain") # {}
                    /\ \A i, j \in FramesOf(t, "drain") : i = j
                    /\ queue[t] # <<>> => draining[t]
                    /\ \A i, j \in FramesOf(t, "queued") : i = j
                    /\ Top(t).joins \in done \cup {None}
  BY DEF TrampolineHolds, OneLoop, DepthStaysAtOne, NeverJoinsItself
<1>1. Shape(stack[t], used) /\ Joins(stack[t], done) /\ Flag(t)
  BY DEF IInv
<1>2. FramesOf(t, "drain") = Loops(stack[t])
  BY DEF FramesOf, Loops, Depth
<1>3. \A i, j \in Loops(stack[t]) : i = j
  BY <1>1 DEF Shape, OneDrain, Loops
<1>4. ASSUME NEW i \in FramesOf(t, "queued")
      PROVE  i - 1 \in Loops(stack[t]) /\ i \in Nat
  <2>1. i \in 1..Len(stack[t]) /\ stack[t][i].kind = "queued" /\ Len(stack[t]) \in Nat
    BY TopOfTheStack DEF FramesOf, Depth
  <2>2. i # 1
    BY <1>1, <2>1 DEF Shape, Bottom
  <2>3. i - 1 \in 1..(Len(stack[t]) - 1) /\ (i - 1) + 1 = i
    BY <2>1, <2>2
  <2>4. stack[t][i - 1].kind = "drain"
    BY <1>1, <2>1, <2>3 DEF Shape, LoopRuns
  <2> QED BY <2>1, <2>3, <2>4 DEF Loops
<1>5. ASSUME NEW i \in FramesOf(t, "queued"), NEW j \in FramesOf(t, "queued")
      PROVE  i = j
  <2>1. i - 1 = j - 1
    BY <1>3, <1>4
  <2> QED BY <1>4, <2>1
<1>6. Top(t).joins \in done \cup {None}
  BY <1>1, TopOfTheStack DEF Joins
<1> QED BY <1>1, <1>2, <1>3, <1>5, <1>6 DEF Flag

(* However the tasks of any threads nest their submissions, throw and      *)
(* join: one loop per thread, no queued task inside another, and no frame  *)
(* that waits for a future only its own thread could complete (runHere).   *)
THEOREM Trampoline == Spec => []TrampolineHolds
BY WhatItImplies, Invariance, PTL

-----------------------------------------------------------------------------
(* The refinement.  What a thread is running is the task of the one queued *)
(* frame, wherever it is in the stack.                                     *)
Queued(s) == {i \in 1..Len(s) : s[i].kind = "queued"}

TaskOf(s) == IF Queued(s) = {} THEN None ELSE s[CHOOSE i \in Queued(s) : TRUE].task

(* A queued frame is right above the loop, so there is at most one, and    *)
(* none while the loop is on top.                                          *)
LEMMA OneQueued ==
  ASSUME NEW s \in Seq(Frame), NEW U, Shape(s, U)
  PROVE  /\ \A i, j \in Queued(s) : i = j
         /\ s[Len(s)].kind = "drain" => Queued(s) = {}
         /\ \A i \in Queued(s) : TaskOf(s) = s[i].task /\ TaskOf(s) \in U
<1>1. Len(s) \in Nat
  OBVIOUS
<1>2. ASSUME NEW i \in Queued(s)
      PROVE  i - 1 \in Loops(s) /\ i \in Nat /\ i <= Len(s) /\ i - 1 < Len(s)
  <2>1. i \in 1..Len(s) /\ s[i].kind = "queued"
    BY DEF Queued
  <2>2. i # 1
    BY <2>1 DEF Shape, Bottom
  <2>3. i - 1 \in 1..(Len(s) - 1) /\ (i - 1) + 1 = i
    BY <1>1, <2>1, <2>2
  <2>4. s[i - 1].kind = "drain"
    BY <2>1, <2>3 DEF Shape, LoopRuns
  <2> QED BY <1>1, <2>1, <2>3, <2>4 DEF Loops
<1>3. \A i, j \in Loops(s) : i = j
  BY DEF Shape, OneDrain, Loops
<1>4. ASSUME NEW i \in Queued(s), NEW j \in Queued(s)
      PROVE  i = j
  <2>1. i - 1 = j - 1
    BY <1>2, <1>3
  <2> QED BY <1>2, <2>1
<1>5. ASSUME s[Len(s)].kind = "drain", NEW i \in Queued(s)
      PROVE  FALSE
  <2>1. Len(s) \in Loops(s)
    BY <1>1, <1>5, <1>2 DEF Loops
  <2> QED BY <1>1, <1>2, <1>3, <2>1
<1>6. ASSUME NEW i \in Queued(s)
      PROVE  TaskOf(s) = s[i].task /\ TaskOf(s) \in U
  <2>1. (CHOOSE j \in Queued(s) : TRUE) = i
    BY <1>4
  <2>2. s[i].task \in U
    BY DEF Queued, Shape, HasTasks
  <2> QED BY <2>1, <2>2 DEF TaskOf
<1> QED BY <1>4, <1>5, <1>6

LEMMA SameQueued ==
  ASSUME NEW s \in Seq(Frame), NEW r \in Seq(Frame), NEW U, Shape(s, U), Shape(r, U),
         Queued(s) = Queued(r), \A i \in Queued(s) : s[i].task = r[i].task
  PROVE  TaskOf(s) = TaskOf(r)
<1>1. CASE Queued(s) = {}
  BY <1>1 DEF TaskOf
<1>2. CASE Queued(s) # {}
  BY <1>2, OneQueued
<1> QED BY <1>1, <1>2

(* What each step does to the running task of its thread.                  *)
LEMMA LoopStartsNothing ==
  ASSUME NEW s \in Seq(Frame), NEW D, NEW U, Shape(s, U), Joins(s, D), Loops(s) = {},
         s[Len(s)].kind # "drain"
  PROVE  TaskOf(Push(s, Call("drain", None))) = TaskOf(s)
<1> DEFINE f == Call("drain", None)  r == Push(s, f)
<1>1. f \in Frame /\ f.kind = "drain"
  BY Typed
<1>2. Shape(r, U)
  BY LoopPushed
<1> HIDE DEF f
<1>3. /\ r \in Seq(Frame) /\ Len(r) = Len(s) + 1 /\ r[Len(s) + 1] = f
      /\ \A i \in 1..Len(s) : r[i] = s[i]
  BY <1>1, Pushed
<1> HIDE DEF r
<1>4. Queued(s) = Queued(r) /\ \A i \in Queued(s) : s[i].task = r[i].task
  BY <1>1, <1>3 DEF Queued
<1> QED BY <1>2, <1>3, <1>4, SameQueued DEF r, f

LEMMA LoopBeginsTask ==
  ASSUME NEW s \in Seq(Frame), NEW D, NEW U, Shape(s, U), Joins(s, D), NEW x \in Task \cap U,
         s[Len(s)].kind = "drain"
  PROVE  TaskOf(s) = None /\ TaskOf(Push(s, Call("queued", x))) = x
<1> DEFINE f == Call("queued", x)  r == Push(s, f)
<1>1. f \in Frame /\ f.kind = "queued" /\ f.task = x
  BY Typed
<1>2. Shape(r, U)
  BY TaskPushed
<1> HIDE DEF f
<1>3. /\ r \in Seq(Frame) /\ Len(r) = Len(s) + 1 /\ r[Len(s) + 1] = f
  BY <1>1, Pushed
<1> HIDE DEF r
<1>4. Len(r) \in Queued(r)
  BY <1>1, <1>3 DEF Queued
<1>5. TaskOf(r) = x
  BY <1>1, <1>2, <1>3, <1>4, OneQueued
<1>6. TaskOf(s) = None
  BY OneQueued DEF TaskOf
<1> QED BY <1>5, <1>6 DEF r, f

LEMMA DirectChangesNothing ==
  ASSUME NEW s \in Seq(Frame), NEW D, NEW U, Shape(s, U), Joins(s, D), NEW x \in Task \cap U,
         s[Len(s)].kind # "drain"
  PROVE  TaskOf(Push([s EXCEPT ![Len(s)].joins = x], Call("direct", x))) = TaskOf(s)
<1> DEFINE f == Call("direct", x)  q == [s EXCEPT ![Len(s)].joins = x]  r == Push(q, f)
<1>1. f \in Frame /\ f.kind = "direct"
  BY Typed
<1>2. /\ q \in Seq(Frame) /\ Len(q) = Len(s) /\ Len(s) \in Nat
      /\ \A i \in 1..(Len(s) - 1) : q[i] = s[i]
      /\ q[Len(s)].kind = s[Len(s)].kind /\ q[Len(s)].task = s[Len(s)].task
  BY TopJoins DEF Shape, Bottom
<1>3. Shape(r, U)
  BY DirectPushed
<1> HIDE DEF f, q
<1>4. /\ r \in Seq(Frame) /\ Len(r) = Len(q) + 1 /\ r[Len(q) + 1] = f
      /\ \A i \in 1..Len(q) : r[i] = q[i]
  BY <1>1, <1>2, Pushed
<1> HIDE DEF r
<1>5. \A i \in 1..Len(s) : r[i].kind = s[i].kind /\ r[i].task = s[i].task
  BY <1>2, <1>4
<1>6. Queued(s) = Queued(r) /\ \A i \in Queued(s) : s[i].task = r[i].task
  BY <1>1, <1>2, <1>4, <1>5 DEF Queued
<1> QED BY <1>3, <1>4, <1>6, SameQueued DEF r, f, q

LEMMA LoopStopsNothing ==
  ASSUME NEW s \in Seq(Frame), NEW D, NEW U, Shape(s, U), Joins(s, D),
         s[Len(s)].kind = "drain"
  PROVE  TaskOf(Pop(s)) = TaskOf(s)
<1> DEFINE r == Pop(s)
<1>1. s # <<>>
  BY DEF Shape, Bottom
<1>2. /\ r \in Seq(Frame) /\ Len(r) = Len(s) - 1
      /\ \A i \in 1..(Len(s) - 1) : r[i] = s[i]
  BY <1>1, Popped
<1>3. Shape(r, U)
  BY LoopPopped
<1> HIDE DEF r
<1>4. Queued(s) = Queued(r) /\ \A i \in Queued(s) : s[i].task = r[i].task
  BY <1>1, <1>2 DEF Queued
<1> QED BY <1>2, <1>3, <1>4, SameQueued DEF r

LEMMA ReturnEndsTask ==
  ASSUME NEW s \in Seq(Frame), NEW D, NEW U, U \subseteq Task, Shape(s, U), Joins(s, D),
         s[Len(s)].kind \in {"queued", "direct"}
  PROVE  \/ TaskOf(Pop(s)) = TaskOf(s)
         \/ TaskOf(s) # None /\ TaskOf(Pop(s)) = None
<1> DEFINE r == Pop(s)
<1>1. s # <<>> /\ Len(s) \in Nat \ {0}
  BY DEF Shape, Bottom
<1>2. /\ r \in Seq(Frame) /\ Len(r) = Len(s) - 1
      /\ \A i \in 1..(Len(s) - 1) : r[i] = s[i]
  BY <1>1, Popped
<1>3. Shape(r, U)
  BY TaskPopped
<1> HIDE DEF r
<1>4. CASE s[Len(s)].kind = "direct"
  <2>1. Queued(s) = Queued(r) /\ \A i \in Queued(s) : s[i].task = r[i].task
    BY <1>1, <1>2, <1>4 DEF Queued
  <2> QED BY <1>2, <1>3, <2>1, SameQueued DEF r
<1>5. CASE s[Len(s)].kind = "queued"
  <2>1. Len(s) \in Queued(s)
    BY <1>1, <1>5 DEF Queued
  <2>2. TaskOf(s) # None
    BY <2>1, OneQueued, NoneAssumption
  <2>3. Queued(r) = {}
    <3> SUFFICES ASSUME NEW i \in Queued(r) PROVE FALSE
      OBVIOUS
    <3>1. i \in Queued(s) /\ i # Len(s)
      BY <1>1, <1>2 DEF Queued
    <3> QED BY <2>1, <3>1, OneQueued
  <2> QED BY <2>2, <2>3 DEF TaskOf, r
<1> QED BY <1>4, <1>5

-----------------------------------------------------------------------------
Running == [t \in Thread |-> RunningQueued(t)]

(* If a step changes one stack, only that thread's task may change.        *)
LEMMA OnlyOne ==
  ASSUME IInv, NEW t \in Thread, NEW r, stack' = [stack EXCEPT ![t] = r]
  PROVE  Running' = [Running EXCEPT ![t] = TaskOf(r)] /\ Running[t] = TaskOf(stack[t])
<1>1. stack'[t] = r /\ \A u \in Thread \ {t} : stack'[u] = stack[u]
  BY DEF IInv, TypeOK
<1>2. \A u \in Thread : RunningQueued(u) = TaskOf(stack[u]) /\ RunningQueued(u)' = TaskOf(stack'[u])
  BY DEF RunningQueued, TaskOf, FramesOf, Queued, Depth
<1> QED BY <1>1, <1>2 DEF Running

LEMMA InitRefines == Init => Serial!Init
<1> SUFFICES ASSUME Init PROVE Serial!Init
  OBVIOUS
<1>1. ASSUME NEW t \in Thread PROVE RunningQueued(t) = None
  <2>1. Len(stack[t]) = 1 /\ stack[t][1].kind = "main"
    BY DEF Init, Call
  <2> QED BY <2>1 DEF RunningQueued, FramesOf, Depth
<1> QED BY <1>1 DEF Init, Serial!Init

LEMMA SubmitRefines ==
  ASSUME IInv, NEW t \in Thread, NEW x \in Task, Submit(t, x)
  PROVE  Serial!Give(t, x)
<1> DEFINE s == stack[t]
<1>1. /\ queue' = [queue EXCEPT ![t] = Append(@, x)] /\ Top(t).kind # "drain"
      /\ \/ draining[t] /\ stack' = stack
         \/ ~draining[t] /\ stack' = [stack EXCEPT ![t] = Push(s, Call("drain", None))]
  BY DEF Submit, Acting, runHere
<1>2. s \in Seq(Frame) /\ Shape(s, used) /\ Joins(s, done) /\ Flag(t) /\ s[Len(s)].kind # "drain"
  BY <1>1, TopOfTheStack DEF IInv
<1>3. CASE draining[t]
  <2>1. stack' = stack
    BY <1>1, <1>3
  <2>2. Running' = Running
    BY <2>1 DEF Running, RunningQueued, FramesOf, Depth
  <2> QED BY <1>1, <2>2 DEF Serial!Give, Running
<1>4. CASE ~draining[t]
  <2>1. Loops(s) = {}
    BY <1>2, <1>4 DEF Flag
  <2>2. TaskOf(Push(s, Call("drain", None))) = TaskOf(s)
    BY <1>2, <2>1, LoopStartsNothing
  <2>3. Running' = [Running EXCEPT ![t] = TaskOf(s)] /\ Running[t] = TaskOf(s)
    BY <1>1, <1>4, <2>2, OnlyOne
  <2>4. Running' = Running
    BY <2>3 DEF Running
  <2> QED BY <1>1, <2>4 DEF Serial!Give, Running
<1> QED BY <1>3, <1>4

LEMMA JoinRefines ==
  ASSUME IInv, NEW t \in Thread, NEW x \in Task, SupplyAndJoin(t, x)
  PROVE  UNCHANGED Serial!vars
<1> DEFINE s == stack[t]
           r == Push([s EXCEPT ![Len(s)].joins = x], Call("direct", x))
<1>1. stack' = [stack EXCEPT ![t] = r] /\ queue' = queue /\ Top(t).kind # "drain"
  BY DEF SupplyAndJoin, Acting, executeDirect
<1>2. s \in Seq(Frame) /\ Shape(s, used \cup {x}) /\ Joins(s, done) /\ s[Len(s)].kind # "drain"
  BY <1>1, TopOfTheStack, MoreUsed DEF IInv
<1>3. TaskOf(r) = TaskOf(s)
  BY <1>2, DirectChangesNothing
<1> HIDE DEF r
<1>4. Running' = [Running EXCEPT ![t] = TaskOf(s)] /\ Running[t] = TaskOf(s)
  BY <1>1, <1>3, OnlyOne
<1>5. Running' = Running
  BY <1>4 DEF Running
<1> QED BY <1>1, <1>5 DEF Serial!vars, Running

LEMMA RunRefines ==
  ASSUME IInv, NEW t \in Thread, RunNext(t)
  PROVE  Serial!Begin(t)
<1> DEFINE s == stack[t]
           x == Head(queue[t])
           r == Push(s, Call("queued", x))
<1>1. /\ stack' = [stack EXCEPT ![t] = r] /\ queue' = [queue EXCEPT ![t] = Tail(@)]
      /\ Top(t).kind = "drain" /\ queue[t] # <<>>
  BY DEF RunNext
<1>2. /\ s \in Seq(Frame) /\ Shape(s, used) /\ Joins(s, done) /\ Flag(t)
      /\ s[Len(s)].kind = "drain" /\ used \subseteq Task
  BY <1>1, TopOfTheStack DEF IInv, TypeOK
<1>3. x \in Task \cap used
  BY <1>1, <1>2 DEF Flag
<1>4. TaskOf(s) = None /\ TaskOf(r) = x
  BY <1>2, <1>3, LoopBeginsTask
<1> HIDE DEF r, x
<1>5. Running' = [Running EXCEPT ![t] = x] /\ Running[t] = None
  BY <1>1, <1>4, OnlyOne
<1> QED BY <1>1, <1>5 DEF Serial!Begin, Running, x

LEMMA LoopEndRefines ==
  ASSUME IInv, NEW t \in Thread, LoopEnds(t)
  PROVE  UNCHANGED Serial!vars
<1> DEFINE s == stack[t]  r == Pop(s)
<1>1. stack' = [stack EXCEPT ![t] = r] /\ queue' = queue /\ Top(t).kind = "drain"
  BY DEF LoopEnds
<1>2. s \in Seq(Frame) /\ Shape(s, used) /\ Joins(s, done) /\ s[Len(s)].kind = "drain"
  BY <1>1, TopOfTheStack DEF IInv
<1>3. TaskOf(r) = TaskOf(s)
  BY <1>2, LoopStopsNothing
<1> HIDE DEF r
<1>4. Running' = [Running EXCEPT ![t] = TaskOf(s)] /\ Running[t] = TaskOf(s)
  BY <1>1, <1>3, OnlyOne
<1>5. Running' = Running
  BY <1>4 DEF Running
<1> QED BY <1>1, <1>5 DEF Serial!vars, Running

LEMMA ReturnRefines ==
  ASSUME IInv, NEW t \in Thread, Return(t) \/ Throw(t)
  PROVE  Serial!End(t) \/ UNCHANGED Serial!vars
<1> DEFINE s == stack[t]  r == Pop(s)
<1>1. /\ stack' = [stack EXCEPT ![t] = r] /\ queue' = queue
      /\ Top(t).kind \in {"queued", "direct"}
  BY DEF Return, Throw
<1>2. /\ s \in Seq(Frame) /\ Shape(s, used) /\ Joins(s, done) /\ used \subseteq Task
      /\ s[Len(s)].kind \in {"queued", "direct"}
  BY <1>1, TopOfTheStack DEF IInv, TypeOK
<1>3. TaskOf(r) = TaskOf(s) \/ (TaskOf(s) # None /\ TaskOf(r) = None)
  BY <1>2, ReturnEndsTask
<1> HIDE DEF r
<1>4. Running' = [Running EXCEPT ![t] = TaskOf(r)] /\ Running[t] = TaskOf(s)
  BY <1>1, OnlyOne
<1>5. CASE TaskOf(r) = TaskOf(s)
  <2>1. Running' = Running
    BY <1>4, <1>5 DEF Running
  <2> QED BY <1>1, <2>1 DEF Serial!vars, Running
<1>6. CASE TaskOf(s) # None /\ TaskOf(r) = None
  BY <1>1, <1>4, <1>6 DEF Serial!End, Running
<1> QED BY <1>3, <1>5, <1>6

(* The executor detmc gives the chunk pipeline is a serial one: whatever   *)
(* the tasks submit, join or throw, each thread runs what it was given one *)
(* at a time, in that order.  That it gets through all of it is fairness,  *)
(* and the run's.                                                          *)
THEOREM RunsSerially == Spec => Serial!Init /\ [][Serial!Next]_(Serial!vars)
<1>1. IInv /\ [Next]_vars => [Serial!Next]_(Serial!vars)
  <2> SUFFICES ASSUME IInv, [Next]_vars PROVE Serial!Next \/ UNCHANGED Serial!vars
    OBVIOUS
  <2>1. ASSUME NEW t \in Thread, NEW x \in Task, Submit(t, x)
        PROVE  Serial!Next
    BY <2>1, SubmitRefines DEF Serial!Next
  <2>2. ASSUME NEW t \in Thread, NEW x \in Task, SupplyAndJoin(t, x)
        PROVE  UNCHANGED Serial!vars
    BY <2>2, JoinRefines
  <2>3. ASSUME NEW t \in Thread, RunNext(t)
        PROVE  Serial!Next
    BY <2>3, RunRefines DEF Serial!Next
  <2>4. ASSUME NEW t \in Thread, LoopEnds(t)
        PROVE  UNCHANGED Serial!vars
    BY <2>4, LoopEndRefines
  <2>5. ASSUME NEW t \in Thread, Return(t) \/ Throw(t)
        PROVE  Serial!Next \/ UNCHANGED Serial!vars
    BY <2>5, ReturnRefines DEF Serial!Next
  <2>6. CASE UNCHANGED vars
    BY <2>6 DEF vars, Serial!vars, RunningQueued, FramesOf, Depth
  <2> QED BY <2>1, <2>2, <2>3, <2>4, <2>5, <2>6 DEF Next, Quiescent
<1> QED BY <1>1, InitRefines, Invariance, PTL DEF Spec
=============================================================================

----------------------------- MODULE TaskProof -----------------------------
(***************************************************************************)
(* The scheduler is correct for any number of tasks: its lists agree, the  *)
(* CPU runs on memory that is still allocated, no memory leaks, and it     *)
(* implements the round-robin queue of Sched.                              *)
(***************************************************************************)
EXTENDS Task, SequenceTheorems, FiniteSetTheorems, TLAPS

-----------------------------------------------------------------------------
(* The inductive invariant *)

States == {"NONE", "READY", "RUNNING", "DEAD"}
Stacks == {<<>>, <<"timer">>, <<"syscall">>, <<"syscall", "timer">>}

\* The variables of the lists.  task_kill spares the kernel task because its
\* pid is 1, so it is always there to be switched to.
ListInv ==
  /\ ready_list \in Seq(AllTasks) /\ current \in AllTasks
  /\ state \in [AllTasks -> States]
  /\ pid \in [AllTasks -> Nat] /\ next_pid \in Nat \ {0, 1}
  /\ IsFiniteSet(all_tasks_list)
  /\ ListsAgree
  /\ NoTaskLeak
  /\ (EcxHoldsCr3 => cr3 = current) /\ esp0 = current
  /\ pid[Kernel] = 1 /\ state[Kernel] \in {"READY", "RUNNING"}

\* Interrupts are off in the timer handler, and stay off in one that was left
\* by a switch: a stack whose top frame is the timer's gets no other frame.
Masked ==
  \A t \in AllTasks :
    frames[t] \in {<<"timer">>, <<"syscall", "timer">>} =>
      IF t = current THEN ~iflag ELSE ~flags[t]

FlagInv ==
  /\ iflag \in BOOLEAN /\ flags \in [AllTasks -> BOOLEAN]
  /\ frames \in [AllTasks -> Stacks]
  /\ Masked
  /\ ~hung

Inv == ListInv /\ FlagInv

-----------------------------------------------------------------------------
(* Lists.  A list is a sequence without repetitions.                       *)

\* list_add_tail of a node that is on no list.
LEMMA AddTail ==
  ASSUME NEW T, NEW s \in Seq(T), IsInjective(s), NEW t \in T, t \notin Range(s)
  PROVE  /\ list_add_tail(s, t) \in Seq(T)
         /\ IsInjective(list_add_tail(s, t))
         /\ Range(list_add_tail(s, t)) = Range(s) \cup {t}
<1> DEFINE a == Append(s, t)
<1>1. /\ a \in Seq(T) /\ Len(a) = Len(s) + 1 /\ Len(s) \in Nat
      /\ DOMAIN s = 1 .. Len(s) /\ DOMAIN a = 1 .. Len(s) + 1
      /\ \A i \in 1 .. Len(s) : a[i] = s[i]
      /\ a[Len(s) + 1] = t
  BY AppendProperties, LenProperties
<1> HIDE DEF a
<1>2. \A i \in 1 .. Len(s) : s[i] # t
  BY <1>1 DEF Range
<1>3. IsInjective(a)
  BY <1>1, <1>2 DEF IsInjective
<1>4. Range(a) = Range(s) \cup {t}
  BY <1>1 DEF Range
<1> QED
  BY <1>1, <1>3, <1>4 DEF list_add_tail, a

\* The first node of a list, and the list without it.
LEMMA TakeHead ==
  ASSUME NEW T, NEW s \in Seq(T), IsInjective(s), s # <<>>
  PROVE  /\ Head(s) \in Range(s)
         /\ Tail(s) \in Seq(T)
         /\ IsInjective(Tail(s))
         /\ Range(Tail(s)) = Range(s) \ {Head(s)}
         /\ <<Head(s)>> \o Tail(s) = s
<1> DEFINE r == Tail(s)
           n == Len(s)
<1>1. /\ n \in Nat \ {0} /\ DOMAIN s = 1 .. n /\ s \in [1 .. n -> T]
      /\ r \in Seq(T) /\ Len(r) = n - 1 /\ DOMAIN r = 1 .. n - 1
      /\ \A i \in 1 .. n - 1 : r[i] = s[i + 1]
  BY EmptySeq, LenProperties, HeadTailProperties
<1>2. Head(s) = s[1]
  BY <1>1
<1> HIDE DEF r, n
<1>3. IsInjective(r)
  BY <1>1 DEF IsInjective
<1>4. Range(r) \subseteq Range(s) \ {s[1]}
  BY <1>1 DEF Range, IsInjective
<1>5. Range(s) \ {s[1]} \subseteq Range(r)
  <2> SUFFICES ASSUME NEW i \in 1 .. n, s[i] # s[1] PROVE s[i] \in Range(r)
    BY <1>1 DEF Range
  <2>1. i - 1 \in 1 .. n - 1 /\ s[i] = r[i - 1]
    BY <1>1
  <2> QED
    BY <1>1, <2>1 DEF Range
<1>6. <<Head(s)>> \o r = s
  BY <1>1, <1>2 DEF r, n
<1>7. s[1] \in Range(s)
  BY <1>1 DEF Range
<1> QED
  BY <1>1, <1>2, <1>3, <1>4, <1>5, <1>6, <1>7 DEF r

\* A sequence without its i-th element.
LEMMA SeqWithout ==
  ASSUME NEW T, NEW s \in Seq(T), NEW i \in 1 .. Len(s)
  PROVE  /\ S!Without(s, i) \in Seq(T)
         /\ Len(S!Without(s, i)) = Len(s) - 1
         /\ \A j \in 1 .. Len(s) - 1 :
              S!Without(s, i)[j] = IF j < i THEN s[j] ELSE s[j + 1]
<1> DEFINE n == Len(s)
           l == SubSeq(s, 1, i - 1)
           r == SubSeq(s, i + 1, n)
<1>1. n \in Nat /\ i \in 1 .. n /\ s \in [1 .. n -> T]
  BY LenProperties
<1> HIDE DEF n
<1>2. l \in Seq(T) /\ Len(l) = i - 1 /\ \A j \in 1 .. i - 1 : l[j] = s[j]
  <2>1. \A j \in 1 .. i - 1 : s[j] \in T
    BY <1>1
  <2> QED
    BY <1>1, <2>1
<1>3. r \in Seq(T) /\ Len(r) = n - i /\ \A j \in 1 .. n - i : r[j] = s[i + j]
  <2>1. \A j \in i + 1 .. n : s[j] \in T
    BY <1>1
  <2> QED
    BY <1>1, <2>1
<1> HIDE DEF l, r
<1>4. /\ l \o r \in Seq(T) /\ Len(l \o r) = Len(l) + Len(r)
      /\ \A j \in 1 .. Len(l) + Len(r) :
           (l \o r)[j] = IF j <= Len(l) THEN l[j] ELSE r[j - Len(l)]
  BY <1>2, <1>3, ConcatProperties, Zenon
<1>5. Len(l) + Len(r) = n - 1
  BY <1>1, <1>2, <1>3
<1>6. ASSUME NEW j \in 1 .. n - 1
      PROVE  (l \o r)[j] = IF j < i THEN s[j] ELSE s[j + 1]
  <2>1. CASE j < i
    BY <1>1, <1>2, <1>4, <1>5, <2>1
  <2>2. CASE j >= i
    <3>1. /\ j \in 1 .. Len(l) + Len(r) /\ ~(j <= Len(l))
          /\ j - Len(l) \in 1 .. n - i /\ i + (j - Len(l)) = j + 1
      <4>1. Len(l) = i - 1
        BY <1>2
      <4> QED
        BY <1>1, <1>5, <2>2, <4>1
    <3>2. (l \o r)[j] = r[j - Len(l)]
      BY <1>4, <3>1
    <3>3. r[j - Len(l)] = s[i + (j - Len(l))]
      BY <1>3, <3>1
    <3>4. ~(j < i)
      BY <1>1, <2>2
    <3> QED
      BY <3>1, <3>2, <3>3, <3>4
  <2>3. j < i \/ j >= i
    BY <1>1
  <2> QED
    BY <2>1, <2>2, <2>3, Zenon
<1>7. S!Without(s, i) = l \o r
  BY DEF S!Without, l, r, n
<1> QED
  BY <1>4, <1>5, <1>6, <1>7 DEF n

\* list_del of a node that is on the list.
LEMMA Del ==
  ASSUME NEW T, NEW s \in Seq(T), IsInjective(s), NEW t \in Range(s)
  PROVE  /\ list_del(s, t) \in Seq(T)
         /\ IsInjective(list_del(s, t))
         /\ Range(list_del(s, t)) = Range(s) \ {t}
         /\ \E i \in 1 .. Len(s) : s[i] = t /\ list_del(s, t) = S!Without(s, i)
<1> DEFINE i == CHOOSE j \in DOMAIN s : s[j] = t
           n == Len(s)
           d == [j \in 1 .. n - 1 |-> IF j < i THEN s[j] ELSE s[j + 1]]
<1>1. list_del(s, t) = d
  BY DEF list_del
<1>2. n \in Nat /\ DOMAIN s = 1 .. n /\ s \in [1 .. n -> T]
  BY LenProperties
<1>3. i \in 1 .. n /\ s[i] = t
  BY <1>2 DEF Range
<1>4. /\ S!Without(s, i) \in Seq(T) /\ Len(S!Without(s, i)) = n - 1
      /\ \A j \in 1 .. n - 1 : S!Without(s, i)[j] = IF j < i THEN s[j] ELSE s[j + 1]
  BY <1>3, SeqWithout, Zenon
<1> HIDE DEF i, n
<1>5. \A j \in 1 .. n : j # i => s[j] # t
  BY <1>2, <1>3 DEF IsInjective
<1>6. d \in [1 .. n - 1 -> T]
  BY <1>2, <1>3
<1>7. d \in Seq(T) /\ Len(d) = n - 1 /\ DOMAIN d = 1 .. n - 1
  BY <1>2, <1>3, <1>6
<1>8. IsInjective(d)
  <2> SUFFICES ASSUME NEW a \in 1 .. n - 1, NEW b \in 1 .. n - 1, d[a] = d[b]
               PROVE  a = b
    BY <1>7 DEF IsInjective
  <2>1. \A p, q \in 1 .. n : s[p] = s[q] => p = q
    BY <1>2 DEF IsInjective
  <2> QED
    BY <1>2, <1>3, <2>1
<1>9. Range(d) \subseteq Range(s) \ {t}
  BY <1>2, <1>3, <1>5, <1>7 DEF Range
<1>10. Range(s) \ {t} \subseteq Range(d)
  <2> SUFFICES ASSUME NEW j \in 1 .. n, s[j] # t PROVE s[j] \in Range(d)
    BY <1>2 DEF Range
  <2>1. CASE j < i
    BY <1>2, <1>3, <1>7, <2>1 DEF Range
  <2>2. CASE j > i
    <3>1. j - 1 \in 1 .. n - 1 /\ d[j - 1] = s[j]
      BY <1>2, <1>3, <2>2
    <3> QED
      BY <1>7, <3>1 DEF Range
  <2> QED
    BY <1>3, <2>1, <2>2
<1>11. d = S!Without(s, i)
  <2>1. \A j \in 1 .. n - 1 : d[j] = S!Without(s, i)[j]
    BY <1>4
  <2> HIDE DEF d
  <2> QED
    BY <1>4, <1>7, <2>1, SeqEqual
<1> QED
  BY <1>1, <1>3, <1>7, <1>8, <1>9, <1>10, <1>11, Zenon DEF n

\* The queue of Sched: the running task in front of the ready list.
LEMMA Queue ==
  ASSUME NEW T, NEW c \in T, NEW s \in Seq(T)
  PROVE  /\ <<c>> \o s \in Seq(T) /\ Len(<<c>> \o s) = Len(s) + 1
         /\ (<<c>> \o s)[1] = c
         /\ \A i \in 1 .. Len(s) : (<<c>> \o s)[i + 1] = s[i]
<1>1. <<c>> \in Seq(T) /\ Len(<<c>>) = 1 /\ <<c>>[1] = c /\ Len(s) \in Nat
  BY LenProperties
<1> QED
  BY <1>1, ConcatProperties

\* Its head and its tail.
LEMMA QueueEnds ==
  ASSUME NEW T, NEW c \in T, NEW s \in Seq(T)
  PROVE  Head(<<c>> \o s) = c /\ Tail(<<c>> \o s) = s
<1> DEFINE q == <<c>> \o s
<1>1. /\ q \in Seq(T) /\ Len(q) = Len(s) + 1 /\ q[1] = c
      /\ \A i \in 1 .. Len(s) : q[i + 1] = s[i]
  BY Queue
<1>2. Len(s) \in Nat
  BY LenProperties
<1> HIDE DEF q
<1>3. q # <<>>
  BY <1>1, <1>2
<1>4. Head(q) = c
  BY <1>1, <1>3
<1>5. /\ Tail(q) \in Seq(T) /\ Len(Tail(q)) = Len(q) - 1
      /\ \A i \in 1 .. Len(Tail(q)) : Tail(q)[i] = q[i + 1]
  BY <1>1, <1>3, HeadTailProperties
<1>6. Len(Tail(q)) = Len(s) /\ \A i \in 1 .. Len(Tail(q)) : Tail(q)[i] = s[i]
  BY <1>1, <1>2, <1>5
<1>7. Tail(q) = s
  BY <1>5, <1>6, SeqEqual
<1> QED
  BY <1>4, <1>7 DEF q

\* A task that joins it joins the ready list.
LEMMA QueueAppend ==
  ASSUME NEW T, NEW c \in T, NEW s \in Seq(T), NEW t \in T
  PROVE  Append(<<c>> \o s, t) = <<c>> \o Append(s, t)
<1> DEFINE q == <<c>> \o s
           a == Append(q, t)
           r == Append(s, t)
           b == <<c>> \o r
<1>1. Len(s) \in Nat
  BY LenProperties
<1>2. /\ q \in Seq(T) /\ Len(q) = Len(s) + 1 /\ q[1] = c
      /\ \A i \in 1 .. Len(s) : q[i + 1] = s[i]
  BY Queue
<1>3. /\ r \in Seq(T) /\ Len(r) = Len(s) + 1
      /\ \A i \in 1 .. Len(s) : r[i] = s[i]
      /\ r[Len(s) + 1] = t
  BY AppendProperties
<1> HIDE DEF q, r
<1>4. /\ a \in Seq(T) /\ Len(a) = Len(s) + 2
      /\ \A i \in 1 .. Len(s) + 1 : a[i] = q[i]
      /\ a[Len(s) + 2] = t
  BY <1>1, <1>2, AppendProperties
<1>5. /\ b \in Seq(T) /\ Len(b) = Len(s) + 2 /\ b[1] = c
      /\ \A i \in 1 .. Len(s) + 1 : b[i + 1] = r[i]
  <2>1. /\ b \in Seq(T) /\ Len(b) = Len(r) + 1 /\ b[1] = c
        /\ \A i \in 1 .. Len(r) : b[i + 1] = r[i]
    BY <1>3, Queue
  <2> QED
    BY <1>1, <1>3, <2>1
<1> HIDE DEF a, b
<1>6. ASSUME NEW i \in 1 .. Len(s) + 2 PROVE a[i] = b[i]
  <2>1. CASE i = 1
    BY <1>1, <1>2, <1>4, <1>5, <2>1
  <2>2. CASE i \in 2 .. Len(s) + 1
    <3>1. i - 1 \in 1 .. Len(s) /\ i - 1 \in 1 .. Len(s) + 1 /\ (i - 1) + 1 = i
      BY <1>1, <2>2
    <3>2. q[(i - 1) + 1] = s[i - 1]
      BY <1>2, <3>1
    <3>3. b[(i - 1) + 1] = r[i - 1]
      BY <1>5, <3>1
    <3>4. r[i - 1] = s[i - 1]
      BY <1>3, <3>1
    <3>5. a[i] = q[i]
      BY <1>1, <1>4, <2>2
    <3> QED
      BY <3>1, <3>2, <3>3, <3>4, <3>5
  <2>3. CASE i = Len(s) + 2
    <3>1. Len(s) + 1 \in 1 .. Len(s) + 1 /\ (Len(s) + 1) + 1 = i
      BY <1>1, <2>3
    <3> QED
      BY <1>3, <1>4, <1>5, <2>3, <3>1
  <2>4. i = 1 \/ i \in 2 .. Len(s) + 1 \/ i = Len(s) + 2
    BY <1>1
  <2> QED
    BY <2>1, <2>2, <2>3, <2>4, Zenon
<1>7. a = b
  BY <1>4, <1>5, <1>6, SeqEqual
<1> QED
  BY <1>7 DEF a, b, q, r

\* Taking a task out of the ready list takes it out of the queue.
LEMMA QueueWithout ==
  ASSUME NEW T, NEW c \in T, NEW s \in Seq(T), NEW i \in 1 .. Len(s)
  PROVE  <<c>> \o S!Without(s, i) = S!Without(<<c>> \o s, i + 1)
<1> DEFINE q == <<c>> \o s
           r == S!Without(s, i)
           a == <<c>> \o r
           b == S!Without(q, i + 1)
<1>1. Len(s) \in Nat /\ i \in 1 .. Len(s)
  BY LenProperties
<1>2. /\ q \in Seq(T) /\ Len(q) = Len(s) + 1 /\ q[1] = c
      /\ \A j \in 1 .. Len(s) : q[j + 1] = s[j]
  BY Queue
<1>3. /\ r \in Seq(T) /\ Len(r) = Len(s) - 1
      /\ \A j \in 1 .. Len(s) - 1 : r[j] = IF j < i THEN s[j] ELSE s[j + 1]
  BY SeqWithout
<1> HIDE DEF r
<1>4. /\ a \in Seq(T) /\ Len(a) = Len(r) + 1 /\ a[1] = c
      /\ \A j \in 1 .. Len(r) : a[j + 1] = r[j]
  BY <1>3, Queue
<1> HIDE DEF q, a
<1>5. i + 1 \in 1 .. Len(q)
  BY <1>1, <1>2
<1>6. /\ b \in Seq(T) /\ Len(b) = Len(q) - 1
      /\ \A j \in 1 .. Len(q) - 1 : b[j] = IF j < i + 1 THEN q[j] ELSE q[j + 1]
  BY <1>2, <1>5, SeqWithout, Zenon
<1> HIDE DEF b
<1>7. Len(a) = Len(s) /\ Len(b) = Len(s)
  BY <1>1, <1>2, <1>3, <1>4, <1>6
<1>8. ASSUME NEW j \in 1 .. Len(s) PROVE a[j] = b[j]
  <2>1. CASE j = 1
    BY <1>1, <1>2, <1>4, <1>6, <2>1
  <2>2. CASE j \in 2 .. Len(s)
    <3>1. j - 1 \in 1 .. Len(s) - 1 /\ (j - 1) + 1 = j /\ j \in 1 .. Len(q) - 1
      BY <1>1, <1>2, <2>2
    <3>2. a[j] = IF j - 1 < i THEN s[j - 1] ELSE s[j]
      <4>1. r[j - 1] = IF j - 1 < i THEN s[j - 1] ELSE s[(j - 1) + 1]
        BY <1>3, <3>1
      <4>2. a[(j - 1) + 1] = r[j - 1]
        BY <1>3, <1>4, <3>1
      <4> QED
        BY <3>1, <4>1, <4>2
    <3>3. q[j] = s[j - 1] /\ q[j + 1] = s[j]
      <4>1. j - 1 \in 1 .. Len(s) /\ j \in 1 .. Len(s)
        BY <1>1, <2>2
      <4>2. q[(j - 1) + 1] = s[j - 1]
        BY <1>2, <4>1
      <4>3. q[j + 1] = s[j]
        BY <1>2, <4>1
      <4> QED
        BY <3>1, <4>2, <4>3
    <3>4. b[j] = IF j < i + 1 THEN s[j - 1] ELSE s[j]
      BY <1>6, <3>1, <3>3
    <3>5. (j - 1 < i) <=> (j < i + 1)
      BY <1>1, <2>2
    <3> QED
      BY <3>2, <3>4, <3>5
  <2>3. j = 1 \/ j \in 2 .. Len(s)
    BY <1>1
  <2> QED
    BY <2>1, <2>2, <2>3
<1>9. a = b
  BY <1>4, <1>6, <1>7, <1>8, SeqEqual
<1> QED
  BY <1>9 DEF a, b, q, r

-----------------------------------------------------------------------------
(* Steps, on the lists *)

\* What the refinement mapping makes of a step.
SchedStep == [S!Next]_S!vars

\* A step that leaves the lists alone.
LEMMA NoListStep ==
  ASSUME ListInv, UNCHANGED lists
  PROVE  ListInv' /\ SchedStep
<1>1. ListInv'
  BY DEF ListInv, lists, ListsAgree, NoTaskLeak, AllTasks, Pieces
<1>2. UNCHANGED S!vars
  BY DEF lists, S!vars
<1> QED
  BY <1>1, <1>2 DEF SchedStep

\* A failed task_create gives back what it took, piece by piece.
LEMMA CreateFailStep ==
  ASSUME ListInv, NEW t \in Tasks, NEW n \in 0 .. 2, task_create_fail(t, n)
  PROVE  UNCHANGED lists
<1>1. Acquired(t, n) = Unwind(t, n)
  <2>1. CASE n = 0
    BY <2>1 DEF Acquired, Unwind
  <2>2. CASE n = 1
    BY <2>2 DEF Acquired, Unwind
  <2>3. CASE n = 2
    <3>1. 1 .. 2 = {1, 2}
      OBVIOUS
    <3>2. Acquired(t, 2) = {<<"pcb", t>>, <<"stack", t>>}
      BY <3>1 DEF Acquired
    <3> QED
      BY <2>3, <3>2 DEF Unwind
  <2> QED
    BY <2>1, <2>2, <2>3
<1>2. t # Kernel /\ t \notin all_tasks_list
  BY TaskAssumption DEF task_create_fail, ListInv, NoTaskLeak, Pieces
<1>3. Unwind(t, n) \cap allocated = {}
  BY <1>2 DEF Unwind, ListInv, NoTaskLeak, Pieces
<1>4. allocated' = allocated
  BY <1>1, <1>3 DEF task_create_fail
<1> QED
  BY <1>4 DEF task_create_fail, lists

\* A new task joins the tail of the queue.
LEMMA CreateStep ==
  ASSUME ListInv, NEW t \in Tasks, task_create(t)
  PROVE  ListInv' /\ SchedStep
<1> USE DEF ListInv
<1>1. t \in AllTasks /\ t # Kernel /\ t \notin all_tasks_list /\ Kernel \in AllTasks
  BY TaskAssumption DEF task_create, NoTaskLeak, Pieces, AllTasks
<1>2. state[t] = "NONE" /\ state' = [state EXCEPT ![t] = "READY"]
  BY <1>1 DEF ListsAgree, task_create
<1>3. /\ ready_list' = list_add_tail(ready_list, t) /\ t \notin Range(ready_list)
      /\ all_tasks_list' = all_tasks_list \cup {t} /\ task_count' = task_count + 1
      /\ UNCHANGED <<dead_list, current, cr3, esp0>>
  BY <1>1, <1>2 DEF ListsAgree, task_create
<1>4. /\ ready_list' \in Seq(AllTasks) /\ IsInjective(ready_list')
      /\ Range(ready_list') = Range(ready_list) \cup {t}
  BY <1>1, <1>3, AddTail DEF ListsAgree
<1>5. /\ IsFiniteSet(all_tasks_list')
      /\ Cardinality(all_tasks_list') = Cardinality(all_tasks_list) + 1
  BY <1>1, <1>3, FS_AddElement
<1>6. ListsAgree'
  <2>1. AllTasks' = AllTasks
    BY DEF AllTasks
  <2>2. Range(ready_list') = {u \in AllTasks : state'[u] = "READY"}
    BY <1>1, <1>2, <1>4 DEF ListsAgree
  <2>3. dead_list' = {u \in AllTasks : state'[u] = "DEAD"}
    BY <1>1, <1>2, <1>3 DEF ListsAgree
  <2>4. {current'} = {u \in AllTasks : state'[u] = "RUNNING"}
    BY <1>1, <1>2, <1>3 DEF ListsAgree
  <2>5. all_tasks_list' = {u \in AllTasks : state'[u] # "NONE"}
    BY <1>1, <1>2, <1>3 DEF ListsAgree
  <2>6. task_count' = Cardinality(all_tasks_list')
    BY <1>3, <1>5 DEF ListsAgree
  <2> QED
    BY <1>4, <2>1, <2>2, <2>3, <2>4, <2>5, <2>6 DEF ListsAgree
<1>7. Acquired(t, 3) = Pieces \X {t}
  <2>1. 1 .. 3 = {1, 2, 3}
    OBVIOUS
  <2>2. Acquired(t, 3) = {<<"pcb", t>>, <<"stack", t>>, <<"pdir", t>>}
    BY <2>1 DEF Acquired
  <2> QED
    BY <2>2 DEF Pieces
<1>8. allocated' = allocated \cup (Pieces \X {t})
  BY <1>7 DEF task_create
<1>9. NoTaskLeak'
  BY <1>1, <1>3, <1>8 DEF NoTaskLeak, Pieces
<1>10. pid' \in [AllTasks -> Nat] /\ next_pid' \in Nat \ {0, 1} /\ pid'[Kernel] = 1
  BY <1>1 DEF task_create, NewPid
<1>11. state' \in [AllTasks -> States] /\ state'[Kernel] \in {"READY", "RUNNING"}
  BY <1>1, <1>2 DEF States
<1>12. ListInv'
  BY <1>3, <1>4, <1>5, <1>6, <1>9, <1>10, <1>11 DEF AllTasks, States
<1>13. S!Spawn(t)
  <2>1. <<current'>> \o ready_list' = Append(<<current>> \o ready_list, t)
    <3> HIDE DEF ListInv
    <3>1. ready_list \in Seq(AllTasks) /\ current \in AllTasks
      BY DEF ListInv
    <3>2. <<current>> \o Append(ready_list, t) = Append(<<current>> \o ready_list, t)
      BY <1>1, <3>1, QueueAppend
    <3> QED
      BY <1>3, <3>2 DEF list_add_tail
  <2>2. {u \in Tasks : <<"pcb", u>> \in allocated'}
          = {u \in Tasks : <<"pcb", u>> \in allocated} \cup {t}
    BY <1>8 DEF Pieces
  <2>3. <<"pcb", t>> \notin allocated
    BY DEF task_create
  <2> QED
    BY <1>3, <2>1, <2>2, <2>3 DEF S!Spawn
<1> QED
  BY <1>12, <1>13 DEF SchedStep, S!Next

\* task_yield, called with the task states St of which D are dead.
LEMMA YieldLists ==
  ASSUME ListInv, NEW St \in [AllTasks -> States], NEW D, NEW eflags,
         Yield(St, D, eflags),
         Range(ready_list) = {t \in AllTasks : St[t] = "READY"},
         D = {t \in AllTasks : St[t] = "DEAD"},
         {t \in AllTasks : St[t] = "RUNNING"} \subseteq {current},
         all_tasks_list = {t \in AllTasks : St[t] # "NONE"},
         St[current] = "RUNNING" \/ ready_list # <<>>,
         St[Kernel] \in {"READY", "RUNNING"}
  PROVE  ListInv' /\ (ready_list # <<>> => current' # current)
<1> USE DEF ListInv
<1> DEFINE reaped == [t \in AllTasks |-> IF t \in D THEN "NONE" ELSE St[t]]
           running == St[current] = "RUNNING"
           q == IF running THEN list_add_tail(ready_list, current) ELSE ready_list
           next == Head(q)
<1>1. /\ dead_list' = {} /\ all_tasks_list' = all_tasks_list \ D
      /\ allocated' = allocated \ (Pieces \X D)
      /\ task_count' = task_count - Cardinality(D)
      /\ pid' = pid /\ next_pid' = next_pid
  BY DEF Yield, reap_dead_tasks
<1>2. Kernel \in AllTasks /\ Kernel \notin D /\ AllTasks' = AllTasks
  BY DEF AllTasks
<1>3. /\ IsFiniteSet(all_tasks_list')
      /\ task_count' = Cardinality(all_tasks_list')
  <2>1. all_tasks_list \cap D = D
    OBVIOUS
  <2>2. /\ IsFiniteSet(all_tasks_list \ D)
        /\ Cardinality(all_tasks_list \ D)
             = Cardinality(all_tasks_list) - Cardinality(all_tasks_list \cap D)
    BY FS_Difference, Zenon
  <2> QED
    BY <1>1, <2>1, <2>2, Zenon DEF ListsAgree
<1>4. NoTaskLeak'
  BY <1>1 DEF NoTaskLeak, Pieces
<1>5. CASE ready_list = <<>>
  <2>1. /\ state' = reaped /\ running
        /\ UNCHANGED <<ready_list, current, cr3, esp0>>
    BY <1>5 DEF Yield
  <2>2. /\ Range(ready_list') = {t \in AllTasks : state'[t] = "READY"}
        /\ dead_list' = {t \in AllTasks : state'[t] = "DEAD"}
        /\ {current'} = {t \in AllTasks : state'[t] = "RUNNING"}
        /\ all_tasks_list' = {t \in AllTasks : state'[t] # "NONE"}
    BY <1>1, <2>1
  <2>3. state' \in [AllTasks -> States] /\ state'[Kernel] \in {"READY", "RUNNING"}
    BY <1>2, <2>1 DEF States
  <2>4. ListsAgree'
    BY <1>2, <1>3, <2>1, <2>2 DEF ListsAgree
  <2> QED
    BY <1>1, <1>2, <1>3, <1>4, <1>5, <2>1, <2>3, <2>4 DEF States
<1>6. CASE ready_list # <<>>
  <2>1. /\ ready_list' = Tail(q)
        /\ state' = [t \in AllTasks |->
                       CASE t = next -> "RUNNING"
                         [] running /\ t = current -> "READY"
                         [] OTHER -> reaped[t]]
        /\ current' = next /\ (EcxHoldsCr3 => cr3' = next) /\ esp0' = next
    BY <1>6 DEF Yield, Switch, EcxAtCall
  <2>2. /\ q \in Seq(AllTasks) /\ IsInjective(q) /\ q # <<>>
        /\ Range(q) = {t \in AllTasks : St[t] = "READY" \/ (running /\ t = current)}
    <3>1. CASE running
      <4>1. current \notin Range(ready_list)
        BY <3>1
      <4>2. /\ q \in Seq(AllTasks) /\ IsInjective(q)
            /\ Range(q) = Range(ready_list) \cup {current}
        BY <3>1, <4>1, AddTail DEF ListsAgree
      <4>3. q # <<>>
        BY <3>1, AppendProperties, EmptySeq DEF list_add_tail
      <4> QED
        BY <3>1, <4>2, <4>3
    <3>2. CASE ~running
      BY <1>6, <3>2 DEF ListsAgree
    <3> QED
      BY <3>1, <3>2
  <2>3. next # current
    <3>1. Head(ready_list) \in Range(ready_list) /\ current \notin Range(ready_list)
      BY <1>6, TakeHead, Zenon DEF ListsAgree
    <3>2. Head(q) = Head(ready_list)
      <4> SUFFICES ASSUME running PROVE Head(q) = Head(ready_list)
        OBVIOUS
      <4>1. Len(ready_list) \in Nat \ {0}
        BY <1>6, EmptySeq
      <4>2. q = Append(ready_list, current)
        BY DEF list_add_tail
      <4>3. q[1] = ready_list[1]
        <5>1. Append(ready_list, current)[1] = ready_list[1]
          BY <4>1, AppendProperties
        <5> QED
          BY <4>2, <5>1, Zenon
      <4> HIDE DEF q
      <4>4. Head(q) = q[1] /\ Head(ready_list) = ready_list[1]
        BY <1>6, <2>2
      <4> QED
        BY <4>3, <4>4
    <3> QED
      BY <3>1, <3>2
  <2> HIDE DEF q
  <2>4. /\ next \in Range(q) /\ ready_list' \in Seq(AllTasks)
        /\ IsInjective(ready_list') /\ Range(ready_list') = Range(q) \ {next}
    BY <2>1, <2>2, TakeHead, Zenon
  <2> HIDE DEF next
  <2>5. next \in AllTasks
    BY <2>2, <2>4
  <2>6. \A t \in AllTasks :
          state'[t] = IF t = next THEN "RUNNING"
                      ELSE IF running /\ t = current THEN "READY"
                      ELSE IF St[t] = "DEAD" THEN "NONE" ELSE St[t]
    <3>1. \A t \in AllTasks : reaped[t] = IF St[t] = "DEAD" THEN "NONE" ELSE St[t]
      OBVIOUS
    <3>2. SUFFICES ASSUME NEW t \in AllTasks
                   PROVE  state'[t] = IF t = next THEN "RUNNING"
                                      ELSE IF running /\ t = current THEN "READY"
                                      ELSE reaped[t]
      BY <3>1
    <3>3. state'[t] = CASE t = next -> "RUNNING"
                        [] running /\ t = current -> "READY"
                        [] OTHER -> reaped[t]
      BY <2>1, Zenon
    <3> HIDE DEF reaped, running
    <3>4. CASE t = next
      <4>1. ~(running /\ t = current)
        BY <2>3, <3>4
      <4> QED
        BY <3>3, <3>4, <4>1
    <3>5. CASE t # next /\ running /\ t = current
      BY <3>3, <3>5
    <3>6. CASE t # next /\ ~(running /\ t = current)
      BY <3>3, <3>6
    <3> QED
      BY <3>4, <3>5, <3>6
  <2>7. state' \in [AllTasks -> States] /\ state'[Kernel] \in {"READY", "RUNNING"}
    BY <1>2, <2>1, <2>6 DEF States
  <2>8. Range(ready_list') = {t \in AllTasks : state'[t] = "READY"}
    BY <2>2, <2>4, <2>6
  <2>9. dead_list' = {t \in AllTasks : state'[t] = "DEAD"}
    BY <1>1, <2>6
  <2>10. {current'} = {t \in AllTasks : state'[t] = "RUNNING"}
    BY <2>1, <2>5, <2>6
  <2>11. all_tasks_list' = {t \in AllTasks : state'[t] # "NONE"}
    BY <1>1, <2>2, <2>4, <2>6, Zenon
  <2>12. ListsAgree'
    BY <1>2, <1>3, <2>4, <2>8, <2>9, <2>10, <2>11 DEF ListsAgree
  <2> QED
    BY <1>1, <1>2, <1>3, <1>4, <2>1, <2>3, <2>4, <2>5, <2>7, <2>12 DEF States
<1> QED
  BY <1>5, <1>6

\* A yield of the running task sends it to the tail of the queue; the tasks
\* that were dead are reaped.
LEMMA YieldStep ==
  ASSUME ListInv, NEW eflags, Yield(state, dead_list, eflags)
  PROVE  /\ ListInv' /\ SchedStep
         /\ ready_list # <<>> => current' # current
         /\ ~hung => ~hung'
<1> USE DEF ListInv
<1>1. state[current] = "RUNNING"
  BY DEF ListsAgree
<1>2. ListInv' /\ (ready_list # <<>> => current' # current)
  <2>1. /\ {t \in AllTasks : state[t] = "RUNNING"} \subseteq {current}
        /\ Range(ready_list) = {t \in AllTasks : state[t] = "READY"}
        /\ dead_list = {t \in AllTasks : state[t] = "DEAD"}
        /\ all_tasks_list = {t \in AllTasks : state[t] # "NONE"}
    BY DEF ListsAgree
  <2> HIDE DEF ListInv
  <2>2. state \in [AllTasks -> States] /\ state[Kernel] \in {"READY", "RUNNING"}
    BY DEF ListInv
  <2> QED
    BY <1>1, <2>1, <2>2, YieldLists
<1>3. ~hung => ~hung'
  BY <1>1, Zenon DEF Yield
<1>4. <<current'>> \o ready_list' = Append(ready_list, current)
  <2> DEFINE q == Append(ready_list, current)
  <2>1. CASE ready_list = <<>>
    BY <2>1 DEF Yield
  <2>2. CASE ready_list # <<>>
    <3>1. ready_list' = Tail(q) /\ current' = Head(q)
      BY <1>1, <2>2 DEF Yield, Switch, list_add_tail
    <3>2. current \notin Range(ready_list)
      BY <1>1 DEF ListsAgree
    <3>3. q \in Seq(AllTasks) /\ IsInjective(q) /\ q # <<>>
      BY <3>2, AddTail, AppendProperties, EmptySeq DEF ListsAgree, list_add_tail
    <3>4. <<Head(q)>> \o Tail(q) = q
      BY <3>3, TakeHead, Zenon
    <3> QED
      BY <3>1, <3>4, Zenon
  <2> QED
    BY <2>1, <2>2
<1>5. dead_list' = {} /\ allocated' = allocated \ (Pieces \X dead_list)
  BY DEF Yield, reap_dead_tasks
<1>6. {t \in Tasks : <<"pcb", t>> \in allocated'}
        = {t \in Tasks : <<"pcb", t>> \in allocated} \ dead_list
  BY <1>5 DEF Pieces
<1>7. S!Rotate
  <2> HIDE DEF ListInv
  <2>1. ready_list \in Seq(AllTasks) /\ current \in AllTasks
    BY DEF ListInv
  <2>2. Head(<<current>> \o ready_list) = current /\ Tail(<<current>> \o ready_list) = ready_list
    BY <2>1, QueueEnds
  <2> QED
    BY <1>4, <1>5, <1>6, <2>2 DEF S!Rotate
<1> QED
  BY <1>2, <1>3, <1>7 DEF SchedStep, S!Next

\* The task that exits leaves the queue and is reaped with those that were
\* dead.  The kernel task is ready then, so there is a task to switch to.
LEMMA ExitStep ==
  ASSUME ListInv, current # Kernel, Exit
  PROVE  /\ ListInv' /\ SchedStep
         /\ ready_list # <<>> /\ current' # current
         /\ ~hung => ~hung'
<1> USE DEF ListInv
<1> DEFINE St == [state EXCEPT ![current] = "DEAD"]
           D == dead_list \cup {current}
<1>1. Yield(St, D, FALSE)
  BY Zenon DEF Exit
<1>2. Kernel \in AllTasks /\ state[current] = "RUNNING" /\ St \in [AllTasks -> States]
  BY DEF ListsAgree, AllTasks, States
<1>3. /\ Range(ready_list) = {t \in AllTasks : St[t] = "READY"}
      /\ D = {t \in AllTasks : St[t] = "DEAD"}
      /\ {t \in AllTasks : St[t] = "RUNNING"} \subseteq {current}
      /\ all_tasks_list = {t \in AllTasks : St[t] # "NONE"}
      /\ St[Kernel] \in {"READY", "RUNNING"}
      /\ St[current] = "DEAD"
  BY <1>2 DEF ListsAgree
<1>4. ready_list # <<>>
  <2>1. Kernel \in Range(ready_list)
    BY <1>2 DEF ListsAgree
  <2> QED
    BY <2>1 DEF Range
<1> HIDE DEF St, D
<1>5. ListInv' /\ current' # current
  <2> HIDE DEF ListInv
  <2> QED
    BY <1>1, <1>2, <1>3, <1>4, YieldLists, Zenon
<1>6. ~hung => ~hung'
  BY <1>1, <1>4 DEF Yield
<1>7. <<current'>> \o ready_list' = ready_list
  <2>1. ready_list' = Tail(ready_list) /\ current' = Head(ready_list)
    BY <1>1, <1>3, <1>4 DEF Yield, Switch
  <2>2. <<Head(ready_list)>> \o Tail(ready_list) = ready_list
    BY <1>4, TakeHead DEF ListsAgree
  <2> QED
    BY <2>1, <2>2
<1>8. dead_list' = {} /\ allocated' = allocated \ (Pieces \X D)
  BY <1>1 DEF Yield, reap_dead_tasks
<1>9. {t \in Tasks : <<"pcb", t>> \in allocated'}
        = {t \in Tasks : <<"pcb", t>> \in allocated} \ (dead_list \cup {current})
  BY <1>8 DEF Pieces, D
<1>10. S!Exit
  <2> HIDE DEF ListInv
  <2>1. ready_list \in Seq(AllTasks) /\ current \in AllTasks
    BY DEF ListInv
  <2>2. Head(<<current>> \o ready_list) = current /\ Tail(<<current>> \o ready_list) = ready_list
    BY <2>1, QueueEnds
  <2> QED
    BY <1>7, <1>8, <1>9, <2>2 DEF S!Exit
<1> QED
  BY <1>4, <1>5, <1>6, <1>10 DEF SchedStep, S!Next

\* A task that is killed was ready: it leaves the queue and waits to be reaped.
LEMMA KillStep ==
  ASSUME ListInv, NEW p \in Nat, NEW t \in AllTasks, task_kill_other(p, t)
  PROVE  ListInv' /\ SchedStep
<1> USE DEF ListInv
<1>1. /\ t # current /\ t \in all_tasks_list /\ state[t] # "DEAD" /\ pid[t] > 1
      /\ ready_list' = list_del(ready_list, t)
      /\ state' = [state EXCEPT ![t] = "DEAD"]
      /\ dead_list' = dead_list \cup {t}
      /\ UNCHANGED <<all_tasks_list, current, pid, task_count, next_pid,
                     allocated, cr3, esp0>>
  BY DEF task_kill_other, MayKill
<1>2. t # Kernel /\ Kernel \in AllTasks /\ AllTasks' = AllTasks
  BY <1>1 DEF AllTasks
<1>3. t \in Range(ready_list) /\ state[t] = "READY"
  BY <1>1 DEF ListsAgree, States
<1>4. /\ ready_list' \in Seq(AllTasks) /\ IsInjective(ready_list')
      /\ Range(ready_list') = Range(ready_list) \ {t}
  BY <1>1, <1>3, Del DEF ListsAgree
<1>5. PICK i \in 1 .. Len(ready_list) :
        ready_list[i] = t /\ ready_list' = S!Without(ready_list, i)
  BY <1>1, <1>3, Del DEF ListsAgree
<1>6. ListsAgree'
  <2>1. Range(ready_list') = {u \in AllTasks : state'[u] = "READY"}
    BY <1>1, <1>4 DEF ListsAgree
  <2>2. dead_list' = {u \in AllTasks : state'[u] = "DEAD"}
    BY <1>1 DEF ListsAgree
  <2>3. {current'} = {u \in AllTasks : state'[u] = "RUNNING"}
    BY <1>1 DEF ListsAgree
  <2>4. all_tasks_list' = {u \in AllTasks : state'[u] # "NONE"}
    BY <1>1, <1>3 DEF ListsAgree
  <2> QED
    BY <1>1, <1>2, <1>4, <2>1, <2>2, <2>3, <2>4 DEF ListsAgree
<1>7. NoTaskLeak'
  BY <1>1 DEF NoTaskLeak, Pieces
<1>8. state' \in [AllTasks -> States] /\ state'[Kernel] \in {"READY", "RUNNING"}
  BY <1>1, <1>2 DEF States
<1>9. ListInv'
  BY <1>1, <1>2, <1>4, <1>6, <1>7, <1>8 DEF States
<1>10. /\ i + 1 \in 2 .. Len(<<current>> \o ready_list)
       /\ (<<current>> \o ready_list)[i + 1] = t
       /\ <<current'>> \o ready_list' = S!Without(<<current>> \o ready_list, i + 1)
  <2> HIDE DEF ListInv
  <2>1. ready_list \in Seq(AllTasks) /\ current \in AllTasks
    BY DEF ListInv
  <2>2. Len(ready_list) \in Nat
    BY <2>1, LenProperties
  <2>3. Len(<<current>> \o ready_list) = Len(ready_list) + 1
    BY <2>1, Queue
  <2>4. (<<current>> \o ready_list)[i + 1] = ready_list[i]
    BY <2>1, Queue
  <2>5. <<current>> \o S!Without(ready_list, i) = S!Without(<<current>> \o ready_list, i + 1)
    BY <2>1, QueueWithout
  <2>6. i + 1 \in 2 .. Len(<<current>> \o ready_list)
    <3> DEFINE n == Len(<<current>> \o ready_list)
    <3>1. n = Len(ready_list) + 1
      BY <2>3
    <3> HIDE DEF n
    <3>2. i + 1 \in 2 .. n
      BY <2>2, <3>1
    <3> QED
      BY <3>2 DEF n
  <2> QED
    BY <1>1, <1>5, <2>4, <2>5, <2>6, Zenon
<1>11. S!Kill(i + 1)
  BY <1>1, <1>2, <1>10, Zenon DEF S!Kill, S!Without
<1> QED
  BY <1>9, <1>10, <1>11, Zenon DEF SchedStep, S!Next

-----------------------------------------------------------------------------
(* Steps, on the interrupt flag *)

Timed == {<<"timer">>, <<"syscall", "timer">>}

\* task_yield keeps interrupts off in the timer handlers it leaves and enters,
\* when it is called with interrupts off from such a handler.
LEMMA YieldFlags ==
  ASSUME FlagInv, current \in AllTasks, current' \in AllTasks,
         NEW St, NEW D, NEW eflags \in BOOLEAN, Yield(St, D, eflags),
         ready_list # <<>> => current' # current,
         frames' \in [AllTasks -> Stacks],
         \A t \in AllTasks \ {current} : frames'[t] = frames[t],
         frames'[current] \in Timed => ~eflags,
         ~hung'
  PROVE  FlagInv'
<1> USE DEF FlagInv
<1>1. AllTasks' = AllTasks
  BY DEF AllTasks
<1>2. \A t \in AllTasks \ {current} : frames[t] \in Timed => ~flags[t]
  BY DEF Masked, Timed
<1>3. CASE ready_list = <<>>
  <2>1. iflag' = eflags /\ UNCHANGED <<current, flags>>
    BY <1>3 DEF Yield
  <2>2. ASSUME NEW t \in AllTasks, frames'[t] \in Timed
        PROVE  IF t = current' THEN ~iflag' ELSE ~flags'[t]
    BY <1>2, <2>1, <2>2
  <2>3. Masked'
    BY <1>1, <2>2 DEF Masked, Timed
  <2> QED
    BY <1>1, <2>1, <2>3 DEF Stacks
<1>4. CASE ready_list # <<>>
  <2>1. flags' = [flags EXCEPT ![current] = eflags] /\ iflag' = flags[current']
    BY <1>4 DEF Yield, Switch
  <2>2. ASSUME NEW t \in AllTasks, frames'[t] \in Timed
        PROVE  IF t = current' THEN ~iflag' ELSE ~flags'[t]
    <3>1. CASE t = current'
      <4>1. t # current
        BY <1>4, <3>1
      <4> QED
        BY <1>2, <2>1, <2>2, <3>1, <4>1
    <3>2. CASE t # current' /\ t = current
      BY <2>1, <2>2, <3>2
    <3>3. CASE t # current' /\ t # current
      BY <1>2, <2>1, <2>2, <3>3
    <3> QED
      BY <3>1, <3>2, <3>3
  <2>3. Masked'
    BY <1>1, <2>2 DEF Masked, Timed
  <2>4. iflag' \in BOOLEAN /\ flags' \in [AllTasks -> BOOLEAN]
    BY <2>1
  <2> QED
    BY <1>1, <2>3, <2>4 DEF Stacks
<1> QED
  BY <1>3, <1>4

\* The frames of an interrupt: pushed on a stack that has none of the timer,
\* popped from one that has it on top.
LEMMA PushPop ==
  ASSUME NEW s \in Stacks
  PROVE  /\ s \notin Timed => Append(s, "timer") \in Stacks
         /\ s # <<>> /\ s[Len(s)] = "timer" => SubSeq(s, 1, Len(s) - 1) \in Stacks \ Timed
         /\ s # <<>> /\ s[Len(s)] = "syscall" => s = <<"syscall">>
         /\ <<>> \in Stacks \ Timed /\ <<"syscall">> \in Stacks \ Timed
<1> DEFINE t == <<"timer">>
           st == <<"syscall", "timer">>
           sy == <<"syscall">>
           F == {"timer", "syscall"}
<1>1. Append(<<>>, "timer") = t /\ Append(sy, "timer") = st
  <2>1. sy \in Seq(F) /\ Len(sy) = 1 /\ sy[1] = "syscall"
    OBVIOUS
  <2>2. st \in Seq(F) /\ Len(st) = 2 /\ st[1] = "syscall" /\ st[2] = "timer"
    OBVIOUS
  <2>3. Append(<<>>, "timer") = t
    OBVIOUS
  <2> HIDE DEF sy, st
  <2>4. /\ Append(sy, "timer") \in Seq(F) /\ Len(Append(sy, "timer")) = 2
        /\ Append(sy, "timer")[1] = sy[1] /\ Append(sy, "timer")[2] = "timer"
    <3>1. "timer" \in F
      OBVIOUS
    <3> HIDE DEF F
    <3>2. sy \in Seq(F)
      BY <2>1
    <3>3. \A e \in F : /\ Append(sy, e) \in Seq(F) /\ Len(Append(sy, e)) = Len(sy) + 1
                       /\ \A i \in 1 .. Len(sy) : Append(sy, e)[i] = sy[i]
                       /\ Append(sy, e)[Len(sy) + 1] = e
      BY <3>2, AppendProperties
    <3>4. /\ Append(sy, "timer") \in Seq(F) /\ Len(Append(sy, "timer")) = Len(sy) + 1
          /\ \A i \in 1 .. Len(sy) : Append(sy, "timer")[i] = sy[i]
          /\ Append(sy, "timer")[Len(sy) + 1] = "timer"
      BY <3>1, <3>3, Zenon
    <3> QED
      BY <2>1, <3>4
  <2>5. \A i \in 1 .. Len(st) : Append(sy, "timer")[i] = st[i]
    BY <2>1, <2>2, <2>4
  <2>6. Append(sy, "timer") = st
    BY <2>2, <2>4, <2>5, SeqEqual
  <2> QED
    BY <2>3, <2>6 DEF sy, st
<1>2. SubSeq(t, 1, 0) = <<>> /\ SubSeq(st, 1, 1) = sy
  <2>1. sy \in Seq(F) /\ Len(sy) = 1 /\ sy[1] = "syscall"
    OBVIOUS
  <2>2. st[1] = "syscall"
    OBVIOUS
  <2> HIDE DEF sy, st
  <2>3. \A i \in 1 .. 1 : st[i] \in F
    BY <2>2
  <2>4. /\ SubSeq(st, 1, 1) \in Seq(F) /\ Len(SubSeq(st, 1, 1)) = 1
        /\ \A i \in 1 .. 1 : SubSeq(st, 1, 1)[i] = st[i]
    BY <2>3
  <2>5. SubSeq(st, 1, 1) = sy
    BY <2>1, <2>2, <2>4, SeqEqual
  <2>6. SubSeq(t, 1, 0) = <<>>
    BY SubSeqEmpty
  <2> QED
    BY <2>5, <2>6 DEF sy
<1>3. Len(t) = 1 /\ Len(st) = 2 /\ Len(<<"syscall">>) = 1
  OBVIOUS
<1>4. t[1] = "timer" /\ st[2] = "timer" /\ <<"syscall">>[1] = "syscall"
  OBVIOUS
<1>5. <<>> # t /\ <<>> # st /\ <<"syscall">> # t /\ <<"syscall">> # st
  OBVIOUS
<1>6. CASE s = <<>>
  BY <1>1, <1>5, <1>6 DEF Stacks, Timed
<1>7. CASE s = <<"syscall">>
  BY <1>1, <1>3, <1>4, <1>5, <1>7 DEF Stacks, Timed
<1>8. CASE s = t
  BY <1>2, <1>3, <1>4, <1>5, <1>8 DEF Stacks, Timed
<1>9. CASE s = st
  BY <1>2, <1>3, <1>4, <1>5, <1>9 DEF Stacks, Timed
<1> QED
  BY <1>6, <1>7, <1>8, <1>9 DEF Stacks

\* A step that does not switch, and leaves interrupts off or no timer frame.
LEMMA StayFlags ==
  ASSUME FlagInv, current \in AllTasks, UNCHANGED <<current, hung>>,
         iflag' \in BOOLEAN, flags' \in [AllTasks -> BOOLEAN],
         frames' \in [AllTasks -> Stacks],
         frames'[current] \in Timed => ~iflag',
         \A t \in AllTasks \ {current} :
           frames'[t] \in Timed => frames[t] \in Timed /\ flags'[t] = flags[t]
  PROVE  FlagInv'
<1>1. AllTasks' = AllTasks
  BY DEF AllTasks
<1>2. \A t \in AllTasks \ {current} : frames'[t] \in Timed => ~flags'[t]
  BY DEF FlagInv, Masked, Timed
<1>3. Masked'
  BY <1>1, <1>2 DEF Masked, Timed
<1> QED
  BY <1>1, <1>3 DEF FlagInv, Stacks

\* Every step keeps the invariant and is a step of the queue or none.
LEMMA Step ==
  ASSUME Inv, [Next]_vars
  PROVE  Inv' /\ SchedStep
<1> USE DEF Inv
<1>1. current \in AllTasks /\ state[current] = "RUNNING" /\ AllTasks' = AllTasks
  BY DEF ListInv, ListsAgree, AllTasks
<1>2. /\ iflag \in BOOLEAN /\ flags \in [AllTasks -> BOOLEAN]
      /\ frames \in [AllTasks -> Stacks] /\ ~hung
      /\ frames[current] \in Stacks
      /\ frames[current] \in Timed => ~iflag
  BY <1>1 DEF FlagInv, Masked, Timed
<1>3. ASSUME ListInv' PROVE current' \in AllTasks
  BY <1>1, <1>3 DEF ListInv
<1>4. ASSUME NEW t \in Tasks, task_create(t) PROVE Inv' /\ SchedStep
  <2>1. ListInv' /\ SchedStep
    BY <1>4, CreateStep
  <2>2. t # current
    <3>1. t \notin all_tasks_list
      BY <1>4, TaskAssumption DEF task_create, ListInv, NoTaskLeak, Pieces
    <3> QED
      BY <1>1, <3>1 DEF ListInv, ListsAgree
  <2>3. /\ flags' = [flags EXCEPT ![t] = TRUE] /\ frames' = [frames EXCEPT ![t] = <<>>]
        /\ UNCHANGED <<current, iflag, hung>>
    BY <1>4 DEF task_create
  <2>4. <<>> \in Stacks /\ <<>> \notin Timed
    BY <1>2, PushPop
  <2>5. FlagInv'
    BY <1>1, <1>2, <2>2, <2>3, <2>4, StayFlags, Zenon
  <2> QED
    BY <2>1, <2>5
<1>5. ASSUME NEW t \in Tasks, NEW n \in 0 .. 2, task_create_fail(t, n)
      PROVE  Inv' /\ SchedStep
  <2>1. UNCHANGED lists
    BY <1>5, CreateFailStep
  <2>2. UNCHANGED <<current, iflag, flags, frames, hung>>
    BY <1>5 DEF task_create_fail
  <2> QED
    BY <1>1, <1>2, <2>1, <2>2, NoListStep, StayFlags
<1>6. CASE task_yield
  <2>1. Yield(state, dead_list, iflag) /\ UNCHANGED frames /\ frames[current] = <<>>
    BY <1>6 DEF task_yield, InTask
  <2>2. frames[current] \notin Timed
    BY <1>2, <2>1, PushPop
  <2> QED
    BY <1>1, <1>2, <1>3, <2>1, <2>2, YieldStep, YieldFlags
<1>7. ASSUME current # Kernel, Exit PROVE Inv' /\ SchedStep
  <2>1. /\ Yield([state EXCEPT ![current] = "DEAD"], dead_list \cup {current}, FALSE)
        /\ UNCHANGED frames
    BY <1>7, Zenon DEF Exit
  <2>2. /\ ListInv' /\ SchedStep /\ ready_list # <<>> /\ current' # current /\ ~hung'
    BY <1>2, <1>7, ExitStep
  <2> QED
    BY <1>1, <1>2, <1>3, <2>1, <2>2, YieldFlags, Zenon
<1>8. CASE task_exit
  BY <1>7, <1>8 DEF task_exit
<1>9. ASSUME NEW p \in 0 .. MaxPid, task_kill_current(p) PROVE Inv' /\ SchedStep
  <2>1. current # Kernel
    BY <1>9 DEF task_kill_current, MayKill, ListInv
  <2> QED
    BY <1>7, <1>9, <2>1 DEF task_kill_current
<1>10. ASSUME NEW p \in 0 .. MaxPid, task_kill_fail(p) PROVE Inv' /\ SchedStep
  <2>1. UNCHANGED lists /\ UNCHANGED <<current, iflag, flags, frames, hung>>
    BY <1>10 DEF task_kill_fail, vars, lists
  <2> QED
    BY <1>1, <1>2, <2>1, NoListStep, StayFlags
<1>11. ASSUME NEW p \in 0 .. MaxPid, NEW t \in AllTasks, task_kill_other(p, t)
       PROVE  Inv' /\ SchedStep
  <2>1. ListInv' /\ SchedStep
    BY <1>11, KillStep, TaskAssumption
  <2>2. UNCHANGED <<current, iflag, flags, frames, hung>>
    BY <1>11 DEF task_kill_other
  <2> QED
    BY <1>1, <1>2, <2>1, <2>2, StayFlags
<1>12. CASE isr_timer
  <2>1. /\ Yield(state, dead_list, FALSE) /\ iflag
        /\ frames' = [frames EXCEPT ![current] = Append(@, "timer")]
    BY <1>12, Zenon DEF isr_timer
  <2>2. Append(frames[current], "timer") \in Stacks
    BY <1>2, <2>1, PushPop
  <2>3. frames' \in [AllTasks -> Stacks]
        /\ \A t \in AllTasks \ {current} : frames'[t] = frames[t]
    BY <1>1, <1>2, <2>1, <2>2
  <2> QED
    BY <1>1, <1>2, <1>3, <2>1, <2>3, YieldStep, YieldFlags, Zenon
<1>13. CASE isr_timer_return
  <2>1. /\ frames' = [frames EXCEPT ![current] = SubSeq(@, 1, Len(@) - 1)]
        /\ frames[current] # <<>> /\ frames[current][Len(frames[current])] = "timer"
        /\ iflag' = TRUE
        /\ UNCHANGED lists /\ UNCHANGED <<flags, hung>> /\ UNCHANGED current
    BY <1>13 DEF isr_timer_return, TopFrame, lists
  <2>2. SubSeq(frames[current], 1, Len(frames[current]) - 1) \in Stacks \ Timed
    BY <1>2, <2>1, PushPop
  <2>3. /\ frames' \in [AllTasks -> Stacks] /\ frames'[current] \notin Timed
        /\ \A t \in AllTasks \ {current} : frames'[t] = frames[t]
    BY <1>1, <1>2, <2>1, <2>2
  <2> QED
    BY <1>1, <1>2, <2>1, <2>3, NoListStep, StayFlags
<1>14. CASE syscall_enter
  <2>1. /\ frames' = [frames EXCEPT ![current] = <<"syscall">>] /\ iflag' = FALSE
        /\ UNCHANGED lists /\ UNCHANGED <<flags, hung>> /\ UNCHANGED current
    BY <1>14 DEF syscall_enter, lists
  <2>2. <<"syscall">> \in Stacks
    BY <1>2, PushPop
  <2> QED
    BY <1>1, <1>2, <2>1, <2>2, NoListStep, StayFlags, Zenon
<1>15. ASSUME TopFrame("syscall")
       PROVE  frames[current] = <<"syscall">> /\ frames[current] \notin Timed
  BY <1>2, <1>15, PushPop DEF TopFrame
<1>16. CASE syscall_wait
  <2>1. /\ frames[current] \notin Timed /\ iflag' = TRUE
        /\ UNCHANGED lists /\ UNCHANGED <<flags, frames, hung>> /\ UNCHANGED current
    BY <1>15, <1>16 DEF syscall_wait, lists
  <2> QED
    BY <1>1, <1>2, <2>1, NoListStep, StayFlags
<1>17. CASE syscall_yield
  <2>1. Yield(state, dead_list, FALSE) /\ UNCHANGED frames
    BY <1>17, Zenon DEF syscall_yield
  <2> QED
    BY <1>1, <1>2, <1>3, <2>1, YieldStep, YieldFlags, Zenon
<1>18. CASE syscall_return
  <2>1. /\ frames' = [frames EXCEPT ![current] = <<>>] /\ iflag' = TRUE
        /\ UNCHANGED lists /\ UNCHANGED <<flags, hung>> /\ UNCHANGED current
    BY <1>18 DEF syscall_return, lists
  <2>2. <<>> \in Stacks \ Timed
    BY <1>2, PushPop
  <2> QED
    BY <1>1, <1>2, <2>1, <2>2, NoListStep, StayFlags
<1>19. CASE UNCHANGED vars
  <2>1. UNCHANGED lists /\ UNCHANGED <<current, iflag, flags, frames, hung>>
    BY <1>19 DEF vars, lists
  <2> QED
    BY <1>1, <1>2, <2>1, NoListStep, StayFlags
<1> QED
  BY <1>4, <1>5, <1>6, <1>8, <1>9, <1>10, <1>11, <1>12, <1>13, <1>14, <1>16,
     <1>17, <1>18, <1>19 DEF Next

-----------------------------------------------------------------------------
(* Theorems *)

LEMMA Start == task_init => Inv
<1> SUFFICES ASSUME task_init PROVE Inv
  OBVIOUS
<1> USE DEF task_init
<1>1. Kernel \in AllTasks /\ IsFiniteSet({Kernel}) /\ Cardinality({Kernel}) = 1
  BY FS_Singleton, Zenon DEF AllTasks
<1>2. ready_list \in Seq(AllTasks) /\ IsInjective(ready_list) /\ Range(ready_list) = {}
  BY DEF IsInjective, Range
<1>3. ListsAgree
  <2>1. Range(ready_list) = {t \in AllTasks : state[t] = "READY"}
    BY <1>2
  <2>2. /\ dead_list = {t \in AllTasks : state[t] = "DEAD"}
        /\ {current} = {t \in AllTasks : state[t] = "RUNNING"}
        /\ all_tasks_list = {t \in AllTasks : state[t] # "NONE"}
    BY <1>1
  <2> QED
    BY <1>1, <1>2, <2>1, <2>2 DEF ListsAgree
<1>4. NoTaskLeak
  BY DEF NoTaskLeak
<1>5. ListInv
  BY <1>1, <1>2, <1>3, <1>4 DEF ListInv, States
<1>6. <<>> \in Stacks /\ <<>> \notin Timed
  BY DEF Stacks, Timed
<1>7. FlagInv
  BY <1>6 DEF FlagInv, Masked, Timed
<1> QED
  BY <1>5, <1>7 DEF Inv

LEMMA Invariance == Spec => []Inv
<1>1. Inv /\ [Next]_vars => Inv'
  BY Step
<1> QED
  BY <1>1, Start, PTL DEF Spec

\* The PCB states, the three lists and task_count agree, and a task always
\* runs, through every mix of task_create, task_yield, task_exit, task_kill
\* and timer interrupts.
THEOREM ListsCorrect == Spec => []ListsAgree
<1>1. Inv => ListsAgree
  BY DEF Inv, ListInv
<1> QED
  BY <1>1, Invariance, PTL

\* What task_create takes and does not keep is given back, and what a task
\* has is freed when it is reaped.
THEOREM NothingLeaks == Spec => []NoTaskLeak
<1>1. Inv => NoTaskLeak
  BY DEF Inv, ListInv
<1> QED
  BY <1>1, Invariance, PTL

\* In a build that leaves next_task->cr3 in ECX when task_yield calls
\* switch_context, task_yield switches to a page directory and a stack that
\* are allocated, and interrupt frames do not pile up.  The hypothesis is one
\* the source does not establish (task.asm:29-36); the other theorems of this
\* module do without it.
THEOREM ContextCorrect ==
  ASSUME EcxHoldsCr3
  PROVE  Spec => []RunningOwnsContext
<1>1. Inv => RunningOwnsContext
  <2> SUFFICES ASSUME Inv PROVE RunningOwnsContext
    OBVIOUS
  <2>1. \A t \in AllTasks : frames[t] \in Stacks
    BY DEF Inv, FlagInv
  <2>2. current \in all_tasks_list
    BY DEF Inv, ListInv, ListsAgree
  <2>3. current # Kernel => Pieces \X {current} \subseteq allocated
    BY <2>2 DEF Inv, ListInv, NoTaskLeak, Pieces
  <2> QED
    BY <2>1, <2>3 DEF RunningOwnsContext, Stacks, Inv, ListInv
<1> QED
  BY <1>1, Invariance, PTL

\* The scheduler implements the round-robin queue of Sched.
THEOREM Refinement == Spec => SchedSpec
<1>1. task_init => S!Init
  <2> SUFFICES ASSUME task_init PROVE S!Init
    OBVIOUS
  <2>1. <<current>> \o ready_list = <<Kernel>>
    BY DEF task_init
  <2> QED
    BY <2>1 DEF task_init, S!Init
<1>2. Inv /\ [Next]_vars => [S!Next]_S!vars
  BY Step DEF SchedStep
<1> QED
  BY <1>1, <1>2, Invariance, PTL DEF Spec, SchedSpec, S!Spec
=============================================================================

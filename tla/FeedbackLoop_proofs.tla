------------------------ MODULE FeedbackLoop_proofs ------------------------
(***************************************************************************)
(* Proofs about FeedbackLoop, for every finite set of processes and every  *)
(* set of answers, any number of labels and any length of a day and of a   *)
(* cache's life.                                                           *)
(***************************************************************************)
EXTENDS FeedbackLoop, FiniteSetTheorems, SequenceTheorems, TLAPS

Label == [kind: {"attach"}, id: Ids, outcome: Verdicts]
Task == [kind: {"record"}, id: Ids] \cup Label
LabelRow == [id: Ids, outcome: Verdicts]
MissedRow == [id: Ids, outcome: Verdicts, by: Processes]
AnyRow == [id: Ids, outcome: Outcomes]
Counter == [passed: Nat, failed: Nat, queries: Nat]

\* One, when a label of the answer i with this outcome adds to the counter.
One(i, outcome, k, verdict) == IF k \in KeysOf(i) /\ outcome = verdict THEN 1 ELSE 0

----------------------------------------------------------------------------
(* Counting rows. *)

\* The rows of a verdict are finitely many.
LEMMA TimesIsNatural ==
  ASSUME NEW S, NEW s \in Seq(S), NEW k, NEW v
  PROVE  /\ IsFiniteSet({n \in DOMAIN s : k \in KeysOf(s[n].id) /\ s[n].outcome = v})
         /\ Times(s, k, v) \in Nat
PROOF
  <1> DEFINE T == {n \in DOMAIN s : k \in KeysOf(s[n].id) /\ s[n].outcome = v}
  <1>1. DOMAIN s = 1..Len(s) /\ Len(s) \in Nat
    OBVIOUS
  <1>2. IsFiniteSet(DOMAIN s)
    BY <1>1, FS_Interval
  <1>3. T \in SUBSET DOMAIN s
    OBVIOUS
  <1>4. IsFiniteSet(T)
    BY <1>2, <1>3, FS_Subset
  <1> QED BY <1>4, FS_CardinalityType DEF Times

\* Nothing is counted in no rows.
LEMMA TimesEmpty == \A k, v : Times(<<>>, k, v) = 0
PROOF
  <1>1. \A k, v : {n \in DOMAIN <<>> : k \in KeysOf(<<>>[n].id) /\ <<>>[n].outcome = v} = {}
    OBVIOUS
  <1> QED BY <1>1, FS_EmptySet DEF Times

\* A row more is one more of its verdict, for each of its counters.
LEMMA TimesAppend ==
  ASSUME NEW S, NEW s \in Seq(S), NEW row \in S, NEW k, NEW v
  PROVE  Times(Append(s, row), k, v) = Times(s, k, v) + One(row.id, row.outcome, k, v)
PROOF
  <1> DEFINE Rows(t) == {n \in DOMAIN t : k \in KeysOf(t[n].id) /\ t[n].outcome = v}
             last == Len(s) + 1
             longer == Append(s, row)
  <1>1. /\ DOMAIN s = 1..Len(s) /\ Len(s) \in Nat
        /\ DOMAIN longer = 1..last
        /\ longer[last] = row
        /\ \A n \in 1..Len(s) : longer[n] = s[n]
    BY AppendProperties
  <1>2. last \notin Rows(s)
    BY <1>1
  <1>3. IsFiniteSet(Rows(s)) /\ Times(s, k, v) \in Nat
    BY TimesIsNatural, ZenonT(60)
  <1>4. CASE k \in KeysOf(row.id) /\ row.outcome = v
    <2>1. Rows(longer) = Rows(s) \cup {last}
      BY <1>1, <1>4
    <2>2. Cardinality(Rows(longer)) = Cardinality(Rows(s)) + 1
      BY <2>1, <1>2, <1>3, FS_AddElement
    <2> QED BY <2>2, <1>4 DEF Times, One
  <1>5. CASE ~(k \in KeysOf(row.id) /\ row.outcome = v)
    <2>1. Rows(longer) = Rows(s)
      BY <1>1, <1>5
    <2>2. Times(longer, k, v) = Times(s, k, v)
      BY <2>1 DEF Times
    <2>3. One(row.id, row.outcome, k, v) = 0
      BY <1>5 DEF One
    <2> QED BY <2>2, <2>3, <1>3
  <1> QED BY <1>4, <1>5

----------------------------------------------------------------------------
(* Counting the labels that wait. *)

\* What is waiting, element by element.
LEMMA WaitingElements ==
  ASSUME NEW q \in [Processes -> Seq(Task)], NEW k, NEW v
  PROVE  \A x : x \in Waiting(q, k, v) <=>
           \E p \in Processes, n \in Nat :
              x = <<p, n>> /\ n \in 1..Len(q[p]) /\ IsLabel(q[p][n], k, v)
PROOF
  <1>1. \A p \in Processes : DOMAIN q[p] = 1..Len(q[p]) /\ Len(q[p]) \in Nat
    OBVIOUS
  <1> QED BY <1>1 DEF Waiting

\* Finitely many processes hold finitely many labels.
LEMMA WaitingIsFinite ==
  ASSUME NEW q \in [Processes -> Seq(Task)], NEW k, NEW v
  PROVE  IsFiniteSet(Waiting(q, k, v)) /\ Cardinality(Waiting(q, k, v)) \in Nat
PROOF
  <1> DEFINE Own(p) == {p} \X {n \in DOMAIN q[p] : IsLabel(q[p][n], k, v)}
             S == {Own(p) : p \in Processes}
             f == [p \in Processes |-> Own(p)]
  <1>1. ASSUME NEW p \in Processes PROVE IsFiniteSet(Own(p))
    <2>1. DOMAIN q[p] = 1..Len(q[p]) /\ Len(q[p]) \in Nat
      OBVIOUS
    <2>2. IsFiniteSet(DOMAIN q[p])
      BY <2>1, FS_Interval
    <2>3. {n \in DOMAIN q[p] : IsLabel(q[p][n], k, v)} \in SUBSET DOMAIN q[p]
      OBVIOUS
    <2>4. IsFiniteSet({n \in DOMAIN q[p] : IsLabel(q[p][n], k, v)}) /\ IsFiniteSet({p})
      BY <2>2, <2>3, FS_Subset, FS_Singleton
    <2> QED BY <2>4, FS_Product
  <1>2. f \in Surjection(Processes, S)
    BY DEF Surjection
  <1>3. IsFiniteSet(S)
    BY <1>2, FS_Surjection, FeedbackAssumption
  <1>4. IsFiniteSet(UNION S)
    <2>1. \A T \in S : IsFiniteSet(T)
      BY <1>1
    <2> HIDE DEF S
    <2> QED BY <2>1, <1>3, FS_UNION
  <1>5. IsFiniteSet(Waiting(q, k, v))
    BY <1>4 DEF Waiting
  <1> QED BY <1>5, FS_CardinalityType

\* The queues with a task more, or with the first of a queue done.
Longer(q, p, task) == [q EXCEPT ![p] = Append(@, task)]
Shorter(q, p) == [q EXCEPT ![p] = Tail(@)]

\* A label that is submitted waits at the end of its queue; a record is no label.
LEMMA WaitingSubmit ==
  ASSUME NEW q \in [Processes -> Seq(Task)], NEW p \in Processes, NEW task \in Task, NEW k, NEW v
  PROVE  Cardinality(Waiting(Longer(q, p, task), k, v))
           = Cardinality(Waiting(q, k, v)) + IF IsLabel(task, k, v) THEN 1 ELSE 0
PROOF
  <1> USE DEF Longer
  <1> DEFINE r == Longer(q, p, task)
             place == <<p, Len(q[p]) + 1>>
  <1>1. q[p] \in Seq(Task) /\ Len(q[p]) \in Nat
    OBVIOUS
  <1>2. /\ r \in [Processes -> Seq(Task)]
        /\ r[p] = Append(q[p], task)
        /\ \A s \in Processes \ {p} : r[s] = q[s]
    BY <1>1, AppendProperties
  <1>3. /\ Len(r[p]) = Len(q[p]) + 1 /\ r[p][Len(q[p]) + 1] = task
        /\ \A n \in 1..Len(q[p]) : r[p][n] = q[p][n]
    BY <1>1, <1>2, AppendProperties
  <1>0. \A x : x \in Waiting(r, k, v) <=>
           \E s \in Processes, n \in Nat :
              x = <<s, n>> /\ n \in 1..Len(r[s]) /\ IsLabel(r[s][n], k, v)
    BY <1>2, WaitingElements
  <1>a. \A x : x \in Waiting(q, k, v) <=>
           \E s \in Processes, n \in Nat :
              x = <<s, n>> /\ n \in 1..Len(q[s]) /\ IsLabel(q[s][n], k, v)
    BY WaitingElements
  <1>4. place \notin Waiting(q, k, v)
    BY <1>1, WaitingElements
  <1>5. IsFiniteSet(Waiting(q, k, v)) /\ Cardinality(Waiting(q, k, v)) \in Nat
    BY WaitingIsFinite
  <1>6. ASSUME NEW s \in Processes, NEW n \in Nat
        PROVE  (n \in 1..Len(r[s]) /\ IsLabel(r[s][n], k, v)) <=>
                 \/ n \in 1..Len(q[s]) /\ IsLabel(q[s][n], k, v)
                 \/ <<s, n>> = place /\ IsLabel(task, k, v)
    <2>1. CASE s = p
      <3>1. n \in 1..Len(r[p]) <=> n \in 1..Len(q[p]) \/ n = Len(q[p]) + 1
        BY <1>1, <1>3
      <3> QED BY <2>1, <3>1, <1>1, <1>3
    <2>2. CASE s # p
      BY <2>2, <1>2
    <2> QED BY <2>1, <2>2
  <1>7. CASE IsLabel(task, k, v)
    <2>1. Waiting(r, k, v) = Waiting(q, k, v) \cup {place}
      <3>1. place[1] \in Processes /\ Len(q[p]) + 1 \in Nat
        BY <1>1
      <3>2. ASSUME NEW x PROVE x \in Waiting(r, k, v) <=> x \in Waiting(q, k, v) \/ x = place
        <4>1. ASSUME NEW s \in Processes, NEW n \in Nat
              PROVE  (n \in 1..Len(r[s]) /\ IsLabel(r[s][n], k, v)) <=>
                        (n \in 1..Len(q[s]) /\ IsLabel(q[s][n], k, v)) \/ <<s, n>> = place
          BY <1>6, <1>7
        <4>2. x = place => \E s \in Processes, n \in Nat : x = <<s, n>> /\ <<s, n>> = place
          BY <3>1
        <4> HIDE DEF r, place
        <4> QED BY <1>0, <1>a, <4>1, <4>2, SMTT(60)
      <3> QED BY <3>2
    <2> QED BY <2>1, <1>4, <1>5, <1>7, FS_AddElement
  <1>8. CASE ~IsLabel(task, k, v)
    <2>1. Waiting(r, k, v) = Waiting(q, k, v)
      <3>1. ASSUME NEW x PROVE x \in Waiting(r, k, v) <=> x \in Waiting(q, k, v)
        BY <1>0, <1>a, <1>6, <1>8
      <3> QED BY <3>1
    <2> QED BY <2>1, <1>5, <1>8
  <1> QED BY <1>7, <1>8

\* The first task of a queue is done: one label fewer, when it is one.
LEMMA WaitingTail ==
  ASSUME NEW q \in [Processes -> Seq(Task)], NEW p \in Processes, q[p] # <<>>, NEW k, NEW v
  PROVE  Cardinality(Waiting(q, k, v))
           = Cardinality(Waiting(Shorter(q, p), k, v)) + IF IsLabel(Head(q[p]), k, v) THEN 1 ELSE 0
PROOF
  <1> USE DEF Shorter
  <1> DEFINE r == Shorter(q, p)
             first == <<p, 1>>
             S == Waiting(r, k, v)
             T == Waiting(q, k, v) \ {first}
             f == [x \in S |-> IF x[1] = p THEN <<p, x[2] + 1>> ELSE x]
  <1>1. q[p] \in Seq(Task) /\ Len(q[p]) \in Nat /\ Len(q[p]) >= 1
    OBVIOUS
  <1>2. /\ r \in [Processes -> Seq(Task)]
        /\ r[p] = Tail(q[p])
        /\ \A s \in Processes \ {p} : r[s] = q[s]
    BY <1>1, HeadTailProperties
  <1>3. /\ Len(r[p]) = Len(q[p]) - 1 /\ Head(q[p]) = q[p][1]
        /\ \A n \in 1..Len(r[p]) : r[p][n] = q[p][n + 1]
    BY <1>1, <1>2, HeadTailProperties
  <1>4. /\ IsFiniteSet(S) /\ Cardinality(S) \in Nat
        /\ IsFiniteSet(Waiting(q, k, v)) /\ Cardinality(Waiting(q, k, v)) \in Nat
    BY <1>2, WaitingIsFinite
  <1>0. \A x : x \in S <=>
           \E s \in Processes, n \in Nat :
              x = <<s, n>> /\ n \in 1..Len(r[s]) /\ IsLabel(r[s][n], k, v)
    BY <1>2, WaitingElements
  <1>5. ASSUME NEW x \in S
        PROVE  /\ \E s \in Processes, n \in Nat : x = <<s, n>>
               /\ f[x] \in T
    <2>1. PICK s \in Processes, n \in Nat :
             x = <<s, n>> /\ n \in 1..Len(r[s]) /\ IsLabel(r[s][n], k, v)
      BY <1>0
    <2>2. CASE s = p
      <3>1. f[x] = <<p, n + 1>> /\ n + 1 \in 1..Len(q[p]) /\ n + 1 # 1
        BY <2>1, <2>2, <1>1, <1>3
      <3>2. IsLabel(q[p][n + 1], k, v)
        BY <2>1, <2>2, <1>3
      <3>3. f[x] \in Waiting(q, k, v)
        BY <3>1, <3>2, WaitingElements
      <3> QED BY <2>1, <3>1, <3>3
    <2>3. CASE s # p
      <3>1. f[x] = x /\ x # first
        BY <2>1, <2>3
      <3>2. x \in Waiting(q, k, v)
        BY <2>1, <2>3, <1>2, WaitingElements, SMTT(60)
      <3> QED BY <2>1, <3>1, <3>2
    <2> QED BY <2>2, <2>3
  <1>6. f \in [S -> T]
    BY <1>5
  <1>7. ASSUME NEW x \in S, NEW y \in S, f[x] = f[y] PROVE x = y
    <2>1. PICK s \in Processes, n \in Nat : x = <<s, n>>
      BY <1>5
    <2>2. PICK t \in Processes, m \in Nat : y = <<t, m>>
      BY <1>5
    <2>3. /\ f[x] = IF s = p THEN <<p, n + 1>> ELSE <<s, n>>
          /\ f[y] = IF t = p THEN <<p, m + 1>> ELSE <<t, m>>
      BY <2>1, <2>2
    <2> QED BY <1>7, <2>1, <2>2, <2>3
  <1>8. ASSUME NEW y \in T PROVE \E x \in S : f[x] = y
    <2>1. PICK t \in Processes, m \in Nat :
             y = <<t, m>> /\ m \in 1..Len(q[t]) /\ IsLabel(q[t][m], k, v)
      BY WaitingElements
    <2>2. CASE t = p
      <3>1. m # 1
        BY <2>1, <2>2
      <3>2. m - 1 \in Nat /\ m - 1 \in 1..Len(r[p]) /\ (m - 1) + 1 = m
        BY <2>1, <2>2, <3>1, <1>1, <1>3
      <3>3. IsLabel(r[p][m - 1], k, v)
        BY <2>1, <2>2, <3>2, <1>3
      <3>4. <<p, m - 1>> \in S
        BY <3>2, <3>3, <1>2, WaitingElements
      <3>5. f[<<p, m - 1>>] = y
        BY <3>2, <3>4, <2>1, <2>2
      <3> QED BY <3>4, <3>5
    <2>3. CASE t # p
      <3>1. y \in S
        BY <2>1, <2>3, <1>2, WaitingElements, ZenonT(60)
      <3> QED BY <3>1, <2>1, <2>3
    <2> QED BY <2>2, <2>3
  <1>9. ExistsBijection(S, T)
    <2> HIDE DEF f, S, T
    <2>1. IsInjective(f)
      BY <1>6, <1>7 DEF IsInjective
    <2>2. f \in Bijection(S, T)
      BY <1>6, <1>8, <2>1 DEF Bijection, Injection, Surjection
    <2> QED BY <2>2 DEF ExistsBijection
  <1>10. Cardinality(T) = Cardinality(S)
    BY <1>4, <1>9, FS_Bijection
  <1>11. first \in Waiting(q, k, v) <=> IsLabel(Head(q[p]), k, v)
    BY <1>1, <1>3, WaitingElements
  <1>12. Cardinality(T) = IF first \in Waiting(q, k, v) THEN Cardinality(Waiting(q, k, v)) - 1
                          ELSE Cardinality(Waiting(q, k, v))
    BY <1>4, FS_RemoveElement
  <1> QED BY <1>4, <1>10, <1>11, <1>12

\* A process that restarts forgets labels and nothing else.
LEMMA WaitingForgets ==
  ASSUME NEW q \in [Processes -> Seq(Task)], NEW p \in Processes, NEW k, NEW v
  PROVE  Cardinality(Waiting([q EXCEPT ![p] = <<>>], k, v)) <= Cardinality(Waiting(q, k, v))
PROOF
  <1> DEFINE r == [q EXCEPT ![p] = <<>>]
             Waits(t, x) == \E s \in Processes, n \in Nat :
                              x = <<s, n>> /\ n \in 1..Len(t[s]) /\ IsLabel(t[s][n], k, v)
  <1>1. r \in [Processes -> Seq(Task)] /\ r[p] = <<>> /\ \A s \in Processes \ {p} : r[s] = q[s]
    OBVIOUS
  <1> HIDE DEF r
  <1>2. \A x : x \in Waiting(r, k, v) <=> Waits(r, x)
    BY <1>1, WaitingElements
  <1>3. \A x : x \in Waiting(q, k, v) <=> Waits(q, x)
    BY WaitingElements
  <1>4. ASSUME NEW x, Waits(r, x) PROVE Waits(q, x)
    <2>1. PICK s \in Processes, n \in Nat :
             x = <<s, n>> /\ n \in 1..Len(r[s]) /\ IsLabel(r[s][n], k, v)
      BY <1>4
    <2>2. s # p
      BY <2>1, <1>1
    <2>3. n \in 1..Len(q[s]) /\ IsLabel(q[s][n], k, v)
      BY <1>1, <2>1, <2>2
    <2> QED BY <2>1, <2>3
  <1>5. Waiting(r, k, v) \in SUBSET Waiting(q, k, v)
    <2> HIDE DEF Waits
    <2> QED BY <1>2, <1>3, <1>4
  <1>6. IsFiniteSet(Waiting(q, k, v))
    BY WaitingIsFinite
  <1>7. Cardinality(Waiting(r, k, v)) <= Cardinality(Waiting(q, k, v))
    BY <1>5, <1>6, FS_Subset
  <1> QED BY <1>7 DEF r

----------------------------------------------------------------------------
(* Types, and what a label is worked on. *)

\* A label is worked on while it is the first of the queue.
QueueTypes ==
    /\ queue \in [Processes -> Seq(Task)]
    /\ work \in [Processes -> Label \cup {None}]
    /\ \A p \in Processes : work[p] # None => queue[p] # <<>> /\ work[p] = Head(queue[p])

StoreTypes ==
    /\ backend \in [Processes -> Backends]
    /\ lines \in Seq(AnyRow)
    /\ reqs \in [Ids -> Outcomes \cup {None}]
    /\ agg \in [Keys -> Counter]
    /\ index \in [Processes -> [Ids -> Outcomes \cup {None}]]

HistoryTypes ==
    /\ now \in Nat /\ faults \in Nat
    /\ from = [i \in Ids |-> from[i]]
    /\ labels \in Seq(LabelRow)
    /\ missed \in Seq(MissedRow)
    /\ attached \in [Backends -> Nat]

LoopTypes == QueueTypes /\ StoreTypes /\ HistoryTypes

\* Types of what a thread takes from its queue.
LEMMA HeadIsTask ==
  ASSUME QueueTypes, NEW p \in Processes, queue[p] # <<>>
  PROVE  /\ Head(queue[p]) \in Task
         /\ [queue EXCEPT ![p] = Tail(@)] \in [Processes -> Seq(Task)]
         /\ Head(queue[p]).id \in Ids
         /\ Head(queue[p]).kind = "attach" => Head(queue[p]) \in Label
PROOF
  <1>1. queue[p] \in Seq(Task)
    BY DEF QueueTypes
  <1>2. Head(queue[p]) \in Task /\ Tail(queue[p]) \in Seq(Task)
    BY <1>1, HeadTailProperties
  <1>3. [queue EXCEPT ![p] = Tail(@)] \in [Processes -> Seq(Task)]
    BY <1>2 DEF QueueTypes
  <1> QED BY <1>2, <1>3 DEF Task, Label

\* The label that is worked on.
LEMMA WorkIsLabel ==
  ASSUME QueueTypes, NEW p \in Processes, work[p] # None
  PROVE  /\ work[p] \in Label /\ queue[p] # <<>> /\ work[p] = Head(queue[p])
         /\ work[p].id \in Ids /\ work[p].outcome \in Verdicts /\ work[p].kind = "attach"
  BY DEF QueueTypes, Label

\* A task handed to a thread, which keeps what it works on.
LEMMA SubmitType ==
  ASSUME QueueTypes, NEW p \in Processes, NEW task \in Task, Submit(p, task), UNCHANGED work
  PROVE  QueueTypes'
PROOF
  <1>1. queue[p] \in Seq(Task) /\ queue' = [queue EXCEPT ![p] = Append(queue[p], task)]
    BY DEF QueueTypes, Submit
  <1>2. /\ Append(queue[p], task) \in Seq(Task) /\ Append(queue[p], task) # <<>>
        /\ queue[p] # <<>> => Head(Append(queue[p], task)) = Head(queue[p])
    BY <1>1, AppendProperties, HeadTailAppend
  <1>3. queue' \in [Processes -> Seq(Task)]
    BY <1>1, <1>2 DEF QueueTypes
  <1>4. ASSUME NEW q \in Processes, work'[q] # None
        PROVE  queue'[q] # <<>> /\ work'[q] = Head(queue'[q])
    <2>1. work[q] # None /\ queue[q] # <<>> /\ work[q] = Head(queue[q])
      BY <1>4 DEF QueueTypes
    <2>2. queue'[q] = IF q = p THEN Append(queue[p], task) ELSE queue[q]
      BY <1>1 DEF QueueTypes
    <2> QED BY <1>2, <2>1, <2>2
  <1>5. work' \in [Processes -> Label \cup {None}]
    BY DEF QueueTypes
  <1> QED BY <1>3, <1>4, <1>5 DEF QueueTypes

\* The first task leaves, and nothing is worked on.
LEMMA NextTaskType ==
  ASSUME QueueTypes, NEW p \in Processes, queue[p] # <<>>, NextTask(p),
         work' = [work EXCEPT ![p] = None] \/ (work[p] = None /\ UNCHANGED work)
  PROVE  QueueTypes'
PROOF
  <1>1. queue' \in [Processes -> Seq(Task)]
    BY HeadIsTask DEF NextTask
  <1>2. /\ work' \in [Processes -> Label \cup {None}] /\ work'[p] = None
        /\ \A q \in Processes \ {p} : work'[q] = work[q] /\ queue'[q] = queue[q]
    BY DEF QueueTypes, NextTask
  <1>3. ASSUME NEW q \in Processes, work'[q] # None
        PROVE  queue'[q] # <<>> /\ work'[q] = Head(queue'[q])
    BY <1>2, <1>3 DEF QueueTypes
  <1> QED BY <1>1, <1>2, <1>3 DEF QueueTypes

\* The types hold at the start.
LEMMA TypesInit == Init => LoopTypes
PROOF
  <1> SUFFICES ASSUME Init PROVE LoopTypes
    OBVIOUS
  <1>1. QueueTypes
    BY DEF Init, QueueTypes
  <1>2. StoreTypes
    BY DEF Init, StoreTypes, Zero, Counter
  <1>3. HistoryTypes
    BY DEF Init, HistoryTypes
  <1> QED BY <1>1, <1>2, <1>3 DEF LoopTypes

\* A counter is a record of three numbers.
LEMMA CounterFields ==
  ASSUME NEW c \in Counter
  PROVE  /\ c = [passed |-> c.passed, failed |-> c.failed, queries |-> c.queries]
         /\ c.passed \in Nat /\ c.failed \in Nat /\ c.queries \in Nat
         /\ \A v \in Verdicts : c[v] \in Nat
  BY DEF Counter, Verdicts

\* What recording does to the counters: queries only.
LEMMA RecordedCounters ==
  ASSUME StoreTypes, NEW p \in Processes, Records(p)
  PROVE  /\ agg' \in [Keys -> Counter]
         /\ \A k \in Keys, v \in Verdicts : agg'[k][v] = agg[k][v] /\ agg[k][v] \in Nat
PROOF
  <1> DEFINE i == Head(queue[p]).id
  <1>1. \A k \in Keys : agg[k] \in Counter
    BY DEF StoreTypes
  <1>2. CASE backend[p] = "redis"
    <2>1. agg' = [k \in Keys |-> IF k \in KeysOf(i) THEN [agg[k] EXCEPT !.queries = @ + 1] ELSE agg[k]]
      BY <1>2 DEF Records
    <2>2. ASSUME NEW k \in Keys
          PROVE  agg'[k] \in Counter /\ \A v \in Verdicts : agg'[k][v] = agg[k][v] /\ agg[k][v] \in Nat
      <3>1. agg[k] \in Counter /\ \A v \in Verdicts : agg[k][v] \in Nat
        BY <1>1, CounterFields
      <3>2. CASE k \in KeysOf(i)
        <4>1. agg'[k] = [agg[k] EXCEPT !.queries = @ + 1]
          BY <2>1, <3>2
        <4>2. agg'[k] = [passed |-> agg[k].passed, failed |-> agg[k].failed,
                         queries |-> agg[k].queries + 1]
          BY <4>1, <3>1 DEF Counter
        <4> QED BY <4>2, <3>1, CounterFields DEF Counter, Verdicts
      <3>3. CASE k \notin KeysOf(i)
        BY <2>1, <3>1, <3>3
      <3> QED BY <3>2, <3>3
    <2>3. agg' = [k \in Keys |-> agg'[k]]
      BY <2>1
    <2> QED BY <2>2, <2>3
  <1>3. CASE backend[p] # "redis"
    <2>1. agg' = agg
      BY <1>3 DEF Records
    <2>2. ASSUME NEW k \in Keys, NEW v \in Verdicts PROVE agg[k][v] \in Nat
      BY <1>1, CounterFields
    <2> QED BY <2>1, <2>2 DEF StoreTypes
  <1> QED BY <1>2, <1>3

\* What attaching does: one more for the verdict, in each counter of the request.
LEMMA AttachedCounters ==
  ASSUME LoopTypes, NEW p \in Processes, AttachesRedis(p)
  PROVE  /\ agg' \in [Keys -> Counter]
         /\ \A k \in Keys, v \in Verdicts :
               /\ agg[k][v] \in Nat
               /\ agg'[k][v] = agg[k][v] + One(work[p].id, work[p].outcome, k, v)
PROOF
  <1> DEFINE i == work[p].id
             o == work[p].outcome
  <1>1. o \in Verdicts /\ \A k \in Keys : agg[k] \in Counter
    BY WorkIsLabel DEF AttachesRedis, LoopTypes, StoreTypes
  <1>2. agg' = [k \in Keys |-> IF k \in KeysOf(i) THEN [agg[k] EXCEPT ![o] = @ + 1] ELSE agg[k]]
    BY DEF AttachesRedis, Incremented
  <1>3. ASSUME NEW k \in Keys
        PROVE  /\ agg'[k] \in Counter
               /\ \A v \in Verdicts : agg[k][v] \in Nat /\ agg'[k][v] = agg[k][v] + One(i, o, k, v)
    <2> DEFINE c == agg[k]
    <2>1. c \in Counter /\ \A v \in Verdicts : c[v] \in Nat
      BY <1>1, CounterFields
    <2>2. CASE k \in KeysOf(i)
      <3>1. agg'[k] = [c EXCEPT ![o] = @ + 1]
        BY <1>2, <2>2
      <3>2. CASE o = "passed"
        <4>1. agg'[k] = [passed |-> c.passed + 1, failed |-> c.failed, queries |-> c.queries]
          BY <3>1, <3>2, <2>1 DEF Counter
        <4>2. One(i, o, k, "passed") = 1 /\ One(i, o, k, "failed") = 0
          BY <2>2, <3>2 DEF One
        <4> QED BY <4>1, <4>2, <2>1, CounterFields DEF Counter, Verdicts
      <3>3. CASE o = "failed"
        <4>1. agg'[k] = [passed |-> c.passed, failed |-> c.failed + 1, queries |-> c.queries]
          BY <3>1, <3>3, <2>1 DEF Counter
        <4>2. One(i, o, k, "passed") = 0 /\ One(i, o, k, "failed") = 1
          BY <2>2, <3>3 DEF One
        <4> QED BY <4>1, <4>2, <2>1, CounterFields DEF Counter, Verdicts
      <3> QED BY <3>2, <3>3, <1>1 DEF Verdicts
    <2>3. CASE k \notin KeysOf(i)
      <3>1. agg'[k] = c
        BY <1>2, <2>3
      <3>2. \A v \in Verdicts : One(i, o, k, v) = 0
        BY <2>3 DEF One
      <3> QED BY <3>1, <3>2, <2>1
    <2> QED BY <2>2, <2>3
  <1>4. agg' = [k \in Keys |-> agg'[k]]
    BY <1>2
  <1> QED BY <1>3, <1>4

\* The types of a recorder thread's steps.
LEMMA RecordsTypes ==
  ASSUME LoopTypes, NEW p \in Processes, Records(p)
  PROVE  LoopTypes'
PROOF
  <1> DEFINE i == Head(queue[p]).id
  <1>1. i \in Ids /\ QueueTypes'
    BY HeadIsTask, NextTaskType DEF LoopTypes, Records, Doing
  <1>2. /\ "unlabelled" \in Outcomes
        /\ Row(i, "unlabelled") \in AnyRow
    BY <1>1 DEF Row, AnyRow, Outcomes
  <1>3. /\ lines' \in Seq(AnyRow) /\ reqs' \in [Ids -> Outcomes \cup {None}]
        /\ index' \in [Processes -> [Ids -> Outcomes \cup {None}]]
    <2>1. CASE backend[p] = "redis"
      BY <1>1, <1>2, <2>1 DEF Records, LoopTypes, StoreTypes
    <2>2. CASE backend[p] # "redis"
      <3>1. lines' = Append(lines, Row(i, "unlabelled")) /\ reqs' = reqs
            /\ index' = [index EXCEPT ![p][i] = "unlabelled"]
        BY <2>2 DEF Records, Writes
      <3> QED BY <1>1, <1>2, <3>1, AppendProperties DEF LoopTypes, StoreTypes
    <2> QED BY <2>1, <2>2
  <1>4. StoreTypes'
    BY <1>3, RecordedCounters DEF LoopTypes, StoreTypes, Records
  <1>5. HistoryTypes'
    BY DEF LoopTypes, HistoryTypes, Records, history
  <1> QED BY <1>1, <1>4, <1>5 DEF LoopTypes

\* A miss is remembered with its process.
LEMMA MissType ==
  ASSUME LoopTypes, NEW p \in Processes, Doing(p, "attach"), Misses(p, Head(queue[p]))
  PROVE  missed' \in Seq(MissedRow)
PROOF
  <1> DEFINE task == Head(queue[p])
  <1>1. task \in Label
    BY HeadIsTask DEF LoopTypes, Doing
  <1>2. [id |-> task.id, outcome |-> task.outcome, by |-> p] \in MissedRow
    BY <1>1 DEF Label, MissedRow
  <1> QED BY <1>2, AppendProperties DEF LoopTypes, HistoryTypes, Misses

LEMMA ReadsTypes ==
  ASSUME LoopTypes, NEW p \in Processes, ReadsRequest(p)
  PROVE  LoopTypes'
PROOF
  <1> DEFINE task == Head(queue[p])
  <1>1. queue[p] # <<>> /\ work[p] = None /\ task \in Label
    BY HeadIsTask DEF LoopTypes, ReadsRequest, Doing
  <1>2. StoreTypes'
    BY DEF LoopTypes, StoreTypes, ReadsRequest
  <1>3. CASE reqs[task.id] = None
    <2>1. NextTask(p) /\ Misses(p, task) /\ UNCHANGED work
      BY <1>3 DEF ReadsRequest
    <2>2. QueueTypes'
      BY <1>1, <2>1, NextTaskType DEF LoopTypes
    <2>3. missed' \in Seq(MissedRow)
      BY <2>1, MissType DEF ReadsRequest
    <2>4. HistoryTypes'
      BY <2>3 DEF LoopTypes, HistoryTypes, ReadsRequest
    <2> QED BY <1>2, <2>2, <2>4 DEF LoopTypes
  <1>4. CASE reqs[task.id] # None
    <2>1. work' = [work EXCEPT ![p] = task] /\ UNCHANGED <<queue, missed>>
      BY <1>4 DEF ReadsRequest
    <2>2. QueueTypes'
      BY <1>1, <2>1 DEF LoopTypes, QueueTypes
    <2>3. HistoryTypes'
      BY <2>1 DEF LoopTypes, HistoryTypes, ReadsRequest
    <2> QED BY <1>2, <2>2, <2>3 DEF LoopTypes
  <1> QED BY <1>3, <1>4

LEMMA AttachesRedisTypes ==
  ASSUME LoopTypes, NEW p \in Processes, AttachesRedis(p)
  PROVE  LoopTypes'
PROOF
  <1>1. /\ work[p] # None /\ queue[p] # <<>>
        /\ work[p].id \in Ids /\ work[p].outcome \in Outcomes
    BY WorkIsLabel DEF LoopTypes, AttachesRedis, Outcomes
  <1>2. QueueTypes'
    BY <1>1, NextTaskType DEF LoopTypes, AttachesRedis
  <1>3. StoreTypes'
    <2>1. reqs' \in [Ids -> Outcomes \cup {None}]
      BY <1>1 DEF LoopTypes, StoreTypes, AttachesRedis
    <2> QED BY <2>1, AttachedCounters DEF LoopTypes, StoreTypes, AttachesRedis
  <1>4. HistoryTypes'
    BY DEF LoopTypes, HistoryTypes, AttachesRedis, Backends
  <1> QED BY <1>2, <1>3, <1>4 DEF LoopTypes

\* A label for the files is found, and written, or missed.
LEMMA AttachesJsonlCases ==
  ASSUME LoopTypes, NEW p \in Processes, AttachesJsonl(p)
  PROVE  LET task == Head(queue[p])
         IN  /\ task \in Label /\ work[p] = None /\ queue[p] # <<>> /\ NextTask(p)
             /\ UNCHANGED <<backend, work, reqs, agg, hints, asking, now, faults, from, labels, known>>
             /\ \/ /\ index[p][task.id] = None
                   /\ Misses(p, task) /\ UNCHANGED <<lines, index, attached>>
                \/ /\ lines' = Append(lines, Row(task.id, task.outcome))
                   /\ index' = [index EXCEPT ![p][task.id] = task.outcome]
                   /\ attached' = [attached EXCEPT !["jsonl"] = @ + 1]
                   /\ UNCHANGED missed
PROOF
  <1>1. Head(queue[p]) \in Label
    BY HeadIsTask DEF LoopTypes, AttachesJsonl, Doing
  <1> QED BY <1>1 DEF AttachesJsonl, Doing, Writes

LEMMA AttachesJsonlTypes ==
  ASSUME LoopTypes, NEW p \in Processes, AttachesJsonl(p)
  PROVE  LoopTypes'
PROOF
  <1> DEFINE task == Head(queue[p])
  <1>1. task \in Label /\ work[p] = None /\ queue[p] # <<>> /\ NextTask(p)
        /\ UNCHANGED <<backend, work, reqs, agg, now, faults, from, labels>>
    BY AttachesJsonlCases
  <1>2. QueueTypes'
    BY <1>1, NextTaskType DEF LoopTypes
  <1>3. CASE Misses(p, task) /\ UNCHANGED <<lines, index, attached>>
    <2>1. missed' \in Seq(MissedRow)
      BY <1>3, MissType DEF AttachesJsonl
    <2> QED BY <1>1, <1>2, <1>3, <2>1 DEF LoopTypes, StoreTypes, HistoryTypes
  <1>4. CASE /\ lines' = Append(lines, Row(task.id, task.outcome))
             /\ index' = [index EXCEPT ![p][task.id] = task.outcome]
             /\ attached' = [attached EXCEPT !["jsonl"] = @ + 1]
             /\ UNCHANGED missed
    <2>1. task.id \in Ids /\ task.outcome \in Outcomes /\ Row(task.id, task.outcome) \in AnyRow
      BY <1>1 DEF Label, Outcomes, Row, AnyRow
    <2>2. lines' \in Seq(AnyRow)
      BY <1>4, <2>1, AppendProperties DEF LoopTypes, StoreTypes
    <2>3. index' \in [Processes -> [Ids -> Outcomes \cup {None}]]
      BY <1>4, <2>1 DEF LoopTypes, StoreTypes
    <2>4. StoreTypes'
      BY <1>1, <2>2, <2>3 DEF LoopTypes, StoreTypes
    <2>5. HistoryTypes'
      BY <1>1, <1>4 DEF LoopTypes, HistoryTypes, Backends
    <2> QED BY <1>2, <2>4, <2>5 DEF LoopTypes
  <1> QED BY <1>3, <1>4, AttachesJsonlCases

\* Every step keeps the types.
LEMMA TypesStep ==
  ASSUME LoopTypes, [Next]_vars
  PROVE  LoopTypes'
PROOF
  <1>1. ASSUME NEW p \in Routers, NEW i \in Ids, Answers(p, i) PROVE LoopTypes'
    <2>1. p \in Processes /\ [kind |-> "record", id |-> i] \in Task
      BY FeedbackAssumption DEF Task
    <2>2. QueueTypes'
      BY <1>1, <2>1, SubmitType DEF Answers, LoopTypes
    <2>3. from' = [j \in Ids |-> from'[j]]
      BY <1>1 DEF Answers, LoopTypes, HistoryTypes
    <2>4. HistoryTypes'
      BY <1>1, <2>3 DEF Answers, LoopTypes, HistoryTypes
    <2>5. StoreTypes'
      BY <1>1 DEF Answers, LoopTypes, StoreTypes
    <2> QED BY <2>2, <2>4, <2>5 DEF LoopTypes
  <1>2. ASSUME NEW p \in Processes, NEW i \in Ids, NEW v \in Votes[i], Labels(p, i, v)
        PROVE  LoopTypes'
    <2>1. /\ v \in Verdicts
          /\ [kind |-> "attach", id |-> i, outcome |-> v] \in Task
          /\ Row(i, v) \in LabelRow
      BY FeedbackAssumption DEF Task, Label, Row, LabelRow
    <2>2. QueueTypes'
      BY <1>2, <2>1, SubmitType DEF Labels, LoopTypes
    <2>3. labels' \in Seq(LabelRow)
      BY <1>2, <2>1, AppendProperties DEF Labels, LoopTypes, HistoryTypes
    <2>4. HistoryTypes'
      BY <1>2, <2>3 DEF Labels, LoopTypes, HistoryTypes
    <2>5. StoreTypes'
      BY <1>2 DEF Labels, LoopTypes, StoreTypes
    <2> QED BY <2>2, <2>4, <2>5 DEF LoopTypes
  <1>3. ASSUME NEW p \in Processes, Recorder(p) PROVE LoopTypes'
    BY <1>3, RecordsTypes, ReadsTypes, AttachesRedisTypes, AttachesJsonlTypes DEF Recorder
  <1>4. ASSUME NEW p \in Processes, TaskFails(p) PROVE LoopTypes'
    <2>1. QueueTypes'
      BY <1>4, NextTaskType DEF TaskFails, LoopTypes
    <2> QED BY <1>4, <2>1 DEF TaskFails, Faults, LoopTypes, StoreTypes, HistoryTypes, history
  <1>5. ASSUME NEW p \in Processes, ProcessRestarts(p) PROVE LoopTypes'
    <2>1. QueueTypes'
      BY <1>5 DEF ProcessRestarts, LoopTypes, QueueTypes
    <2>2. StoreTypes'
      BY <1>5 DEF ProcessRestarts, LoopTypes, StoreTypes
    <2>3. HistoryTypes'
      BY <1>5 DEF ProcessRestarts, Faults, LoopTypes, HistoryTypes, history
    <2> QED BY <2>1, <2>2, <2>3 DEF LoopTypes
  <1>6. ASSUME NEW i \in Ids, RequestExpires(i) PROVE LoopTypes'
    BY <1>6 DEF RequestExpires, Faults, LoopTypes, QueueTypes, StoreTypes, HistoryTypes, history
  <1>7. ASSUME NEW dim, NEW agent, CountersExpire(dim, agent) PROVE LoopTypes'
    <2>1. Zero \in Counter
      BY DEF Zero, Counter
    <2>2. agg' \in [Keys -> Counter]
      BY <1>7, <2>1 DEF CountersExpire, LoopTypes, StoreTypes
    <2> QED BY <1>7, <2>2
            DEF CountersExpire, Faults, LoopTypes, QueueTypes, StoreTypes, HistoryTypes, history
  <1>8. ASSUME NEW p, Aggregates(p) \/ CachesHint(p) \/ \E key \in Policies : LooksUp(p, key)
        PROVE  LoopTypes'
    BY <1>8 DEF Aggregates, CachesHint, LooksUp, LoopTypes, QueueTypes, StoreTypes, HistoryTypes,
                history, store
  <1>9. CASE Tick
    BY <1>9 DEF Tick, LoopTypes, QueueTypes, StoreTypes, HistoryTypes, store
  <1>10. CASE UNCHANGED vars
    BY <1>10 DEF vars, LoopTypes, QueueTypes, StoreTypes, HistoryTypes, history, store
  <1> QED BY <1>1, <1>2, <1>3, <1>4, <1>5, <1>6, <1>7, <1>8, <1>9, <1>10 DEF Next

\* Whatever fails or restarts, a thread works on a label that is the first of
\* its queue, and stores and counters hold what they are made for.
THEOREM FeedbackTypes == Spec => []FeedbackTypeOK
PROOF
  <1>1. LoopTypes => FeedbackTypeOK
    <2> SUFFICES ASSUME LoopTypes PROVE FeedbackTypeOK
      OBVIOUS
    <2>1. \A k \in Keys : agg[k].queries \in Nat
      BY CounterFields DEF LoopTypes, StoreTypes
    <2>2. \A i \in Ids : reqs[i] \in Outcomes \cup {None}
      BY DEF LoopTypes, StoreTypes
    <2> QED BY <2>1, <2>2 DEF LoopTypes, StoreTypes, QueueTypes, FeedbackTypeOK
  <1> QED BY <1>1, TypesInit, TypesStep, PTL DEF Spec

----------------------------------------------------------------------------
(* Every label is accounted for. *)

\* What became of the labels of a verdict.
Found(k, v) ==
    agg[k][v] + Times(lines, k, v) + Cardinality(Waiting(queue, k, v)) + Times(missed, k, v)

\* The same after a step.
FoundNext(k, v) ==
    agg'[k][v] + Times(lines', k, v) + Cardinality(Waiting(queue', k, v)) + Times(missed', k, v)

Accounted ==
    \A k \in Keys, v \in Verdicts :
        /\ Found(k, v) <= Times(labels, k, v)
        /\ faults = 0 => Found(k, v) = Times(labels, k, v)

\* All that is counted is a number.
LEMMA FoundNumbers ==
  ASSUME LoopTypes, NEW k \in Keys, NEW v \in Verdicts
  PROVE  /\ agg[k][v] \in Nat /\ Times(lines, k, v) \in Nat
         /\ Cardinality(Waiting(queue, k, v)) \in Nat
         /\ Times(missed, k, v) \in Nat /\ Times(labels, k, v) \in Nat
PROOF
  <1>1. agg[k] \in Counter
    BY DEF LoopTypes, StoreTypes
  <1>2. agg[k][v] \in Nat
    BY <1>1, CounterFields
  <1>3. Times(lines, k, v) \in Nat
    BY TimesIsNatural DEF LoopTypes, StoreTypes
  <1>4. Times(missed, k, v) \in Nat
    BY TimesIsNatural DEF LoopTypes, HistoryTypes
  <1>5. Times(labels, k, v) \in Nat
    BY TimesIsNatural DEF LoopTypes, HistoryTypes
  <1>6. Cardinality(Waiting(queue, k, v)) \in Nat
    BY WaitingIsFinite DEF LoopTypes, QueueTypes
  <1> QED BY <1>2, <1>3, <1>4, <1>5, <1>6

\* The label of the first task is one of those that wait.
LEMMA FirstLabelLeaves ==
  ASSUME LoopTypes, NEW p \in Processes, queue[p] # <<>>, NextTask(p),
         NEW k \in Keys, NEW v \in Verdicts
  PROVE  LET task == Head(queue[p])
         IN  Cardinality(Waiting(queue, k, v)) = Cardinality(Waiting(queue', k, v))
               + IF task.kind = "attach" THEN One(task.id, task.outcome, k, v) ELSE 0
PROOF
  <1>1. queue' = Shorter(queue, p) /\ queue \in [Processes -> Seq(Task)]
    BY DEF NextTask, Shorter, LoopTypes, QueueTypes
  <1>2. Cardinality(Waiting(queue, k, v))
          = Cardinality(Waiting(Shorter(queue, p), k, v))
              + IF IsLabel(Head(queue[p]), k, v) THEN 1 ELSE 0
    BY <1>1, WaitingTail
  <1> QED BY <1>1, <1>2 DEF IsLabel, One

\* Nothing is accepted and nothing is counted.
LEMMA AccountedInit == Init => Accounted
PROOF
  <1> SUFFICES ASSUME Init, NEW k \in Keys, NEW v \in Verdicts
               PROVE  Found(k, v) = 0 /\ Times(labels, k, v) = 0
    BY DEF Accounted
  <1>1. agg[k][v] = 0
    BY DEF Init, Zero, Verdicts
  <1>2. Times(lines, k, v) = 0 /\ Times(missed, k, v) = 0 /\ Times(labels, k, v) = 0
    BY TimesEmpty DEF Init
  <1>3. Waiting(queue, k, v) = {}
    BY DEF Init, Waiting
  <1>4. Cardinality(Waiting(queue, k, v)) = 0
    BY <1>3, FS_EmptySet
  <1> QED BY <1>1, <1>2, <1>4 DEF Found

\* A label that is accepted waits.
LEMMA LabelsAccounted ==
  ASSUME LoopTypes, Accounted, NEW p \in Processes, NEW i \in Ids, NEW verdict \in Votes[i],
         Labels(p, i, verdict)
  PROVE  Accounted'
PROOF
  <1> DEFINE task == [kind |-> "attach", id |-> i, outcome |-> verdict]
  <1> SUFFICES ASSUME NEW k \in Keys, NEW v \in Verdicts
               PROVE  /\ FoundNext(k, v) <= Times(labels', k, v)
                      /\ faults' = 0 => FoundNext(k, v) = Times(labels', k, v)
    BY DEF Accounted, Found, FoundNext
  <1>1. /\ verdict \in Verdicts /\ task \in Task /\ Row(i, verdict) \in LabelRow
        /\ Row(i, verdict).id = i /\ Row(i, verdict).outcome = verdict
    BY FeedbackAssumption DEF Task, Label, Row, LabelRow
  <1>2. /\ queue' = Longer(queue, p, task) /\ labels' = Append(labels, Row(i, verdict))
        /\ UNCHANGED <<agg, lines, missed, faults>>
    BY DEF Labels, Submit, Longer
  <1>3. Cardinality(Waiting(queue', k, v)) =
          Cardinality(Waiting(queue, k, v)) + One(i, verdict, k, v)
    <2>1. queue \in [Processes -> Seq(Task)]
      BY DEF LoopTypes, QueueTypes
    <2>2. Cardinality(Waiting(Longer(queue, p, task), k, v))
            = Cardinality(Waiting(queue, k, v)) + IF IsLabel(task, k, v) THEN 1 ELSE 0
      BY <1>1, <2>1, WaitingSubmit
    <2>3. (IF IsLabel(task, k, v) THEN 1 ELSE 0) = One(i, verdict, k, v)
      BY DEF IsLabel, One
    <2> QED BY <1>2, <2>2, <2>3
  <1>4. Times(labels', k, v) = Times(labels, k, v) + One(i, verdict, k, v)
    <2>1. labels \in Seq(LabelRow)
      BY DEF LoopTypes, HistoryTypes
    <2> DEFINE row == Row(i, verdict)
    <2>2. row \in LabelRow /\ row.id = i /\ row.outcome = verdict /\ labels' = Append(labels, row)
      BY <1>1, <1>2
    <2> HIDE DEF row
    <2> QED BY <2>1, <2>2, TimesAppend
  <1>5. One(i, verdict, k, v) \in Nat
    BY DEF One
  <1>6. FoundNext(k, v) = Found(k, v) + One(i, verdict, k, v)
    <2> DEFINE c == Cardinality(Waiting(queue, k, v))
               n == One(i, verdict, k, v)
    <2>1. agg[k][v] \in Nat /\ Times(lines, k, v) \in Nat /\ c \in Nat /\ Times(missed, k, v) \in Nat
      BY FoundNumbers
    <2>2. FoundNext(k, v) = agg[k][v] + Times(lines, k, v) + (c + n) + Times(missed, k, v)
      BY <1>2, <1>3 DEF FoundNext
    <2>3. Found(k, v) = agg[k][v] + Times(lines, k, v) + c + Times(missed, k, v)
      BY DEF Found
    <2>4. n \in Nat
      BY <1>5
    <2>5. FoundNext(k, v) = Found(k, v) + n
      <3> HIDE DEF c, n
      <3> QED BY <2>1, <2>2, <2>3, <2>4
    <2> QED BY <2>5
  <1>7. /\ Found(k, v) <= Times(labels, k, v)
        /\ faults = 0 => Found(k, v) = Times(labels, k, v)
    BY DEF Accounted
  <1>8. Found(k, v) \in Nat /\ Times(labels, k, v) \in Nat
    BY FoundNumbers DEF Found
  <1> QED BY <1>2, <1>4, <1>5, <1>6, <1>7, <1>8

\* A request that is recorded is no label.
LEMMA AnswersAccounted ==
  ASSUME LoopTypes, Accounted, NEW p \in Processes, NEW i \in Ids, Answers(p, i)
  PROVE  Accounted'
PROOF
  <1> DEFINE task == [kind |-> "record", id |-> i]
  <1>1. queue' = Longer(queue, p, task) /\ UNCHANGED <<agg, lines, missed, faults, labels>>
    BY DEF Answers, Submit, Longer
  <1>2. task \in Task /\ queue \in [Processes -> Seq(Task)]
    BY DEF Task, LoopTypes, QueueTypes
  <1>3. ASSUME NEW k \in Keys, NEW v \in Verdicts
        PROVE  Cardinality(Waiting(queue', k, v)) = Cardinality(Waiting(queue, k, v))
    <2>1. ~IsLabel(task, k, v)
      BY DEF IsLabel
    <2>2. Cardinality(Waiting(Longer(queue, p, task), k, v))
            = Cardinality(Waiting(queue, k, v)) + IF IsLabel(task, k, v) THEN 1 ELSE 0
      BY <1>2, WaitingSubmit
    <2> QED BY <1>1, <2>1, <2>2, FoundNumbers
  <1> QED BY <1>1, <1>3 DEF Accounted, Found

\* What one number loses another gains.
LEMMA SumIsKept ==
  ASSUME NEW a \in Nat, NEW l \in Nat, NEW m \in Nat, NEW c \in Nat, NEW n \in Nat,
         NEW a1 \in Nat, NEW l1 \in Nat, NEW m1 \in Nat, NEW c1 \in Nat,
         a1 + l1 + m1 = a + l + m + n, c = c1 + n
  PROVE  a1 + l1 + c1 + m1 = a + l + c + m
PROOF OBVIOUS

\* A task that is done moves its label from the queue to where it is found.
LEMMA LabelMoves ==
  ASSUME LoopTypes, NEW p \in Processes, queue[p] # <<>>, NextTask(p),
         NEW k \in Keys, NEW v \in Verdicts, NEW n \in Nat,
         n = IF Head(queue[p]).kind = "attach"
             THEN One(Head(queue[p]).id, Head(queue[p]).outcome, k, v) ELSE 0,
         agg'[k][v] \in Nat, Times(lines', k, v) \in Nat, Times(missed', k, v) \in Nat,
         Cardinality(Waiting(queue', k, v)) \in Nat,
         agg'[k][v] + Times(lines', k, v) + Times(missed', k, v) =
           agg[k][v] + Times(lines, k, v) + Times(missed, k, v) + n
  PROVE  FoundNext(k, v) = Found(k, v)
PROOF
  <1> DEFINE a == agg[k][v]
             l == Times(lines, k, v)
             m == Times(missed, k, v)
             c == Cardinality(Waiting(queue, k, v))
             a1 == agg'[k][v]
             l1 == Times(lines', k, v)
             m1 == Times(missed', k, v)
             c1 == Cardinality(Waiting(queue', k, v))
  <1>1. c = c1 + n
    BY FirstLabelLeaves
  <1>2. a \in Nat /\ l \in Nat /\ m \in Nat /\ c \in Nat
    BY FoundNumbers
  <1>3. a1 \in Nat /\ l1 \in Nat /\ m1 \in Nat /\ c1 \in Nat
    OBVIOUS
  <1>4. a1 + l1 + m1 = a + l + m + n
    OBVIOUS
  <1>5. Found(k, v) = a + l + c + m /\ FoundNext(k, v) = a1 + l1 + c1 + m1
    BY DEF Found, FoundNext
  <1>6. a1 + l1 + c1 + m1 = a + l + c + m
    <2> HIDE DEF a, l, m, c, a1, l1, m1, c1
    <2> QED BY ONLY <1>1, <1>2, <1>3, <1>4, n \in Nat, SumIsKept
  <1> QED BY <1>5, <1>6

LEMMA DoneAccounted ==
  ASSUME LoopTypes, Accounted, NEW p \in Processes, queue[p] # <<>>, NextTask(p),
         UNCHANGED <<labels, faults>>,
         \A k \in Keys, v \in Verdicts :
            LET task == Head(queue[p])
            IN  agg'[k][v] + Times(lines', k, v) + Times(missed', k, v) =
                  agg[k][v] + Times(lines, k, v) + Times(missed, k, v)
                    + IF task.kind = "attach" THEN One(task.id, task.outcome, k, v) ELSE 0,
         \A k \in Keys, v \in Verdicts :
            agg'[k][v] \in Nat /\ Times(lines', k, v) \in Nat /\ Times(missed', k, v) \in Nat
            /\ Cardinality(Waiting(queue', k, v)) \in Nat
  PROVE  Accounted'
PROOF
  <1>1. ASSUME NEW k \in Keys, NEW v \in Verdicts PROVE FoundNext(k, v) = Found(k, v)
    <2> DEFINE n == IF Head(queue[p]).kind = "attach"
                    THEN One(Head(queue[p]).id, Head(queue[p]).outcome, k, v) ELSE 0
    <2>1. n \in Nat
      BY DEF One
    <2> QED BY <2>1, LabelMoves
  <1> QED BY <1>1 DEF Accounted, Found, FoundNext

\* The recorder threads keep the account.
LEMMA RecorderAccounted ==
  ASSUME LoopTypes, LoopTypes', Accounted, NEW p \in Processes, Recorder(p)
  PROVE  Accounted'
PROOF
  <1> DEFINE task == Head(queue[p])
  <1>1. \A k \in Keys, v \in Verdicts :
           agg'[k][v] \in Nat /\ Times(lines', k, v) \in Nat /\ Times(missed', k, v) \in Nat
           /\ Cardinality(Waiting(queue', k, v)) \in Nat
    <2> TAKE k \in Keys, v \in Verdicts
    <2>1. agg' \in [Keys -> Counter] /\ lines' \in Seq(AnyRow) /\ missed' \in Seq(MissedRow)
          /\ queue' \in [Processes -> Seq(Task)]
      BY DEF LoopTypes, QueueTypes, StoreTypes, HistoryTypes
    <2>2. agg'[k][v] \in Nat
      BY <2>1, CounterFields
    <2>3. Times(lines', k, v) \in Nat
      BY <2>1, TimesIsNatural
    <2>4. Times(missed', k, v) \in Nat
      BY <2>1, TimesIsNatural
    <2>5. Cardinality(Waiting(queue', k, v)) \in Nat
      BY <2>1, WaitingIsFinite
    <2> QED BY <2>2, <2>3, <2>4, <2>5
  <1>2. CASE Records(p)
    <2>1. /\ queue[p] # <<>> /\ task.kind = "record" /\ task.id \in Ids
          /\ NextTask(p) /\ UNCHANGED <<labels, faults, missed>>
      BY <1>2, HeadIsTask DEF Records, Doing, history, LoopTypes
    <2>2. ASSUME NEW k \in Keys, NEW v \in Verdicts
          PROVE  agg'[k][v] = agg[k][v] /\ Times(lines', k, v) = Times(lines, k, v)
      <3>1. agg'[k][v] = agg[k][v]
        BY <1>2, RecordedCounters DEF LoopTypes
      <3>2. Row(task.id, "unlabelled") \in AnyRow /\ Row(task.id, "unlabelled").outcome = "unlabelled"
        BY <2>1 DEF Row, AnyRow, Outcomes
      <3>3. One(Row(task.id, "unlabelled").id, "unlabelled", k, v) = 0
        BY DEF One, Verdicts
      <3>4. CASE lines' = Append(lines, Row(task.id, "unlabelled"))
        <4>1. lines \in Seq(AnyRow) /\ Times(lines, k, v) \in Nat
          BY FoundNumbers DEF LoopTypes, StoreTypes
        <4>2. Times(lines', k, v) = Times(lines, k, v) + 0
          BY <3>2, <3>3, <3>4, <4>1, TimesAppend
        <4> QED BY <3>1, <4>1, <4>2
      <3>5. CASE UNCHANGED lines
        BY <3>1, <3>5
      <3> QED BY <3>4, <3>5, <1>2 DEF Records, Writes
    <2>3. ASSUME NEW k \in Keys, NEW v \in Verdicts
          PROVE  agg'[k][v] + Times(lines', k, v) + Times(missed', k, v) =
                   agg[k][v] + Times(lines, k, v) + Times(missed, k, v)
                     + IF task.kind = "attach" THEN One(task.id, task.outcome, k, v) ELSE 0
      <3>1. missed' = missed /\ task.kind # "attach"
        BY <2>1
      <3> QED BY <3>1, <2>2, FoundNumbers
    <2> QED BY <1>1, <2>1, <2>3, DoneAccounted
  <1>3. ASSUME Misses(p, task), task \in Label, NextTask(p), queue[p] # <<>>,
               UNCHANGED <<agg, lines, labels, faults>>
        PROVE  Accounted'
    <2>1. ASSUME NEW k \in Keys, NEW v \in Verdicts
          PROVE  Times(missed', k, v) = Times(missed, k, v) + One(task.id, task.outcome, k, v)
      <3> DEFINE row == [id |-> task.id, outcome |-> task.outcome, by |-> p]
      <3>1. row \in MissedRow /\ row.id = task.id /\ row.outcome = task.outcome
        BY <1>3 DEF MissedRow, Label
      <3>2. missed' = Append(missed, row) /\ missed \in Seq(MissedRow)
        BY <1>3 DEF Misses, LoopTypes, HistoryTypes
      <3> HIDE DEF row
      <3> QED BY <3>1, <3>2, TimesAppend
    <2>2. ASSUME NEW k \in Keys, NEW v \in Verdicts
          PROVE  agg'[k][v] + Times(lines', k, v) + Times(missed', k, v) =
                   agg[k][v] + Times(lines, k, v) + Times(missed, k, v)
                     + IF task.kind = "attach" THEN One(task.id, task.outcome, k, v) ELSE 0
      <3>1. agg' = agg /\ lines' = lines /\ task.kind = "attach" /\ One(task.id, task.outcome, k, v) \in Nat
        BY <1>3 DEF Label, One
      <3> QED BY <3>1, <2>1, FoundNumbers
    <2> QED BY <1>1, <1>3, <2>2, DoneAccounted
  <1>4. CASE ReadsRequest(p)
    <2>1. queue[p] # <<>> /\ task \in Label
      BY <1>4, HeadIsTask DEF ReadsRequest, Doing, LoopTypes
    <2>2. CASE reqs[task.id] = None
      BY <1>3, <1>4, <2>1, <2>2 DEF ReadsRequest
    <2>3. CASE reqs[task.id] # None
      <3>1. UNCHANGED <<agg, lines, queue, missed, labels, faults>>
        BY <1>4, <2>3 DEF ReadsRequest
      <3> QED BY <3>1 DEF Accounted, Found
    <2> QED BY <2>2, <2>3
  <1>5. CASE AttachesRedis(p)
    <2>1. /\ queue[p] # <<>> /\ NextTask(p) /\ work[p] = task /\ task.kind = "attach"
          /\ UNCHANGED <<lines, missed, labels, faults>>
      BY <1>5, WorkIsLabel DEF AttachesRedis, LoopTypes
    <2>2. ASSUME NEW k \in Keys, NEW v \in Verdicts
          PROVE  agg'[k][v] + Times(lines', k, v) + Times(missed', k, v) =
                   agg[k][v] + Times(lines, k, v) + Times(missed, k, v)
                     + IF task.kind = "attach" THEN One(task.id, task.outcome, k, v) ELSE 0
      <3>1. agg'[k][v] = agg[k][v] + One(task.id, task.outcome, k, v)
        BY <1>5, <2>1, AttachedCounters
      <3>2. One(task.id, task.outcome, k, v) \in Nat /\ lines' = lines /\ missed' = missed
        BY <2>1 DEF One
      <3> QED BY <2>1, <3>1, <3>2, FoundNumbers
    <2> QED BY <1>1, <2>1, <2>2, DoneAccounted
  <1>6. CASE AttachesJsonl(p)
    <2>1. /\ task \in Label /\ queue[p] # <<>> /\ NextTask(p)
          /\ UNCHANGED <<agg, labels, faults>>
      BY <1>6, AttachesJsonlCases
    <2>2. CASE Misses(p, task) /\ UNCHANGED lines
      BY <1>3, <2>1, <2>2
    <2>3. CASE lines' = Append(lines, Row(task.id, task.outcome)) /\ UNCHANGED missed
      <3>1. ASSUME NEW k \in Keys, NEW v \in Verdicts
            PROVE  agg'[k][v] + Times(lines', k, v) + Times(missed', k, v) =
                     agg[k][v] + Times(lines, k, v) + Times(missed, k, v)
                       + IF task.kind = "attach" THEN One(task.id, task.outcome, k, v) ELSE 0
        <4> DEFINE row == Row(task.id, task.outcome)
        <4>1. row \in AnyRow /\ row.id = task.id /\ row.outcome = task.outcome
          BY <2>1 DEF Row, AnyRow, Label, Outcomes
        <4>2. lines' = Append(lines, row) /\ lines \in Seq(AnyRow)
          BY <2>3 DEF LoopTypes, StoreTypes
        <4>3. Times(lines', k, v) = Times(lines, k, v) + One(task.id, task.outcome, k, v)
          <5> HIDE DEF row
          <5> QED BY <4>1, <4>2, TimesAppend
        <4>4. One(task.id, task.outcome, k, v) \in Nat /\ task.kind = "attach"
              /\ agg' = agg /\ missed' = missed
          BY <2>1, <2>3 DEF One, Label
        <4> QED BY <4>3, <4>4, FoundNumbers
      <3> QED BY <1>1, <2>1, <3>1, DoneAccounted
    <2> QED BY <1>6, <2>2, <2>3, AttachesJsonlCases
  <1> QED BY <1>2, <1>4, <1>5, <1>6 DEF Recorder

\* After a fault labels may be lost, and none is counted twice.
LEMMA FaultAccounted ==
  ASSUME LoopTypes, LoopTypes', Accounted, Faults, UNCHANGED <<lines, missed, labels>>,
         \A k \in Keys, v \in Verdicts :
            /\ agg'[k][v] <= agg[k][v]
            /\ Cardinality(Waiting(queue', k, v)) <= Cardinality(Waiting(queue, k, v))
  PROVE  Accounted'
PROOF
  <1> SUFFICES ASSUME NEW k \in Keys, NEW v \in Verdicts
               PROVE  /\ FoundNext(k, v) <= Times(labels', k, v)
                      /\ faults' = 0 => FoundNext(k, v) = Times(labels', k, v)
    BY DEF Accounted, Found, FoundNext
  <1>1. faults' # 0
    BY DEF Faults, LoopTypes, HistoryTypes
  <1>2. agg'[k][v] \in Nat /\ Cardinality(Waiting(queue', k, v)) \in Nat
    <2>1. agg'[k] \in Counter /\ queue' \in [Processes -> Seq(Task)]
      BY DEF LoopTypes, StoreTypes, QueueTypes
    <2> QED BY <2>1, CounterFields, WaitingIsFinite
  <1>6. /\ Times(lines', k, v) = Times(lines, k, v) /\ Times(missed', k, v) = Times(missed, k, v)
        /\ Times(labels', k, v) = Times(labels, k, v)
    OBVIOUS
  <1>3. FoundNext(k, v) <= Found(k, v)
    <2>1. /\ agg'[k][v] <= agg[k][v]
          /\ Cardinality(Waiting(queue', k, v)) <= Cardinality(Waiting(queue, k, v))
      OBVIOUS
    <2> QED BY <1>2, <2>1, <1>6, FoundNumbers DEF Found, FoundNext
  <1>4. FoundNext(k, v) \in Nat /\ Found(k, v) \in Nat
    BY <1>2, <1>6, FoundNumbers DEF Found, FoundNext
  <1>5. Found(k, v) <= Times(labels, k, v) /\ Times(labels, k, v) \in Nat
    BY FoundNumbers DEF Accounted
  <1> QED BY <1>1, <1>3, <1>4, <1>5, <1>6

\* Every step keeps the account.
LEMMA AccountedStep ==
  ASSUME LoopTypes, Accounted, [Next]_vars
  PROVE  Accounted'
PROOF
  <1>0. LoopTypes'
    BY TypesStep
  <1>1. ASSUME UNCHANGED <<agg, lines, queue, missed, labels, faults>> PROVE Accounted'
    BY <1>1 DEF Accounted, Found
  <1>2. ASSUME NEW p \in Routers, NEW i \in Ids, Answers(p, i) PROVE Accounted'
    BY <1>2, AnswersAccounted, FeedbackAssumption
  <1>3. ASSUME NEW p \in Processes, TaskFails(p) PROVE Accounted'
    <2>1. ASSUME NEW k \in Keys, NEW v \in Verdicts
          PROVE  Cardinality(Waiting(queue', k, v)) <= Cardinality(Waiting(queue, k, v))
      <3> DEFINE task == Head(queue[p])
                 one == IF task.kind = "attach" THEN One(task.id, task.outcome, k, v) ELSE 0
      <3>1. Cardinality(Waiting(queue, k, v)) = Cardinality(Waiting(queue', k, v)) + one
        BY <1>3, FirstLabelLeaves DEF TaskFails
      <3>2. one \in Nat
        BY DEF One
      <3>3. Cardinality(Waiting(queue', k, v)) \in Nat
        BY <1>0, WaitingIsFinite DEF LoopTypes, QueueTypes
      <3> HIDE DEF one
      <3> QED BY <3>1, <3>2, <3>3
    <2>2. \A k \in Keys, v \in Verdicts : agg'[k][v] <= agg[k][v]
      BY <1>3, FoundNumbers DEF TaskFails
    <2> QED BY <1>0, <1>3, <2>1, <2>2, FaultAccounted DEF TaskFails, history
  <1>4. ASSUME NEW p \in Processes, ProcessRestarts(p) PROVE Accounted'
    <2>1. ASSUME NEW k \in Keys, NEW v \in Verdicts
          PROVE  Cardinality(Waiting(queue', k, v)) <= Cardinality(Waiting(queue, k, v))
      <3>1. queue' = [queue EXCEPT ![p] = <<>>] /\ queue \in [Processes -> Seq(Task)]
        BY <1>4 DEF ProcessRestarts, LoopTypes, QueueTypes
      <3> QED BY <3>1, WaitingForgets
    <2>2. \A k \in Keys, v \in Verdicts : agg'[k][v] <= agg[k][v]
      BY <1>4, FoundNumbers DEF ProcessRestarts
    <2> QED BY <1>0, <1>4, <2>1, <2>2, FaultAccounted DEF ProcessRestarts, history
  <1>5. ASSUME NEW i \in Ids, RequestExpires(i) PROVE Accounted'
    <2>1. \A k \in Keys, v \in Verdicts :
             /\ agg'[k][v] <= agg[k][v]
             /\ Cardinality(Waiting(queue', k, v)) <= Cardinality(Waiting(queue, k, v))
      BY <1>5, FoundNumbers DEF RequestExpires
    <2> QED BY <1>0, <1>5, <2>1, FaultAccounted DEF RequestExpires, history
  <1>6. ASSUME NEW dim, NEW agent, CountersExpire(dim, agent) PROVE Accounted'
    <2>1. ASSUME NEW k \in Keys, NEW v \in Verdicts
          PROVE  /\ agg'[k][v] <= agg[k][v]
                 /\ Cardinality(Waiting(queue', k, v)) <= Cardinality(Waiting(queue, k, v))
      <3>1. queue' = queue /\ agg'[k] = IF k[1] = dim /\ k[2] = agent THEN Zero ELSE agg[k]
        BY <1>6 DEF CountersExpire
      <3>2. Zero[v] = 0
        BY DEF Zero, Verdicts
      <3>3. agg[k][v] \in Nat /\ Cardinality(Waiting(queue, k, v)) \in Nat
        BY FoundNumbers
      <3> QED BY <3>1, <3>2, <3>3
    <2> QED BY <1>0, <1>6, <2>1, FaultAccounted DEF CountersExpire, history
  <1>7. ASSUME NEW p, Aggregates(p) \/ CachesHint(p) \/ \E key \in Policies : LooksUp(p, key)
        PROVE  Accounted'
    BY <1>1, <1>7 DEF Aggregates, CachesHint, LooksUp, store, history
  <1>8. CASE Tick
    BY <1>1, <1>8 DEF Tick, store
  <1>9. CASE UNCHANGED vars
    BY <1>1, <1>9 DEF vars, store, history
  <1>10. ASSUME NEW p \in Processes, Recorder(p) PROVE Accounted'
    BY <1>0, <1>10, RecorderAccounted
  <1> QED BY <1>2, <1>3, <1>4, <1>5, <1>6, <1>7, <1>8, <1>9, <1>10, LabelsAccounted DEF Next

----------------------------------------------------------------------------
(* Requests are recorded before their labels are looked up. *)

\* The store of p finds the request.
Stored(p, i) == IF backend[p] = "redis" THEN reqs[i] # None ELSE index[p][i] # None

RecordOf(i) == [kind |-> "record", id |-> i]

\* The thread of p records the request before it comes to place n.
ToBeStored(p, i, n) == \E m \in 1..(n - 1) : queue[p][m] = RecordOf(i)

Own(p, i) == from[i] # None /\ from[i].by = p

\* What p was asked itself is recorded, or will be before a label of it.
QueueInOrder(p) ==
    /\ \A n \in 1..Len(queue[p]), i \in Ids : queue[p][n].id = i =>
        /\ from[i] # None
        /\ queue[p][n].kind = "attach" /\ Own(p, i) => Stored(p, i) \/ ToBeStored(p, i, n)
    /\ \A i \in Ids : Own(p, i) => Stored(p, i) \/ ToBeStored(p, i, Len(queue[p]) + 1)

MissedElsewhere ==
    \A n \in DOMAIN missed : from[missed[n].id] # None /\ from[missed[n].id].by # missed[n].by

InOrder == MissedElsewhere /\ \A p \in Processes : QueueInOrder(p)

\* A thread whose tasks and requests stay.
LEMMA OrderStays ==
  ASSUME NEW p \in Processes, QueueInOrder(p), queue'[p] = queue[p], UNCHANGED from,
         \A i \in Ids : Stored(p, i) => Stored(p, i)'
  PROVE  QueueInOrder(p)'
PROOF
  <1>1. ASSUME NEW i, NEW n, ToBeStored(p, i, n) PROVE ToBeStored(p, i, n)'
    BY <1>1 DEF ToBeStored
  <1> QED BY <1>1 DEF QueueInOrder, Own

\* A task that is added at the end.
LEMMA OrderGrows ==
  ASSUME QueueTypes, NEW p \in Processes, NEW task \in Task, Submit(p, task),
         UNCHANGED <<backend, reqs, index>>
  PROVE  /\ Len(queue'[p]) = Len(queue[p]) + 1 /\ Len(queue[p]) \in Nat
         /\ queue'[p][Len(queue[p]) + 1] = task
         /\ \A n \in 1..Len(queue[p]) : queue'[p][n] = queue[p][n]
         /\ \A q \in Processes \ {p} : queue'[q] = queue[q]
         /\ \A i, n : n \in 1..(Len(queue[p]) + 1) /\ ToBeStored(p, i, n) => ToBeStored(p, i, n)'
         /\ \A q \in Processes : \A i : Stored(q, i) => Stored(q, i)'
PROOF
  <1>1. queue[p] \in Seq(Task) /\ queue' = [queue EXCEPT ![p] = Append(queue[p], task)]
    BY DEF QueueTypes, Submit
  <1>2. queue'[p] = Append(queue[p], task) /\ \A q \in Processes \ {p} : queue'[q] = queue[q]
    BY <1>1 DEF QueueTypes
  <1>3. /\ Len(queue'[p]) = Len(queue[p]) + 1 /\ Len(queue[p]) \in Nat
        /\ queue'[p][Len(queue[p]) + 1] = task
        /\ \A n \in 1..Len(queue[p]) : queue'[p][n] = queue[p][n]
    BY <1>1, <1>2, AppendProperties
  <1>4. ASSUME NEW i, NEW n, n \in 1..(Len(queue[p]) + 1), ToBeStored(p, i, n)
        PROVE  ToBeStored(p, i, n)'
    <2>1. PICK m \in 1..(n - 1) : queue[p][m] = RecordOf(i)
      BY <1>4 DEF ToBeStored
    <2>2. m \in 1..Len(queue[p])
      BY <1>3, <1>4
    <2> QED BY <1>3, <2>1, <2>2 DEF ToBeStored
  <1>5. \A q \in Processes : \A i : Stored(q, i) => Stored(q, i)'
    BY DEF Stored
  <1> QED BY <1>2, <1>3, <1>4, <1>5

\* The record of an answer is not None.
LEMMA AnswerIsSome ==
  ASSUME LoopTypes, NEW p \in Processes
  PROVE  [by |-> p, day |-> now \div DayTicks] # None
PROOF
  <1>1. now \in Nat /\ DayTicks \in Nat \ {0}
    BY FeedbackAssumption DEF LoopTypes, HistoryTypes
  <1>2. now \div DayTicks \in Nat
    BY <1>1
  <1> QED BY <1>2, NoneAssumption

\* An answer is new to every queue and every list.
LEMMA AnswersInOrder ==
  ASSUME LoopTypes, InOrder, NEW p \in Processes, NEW i \in Ids, Answers(p, i)
  PROVE  InOrder'
PROOF
  <1> DEFINE task == RecordOf(i)
  <1>0. PICK L \in Nat : L = Len(queue[p])
    BY DEF LoopTypes, QueueTypes
  <1>1. /\ from[i] = None /\ task \in Task /\ Submit(p, task) /\ QueueTypes
        /\ UNCHANGED <<backend, reqs, index, missed>>
    BY DEF Answers, Task, RecordOf, LoopTypes
  <1>2. /\ from'[i] # None /\ from'[i].by = p
        /\ \A j \in Ids : j # i => from'[j] = from[j]
    <2>1. from' = [from EXCEPT ![i] = [by |-> p, day |-> now \div DayTicks]]
      BY DEF Answers
    <2>2. from'[i] = [by |-> p, day |-> now \div DayTicks]
      BY <2>1 DEF LoopTypes, HistoryTypes
    <2> QED BY <2>1, <2>2, AnswerIsSome DEF LoopTypes, HistoryTypes
  <1>3. MissedElsewhere'
    <2>1. \A n \in DOMAIN missed : missed[n].id \in Ids
      <3>1. missed \in Seq(MissedRow) /\ \A row \in MissedRow : row.id \in Ids
        BY DEF LoopTypes, HistoryTypes, MissedRow
      <3>2. \A n \in DOMAIN missed : missed[n] \in MissedRow
        BY <3>1, ElementOfSeq
      <3> QED BY <3>1, <3>2
    <2> QED BY <1>1, <1>2, <2>1 DEF InOrder, MissedElsewhere
  <1>4. /\ Len(queue'[p]) = L + 1 /\ L \in Nat /\ queue'[p][L + 1] = task
        /\ \A n \in 1..L : queue'[p][n] = queue[p][n]
        /\ \A q \in Processes \ {p} : queue'[q] = queue[q]
        /\ \A j, n : n \in 1..(L + 1) /\ ToBeStored(p, j, n) => ToBeStored(p, j, n)'
        /\ \A q \in Processes : \A j : Stored(q, j) => Stored(q, j)'
    BY <1>0, <1>1, OrderGrows
  <1>5. ASSUME NEW q \in Processes, NEW n \in 1..Len(queue[q])
        PROVE  queue[q][n].id \in Ids /\ from'[queue[q][n].id] = from[queue[q][n].id]
    <2>1. queue[q][n].id \in Ids
      BY DEF LoopTypes, QueueTypes, Task, Label
    <2> QED BY <1>1, <1>2, <2>1 DEF InOrder, QueueInOrder
  <1>6. QueueInOrder(p)'
    <2>1. ASSUME NEW n \in 1..(L + 1), NEW j \in Ids, queue'[p][n].id = j
          PROVE  /\ from'[j] # None
                 /\ queue'[p][n].kind = "attach" /\ Own(p, j)'
                      => Stored(p, j)' \/ ToBeStored(p, j, n)'
      <3>1. CASE n = L + 1
        BY <1>2, <1>4, <2>1, <3>1 DEF RecordOf
      <3>2. CASE n \in 1..L
        <4>1. queue'[p][n] = queue[p][n] /\ queue[p][n].id = j /\ from'[j] = from[j]
          BY <1>0, <1>4, <1>5, <2>1, <3>2
        <4>2. /\ from[j] # None
              /\ queue[p][n].kind = "attach" /\ Own(p, j) => Stored(p, j) \/ ToBeStored(p, j, n)
          BY <1>0, <3>2, <4>1 DEF InOrder, QueueInOrder
        <4>3. Own(p, j)' => Own(p, j)
          BY <4>1 DEF Own
        <4> QED BY <1>4, <4>1, <4>2, <4>3
      <3> QED BY <1>4, <3>1, <3>2
    <2>2. ASSUME NEW j \in Ids, Own(p, j)' PROVE Stored(p, j)' \/ ToBeStored(p, j, L + 2)'
      <3>1. CASE j = i
        <4>1. L + 1 \in 1..(L + 2 - 1) /\ queue'[p][L + 1] = RecordOf(j)
          BY <1>4, <3>1
        <4> QED BY <4>1 DEF ToBeStored
      <3>2. CASE j # i
        <4>1. Own(p, j)
          BY <1>2, <2>2, <3>2 DEF Own
        <4>2. Stored(p, j) \/ ToBeStored(p, j, L + 1)
          BY <1>0, <4>1 DEF InOrder, QueueInOrder
        <4>3. Stored(p, j)' \/ ToBeStored(p, j, L + 1)'
          BY <1>4, <4>2
        <4>4. ToBeStored(p, j, L + 1)' => ToBeStored(p, j, L + 2)'
          BY <1>4 DEF ToBeStored
        <4> QED BY <4>3, <4>4
      <3> QED BY <3>1, <3>2
    <2>3. Len(queue'[p]) + 1 = L + 2
      BY <1>4
    <2> QED BY <1>4, <2>1, <2>2, <2>3 DEF QueueInOrder
  <1>7. ASSUME NEW q \in Processes \ {p} PROVE QueueInOrder(q)'
    <2>1. queue'[q] = queue[q] /\ QueueInOrder(q)
      BY <1>4 DEF InOrder
    <2>2. ASSUME NEW j, NEW n, ToBeStored(q, j, n) PROVE ToBeStored(q, j, n)'
      BY <2>1, <2>2 DEF ToBeStored
    <2>3. ASSUME NEW j \in Ids, Own(q, j)' PROVE Own(q, j)
      BY <1>2, <2>3 DEF Own
    <2>4. \A n \in 1..Len(queue[q]) : queue[q][n].id \in Ids /\ from'[queue[q][n].id] = from[queue[q][n].id]
      BY <1>5
    <2>5. \A j : Stored(q, j) => Stored(q, j)'
      BY <1>4
    <2> QED BY <2>1, <2>2, <2>3, <2>4, <2>5 DEF QueueInOrder
  <1> QED BY <1>3, <1>6, <1>7 DEF InOrder

\* A label is of an answer that was given.
LEMMA LabelsInOrder ==
  ASSUME LoopTypes, InOrder, NEW p \in Processes, NEW i \in Ids, NEW verdict \in Votes[i],
         Labels(p, i, verdict)
  PROVE  InOrder'
PROOF
  <1> DEFINE task == [kind |-> "attach", id |-> i, outcome |-> verdict]
  <1>0. PICK L \in Nat : L = Len(queue[p])
    BY DEF LoopTypes, QueueTypes
  <1>1. /\ from[i] # None /\ task \in Task /\ Submit(p, task) /\ QueueTypes
        /\ UNCHANGED <<backend, reqs, index, missed, from>>
    BY FeedbackAssumption DEF Labels, Task, Label, LoopTypes
  <1>2. /\ Len(queue'[p]) = L + 1 /\ L \in Nat /\ queue'[p][L + 1] = task
        /\ \A n \in 1..L : queue'[p][n] = queue[p][n]
        /\ \A q \in Processes \ {p} : queue'[q] = queue[q]
        /\ \A j, n : n \in 1..(L + 1) /\ ToBeStored(p, j, n) => ToBeStored(p, j, n)'
        /\ \A q \in Processes : \A j : Stored(q, j) => Stored(q, j)'
    BY <1>0, <1>1, OrderGrows
  <1>3. MissedElsewhere'
    BY <1>1 DEF InOrder, MissedElsewhere
  <1>4. ASSUME NEW j, Own(p, j)' PROVE Own(p, j)
    BY <1>1, <1>4 DEF Own
  <1>5. ASSUME NEW j \in Ids, Own(p, j)' PROVE Stored(p, j)' \/ ToBeStored(p, j, L + 1)'
    <2>1. Stored(p, j) \/ ToBeStored(p, j, L + 1)
      BY <1>0, <1>4, <1>5 DEF InOrder, QueueInOrder
    <2> QED BY <1>2, <2>1
  <1>6. QueueInOrder(p)'
    <2>1. ASSUME NEW n \in 1..(L + 1), NEW j \in Ids, queue'[p][n].id = j
          PROVE  /\ from'[j] # None
                 /\ queue'[p][n].kind = "attach" /\ Own(p, j)'
                      => Stored(p, j)' \/ ToBeStored(p, j, n)'
      <3>1. CASE n = L + 1
        <4>1. j = i /\ from'[j] # None
          BY <1>1, <1>2, <2>1, <3>1
        <4> QED BY <1>5, <3>1, <4>1
      <3>2. CASE n \in 1..L
        <4>1. /\ from[j] # None /\ queue'[p][n] = queue[p][n]
              /\ queue[p][n].kind = "attach" /\ Own(p, j) => Stored(p, j) \/ ToBeStored(p, j, n)
          BY <1>0, <1>2, <2>1, <3>2 DEF InOrder, QueueInOrder
        <4> QED BY <1>1, <1>2, <1>4, <4>1
      <3> QED BY <1>2, <3>1, <3>2
    <2>2. ASSUME NEW j \in Ids, Own(p, j)' PROVE Stored(p, j)' \/ ToBeStored(p, j, L + 2)'
      <3>1. ToBeStored(p, j, L + 1)' => ToBeStored(p, j, L + 2)'
        BY <1>2 DEF ToBeStored
      <3> QED BY <1>5, <2>2, <3>1
    <2>3. Len(queue'[p]) + 1 = L + 2
      BY <1>2
    <2> QED BY <1>2, <2>1, <2>2, <2>3 DEF QueueInOrder
  <1>7. ASSUME NEW q \in Processes \ {p} PROVE QueueInOrder(q)'
    BY <1>1, <1>2, OrderStays DEF InOrder
  <1> QED BY <1>3, <1>6, <1>7 DEF InOrder

\* The first task leaves; when it is a record, the request is stored.
LEMMA DoneInOrder ==
  ASSUME LoopTypes, InOrder, NEW p \in Processes, queue[p] # <<>>, NextTask(p), UNCHANGED from,
         \A q \in Processes, i \in Ids : Stored(q, i) => Stored(q, i)',
         \A i \in Ids : Head(queue[p]) = RecordOf(i) => Stored(p, i)',
         MissedElsewhere'
  PROVE  InOrder'
PROOF
  <1>1. PICK L \in Nat : L = Len(queue[p]) /\ L > 0
    BY DEF LoopTypes, QueueTypes
  <1>2. /\ Len(queue'[p]) = L - 1 /\ queue[p][1] = Head(queue[p])
        /\ \A n \in 1..(L - 1) : queue'[p][n] = queue[p][n + 1]
        /\ \A q \in Processes \ {p} : queue'[q] = queue[q]
    <2>1. queue[p] \in Seq(Task) /\ queue'[p] = Tail(queue[p])
      BY DEF LoopTypes, QueueTypes, NextTask
    <2>2. /\ Len(Tail(queue[p])) = L - 1 /\ queue[p][1] = Head(queue[p])
          /\ \A n \in 1..(L - 1) : Tail(queue[p])[n] = queue[p][n + 1]
      BY <1>1, <2>1, HeadTailProperties
    <2>3. \A q \in Processes \ {p} : queue'[q] = queue[q]
      BY DEF LoopTypes, QueueTypes, NextTask
    <2> QED BY <2>1, <2>2, <2>3
  <1>3. ASSUME NEW i \in Ids, NEW n \in 1..L, Stored(p, i) \/ ToBeStored(p, i, n + 1)
        PROVE  Stored(p, i)' \/ ToBeStored(p, i, n)'
    <2>1. CASE Stored(p, i)
      BY <2>1
    <2>2. CASE ToBeStored(p, i, n + 1)
      <3>1. PICK m \in 1..n : queue[p][m] = RecordOf(i)
        BY <1>1, <2>2 DEF ToBeStored
      <3>2. CASE m = 1
        BY <1>2, <3>1, <3>2
      <3>3. CASE m # 1
        <4>1. m - 1 \in 1..(n - 1) /\ m - 1 \in 1..(L - 1) /\ m - 1 + 1 = m
          BY <1>1, <3>1, <3>3
        <4>2. queue'[p][m - 1] = RecordOf(i)
          BY <1>2, <3>1, <4>1
        <4> QED BY <4>1, <4>2 DEF ToBeStored
      <3> QED BY <3>2, <3>3
    <2> QED BY <1>3, <2>1, <2>2
  <1>4. \A j \in Ids : (from'[j] # None <=> from[j] # None) /\ (Own(p, j)' => Own(p, j))
    BY DEF Own
  <1>5. ASSUME NEW n \in 1..(L - 1), NEW j \in Ids, queue'[p][n].id = j
        PROVE  /\ from'[j] # None
               /\ queue'[p][n].kind = "attach" /\ Own(p, j)' => Stored(p, j)' \/ ToBeStored(p, j, n)'
    <2>1. n + 1 \in 1..L /\ n \in 1..L /\ queue'[p][n] = queue[p][n + 1]
      BY <1>1, <1>2
    <2>2. /\ from[j] # None
          /\ queue[p][n + 1].kind = "attach" /\ Own(p, j) => Stored(p, j) \/ ToBeStored(p, j, n + 1)
      BY <1>1, <1>5, <2>1 DEF InOrder, QueueInOrder
    <2> QED BY <1>3, <1>4, <2>1, <2>2
  <1>6. ASSUME NEW j \in Ids, Own(p, j)' PROVE Stored(p, j)' \/ ToBeStored(p, j, L)'
    <2>1. Stored(p, j) \/ ToBeStored(p, j, L + 1)
      BY <1>1, <1>4, <1>6 DEF InOrder, QueueInOrder
    <2> QED BY <1>1, <1>3, <2>1
  <1>7. QueueInOrder(p)'
    <2>1. Len(queue'[p]) + 1 = L /\ Len(queue'[p]) = L - 1
      BY <1>1, <1>2
    <2> QED BY <1>5, <1>6, <2>1 DEF QueueInOrder
  <1>8. ASSUME NEW q \in Processes \ {p} PROVE QueueInOrder(q)'
    BY <1>2, OrderStays DEF InOrder
  <1> QED BY <1>7, <1>8 DEF InOrder

\* The label that is looked up in vain is of another process's answer.
LEMMA MissesElsewhere ==
  ASSUME LoopTypes, InOrder, NEW p \in Processes, queue[p] # <<>>, Head(queue[p]) \in Label,
         ~Stored(p, Head(queue[p]).id), Misses(p, Head(queue[p])), UNCHANGED from
  PROVE  MissedElsewhere'
PROOF
  <1> DEFINE task == Head(queue[p])
             row == [id |-> task.id, outcome |-> task.outcome, by |-> p]
  <1>1. 1 \in 1..Len(queue[p]) /\ queue[p][1] = task /\ task.id \in Ids /\ task.kind = "attach"
    BY DEF LoopTypes, QueueTypes, Label
  <1>2. ~ToBeStored(p, task.id, 1)
    BY DEF ToBeStored
  <1>3. from[task.id] # None /\ from[task.id].by # p
    BY <1>1, <1>2 DEF InOrder, QueueInOrder, Own
  <1>4. missed \in Seq(MissedRow) /\ missed' = Append(missed, row) /\ row \in MissedRow
    BY DEF LoopTypes, HistoryTypes, Misses, MissedRow, Label
  <1>5. PICK L \in Nat : L = Len(missed) /\ DOMAIN missed = 1..L
    BY <1>4
  <1>6. /\ DOMAIN missed' = 1..(L + 1) /\ missed'[L + 1] = row
        /\ \A n \in 1..L : missed'[n] = missed[n]
    BY <1>4, <1>5, AppendProperties
  <1>7. ASSUME NEW n \in 1..(L + 1)
        PROVE  from'[missed'[n].id] # None /\ from'[missed'[n].id].by # missed'[n].by
    <2>1. CASE n = L + 1
      BY <1>3, <1>6, <2>1
    <2>2. CASE n \in 1..L
      BY <1>5, <1>6, <2>2 DEF InOrder, MissedElsewhere
    <2> QED BY <2>1, <2>2
  <1> QED BY <1>6, <1>7 DEF MissedElsewhere

\* The recorder threads keep the order.
LEMMA RecorderInOrder ==
  ASSUME LoopTypes, InOrder, NEW p \in Processes, Recorder(p)
  PROVE  InOrder'
PROOF
  <1> DEFINE task == Head(queue[p])
  <1>1. None \notin Outcomes /\ Verdicts \subseteq Outcomes /\ "unlabelled" \in Outcomes
    BY NoneAssumption DEF Outcomes
  <1>2. UNCHANGED missed => (UNCHANGED from => MissedElsewhere')
    BY DEF InOrder, MissedElsewhere
  <1>3. CASE Records(p)
    <2>1. /\ queue[p] # <<>> /\ task.kind = "record" /\ task.id \in Ids
          /\ NextTask(p) /\ UNCHANGED <<backend, from, missed>>
      BY <1>3, HeadIsTask DEF Records, Doing, history, LoopTypes
    <2>2. CASE backend[p] = "redis"
      <3>1. reqs' = [reqs EXCEPT ![task.id] = "unlabelled"] /\ UNCHANGED index
        BY <1>3, <2>2 DEF Records
      <3>2. \A j \in Ids : (reqs[j] # None => reqs'[j] # None) /\ reqs'[task.id] # None
        BY <1>1, <2>1, <3>1 DEF LoopTypes, StoreTypes
      <3>3. \A q \in Processes, j \in Ids : Stored(q, j) => Stored(q, j)'
        BY <2>1, <3>1, <3>2 DEF Stored
      <3>4. \A j \in Ids : task = RecordOf(j) => Stored(p, j)'
        BY <2>1, <2>2, <3>2 DEF Stored, RecordOf
      <3> QED BY <1>2, <2>1, <3>3, <3>4, DoneInOrder
    <2>3. CASE backend[p] # "redis"
      <3>1. index' = [index EXCEPT ![p][task.id] = "unlabelled"] /\ UNCHANGED reqs
        BY <1>3, <2>3 DEF Records
      <3>2. /\ \A q \in Processes, j \in Ids : index[q][j] # None => index'[q][j] # None
            /\ index'[p][task.id] # None
        BY <1>1, <2>1, <3>1 DEF LoopTypes, StoreTypes
      <3>3. \A q \in Processes, j \in Ids : Stored(q, j) => Stored(q, j)'
        BY <2>1, <3>1, <3>2 DEF Stored
      <3>4. \A j \in Ids : task = RecordOf(j) => Stored(p, j)'
        BY <2>1, <2>3, <3>2 DEF Stored, RecordOf
      <3> QED BY <1>2, <2>1, <3>3, <3>4, DoneInOrder
    <2> QED BY <2>2, <2>3
  <1>4. CASE ReadsRequest(p)
    <2>1. /\ queue[p] # <<>> /\ task \in Label /\ backend[p] = "redis"
          /\ UNCHANGED <<backend, from, reqs, index>>
      BY <1>4, HeadIsTask DEF ReadsRequest, Doing, LoopTypes
    <2>2. \A q \in Processes, j \in Ids : Stored(q, j) => Stored(q, j)'
      BY <2>1 DEF Stored
    <2>3. CASE reqs[task.id] = None
      <3>1. NextTask(p) /\ Misses(p, task)
        BY <1>4, <2>3 DEF ReadsRequest
      <3>2. MissedElsewhere'
        BY <2>1, <2>3, <3>1, MissesElsewhere DEF Stored
      <3>3. \A j \in Ids : task # RecordOf(j)
        BY <2>1 DEF RecordOf, Label
      <3> QED BY <2>1, <2>2, <3>1, <3>2, <3>3, DoneInOrder
    <2>4. CASE reqs[task.id] # None
      <3>1. UNCHANGED <<queue, missed>>
        BY <1>4, <2>4 DEF ReadsRequest
      <3> QED BY <1>2, <2>1, <2>2, <3>1, OrderStays DEF InOrder
    <2> QED BY <2>3, <2>4
  <1>5. CASE AttachesRedis(p)
    <2>1. /\ queue[p] # <<>> /\ work[p] = task /\ task.id \in Ids /\ task.outcome \in Verdicts
          /\ task.kind = "attach" /\ NextTask(p) /\ UNCHANGED <<backend, index, from, missed>>
          /\ reqs' = [reqs EXCEPT ![task.id] = task.outcome]
      BY <1>5, WorkIsLabel DEF AttachesRedis, LoopTypes
    <2>2. \A j \in Ids : reqs[j] # None => reqs'[j] # None
      BY <1>1, <2>1 DEF LoopTypes, StoreTypes
    <2>3. \A q \in Processes, j \in Ids : Stored(q, j) => Stored(q, j)'
      BY <2>1, <2>2 DEF Stored
    <2>4. \A j \in Ids : task # RecordOf(j)
      BY <2>1 DEF RecordOf
    <2> QED BY <1>2, <2>1, <2>3, <2>4, DoneInOrder
  <1>6. CASE AttachesJsonl(p)
    <2>1. /\ queue[p] # <<>> /\ task \in Label /\ NextTask(p)
          /\ UNCHANGED <<backend, reqs, from>>
      BY <1>6, AttachesJsonlCases
    <2>2. backend[p] = "jsonl" /\ \A j \in Ids : task # RecordOf(j)
      BY <1>6, <2>1 DEF AttachesJsonl, RecordOf, Label
    <2>3. CASE index[p][task.id] = None /\ Misses(p, task) /\ UNCHANGED index
      <3>1. \A q \in Processes, j \in Ids : Stored(q, j) => Stored(q, j)'
        BY <2>1, <2>3 DEF Stored
      <3>2. MissedElsewhere'
        BY <2>1, <2>2, <2>3, MissesElsewhere DEF Stored
      <3> QED BY <2>1, <2>2, <3>1, <3>2, DoneInOrder
    <2>4. CASE index' = [index EXCEPT ![p][task.id] = task.outcome] /\ UNCHANGED missed
      <3>1. task.id \in Ids /\ task.outcome \in Verdicts
        BY <2>1 DEF Label
      <3>2. \A q \in Processes, j \in Ids : index[q][j] # None => index'[q][j] # None
        BY <1>1, <2>4, <3>1 DEF LoopTypes, StoreTypes
      <3>3. \A q \in Processes, j \in Ids : Stored(q, j) => Stored(q, j)'
        BY <2>1, <3>2 DEF Stored
      <3> QED BY <1>2, <2>1, <2>2, <2>4, <3>3, DoneInOrder
    <2> QED BY <1>6, <2>3, <2>4 DEF AttachesJsonl
  <1> QED BY <1>3, <1>4, <1>5, <1>6 DEF Recorder

\* As long as nothing fails, every step keeps the order.
LEMMA OrderStep ==
  ASSUME LoopTypes, LoopTypes', faults = 0 => InOrder, [Next]_vars
  PROVE  faults' = 0 => InOrder'
PROOF
  <1> SUFFICES ASSUME faults' = 0 PROVE InOrder'
    OBVIOUS
  <1>1. ASSUME Faults PROVE FALSE
    BY <1>1 DEF Faults, LoopTypes, HistoryTypes
  <1>2. ASSUME UNCHANGED <<backend, queue, reqs, index, from, missed, faults>> PROVE InOrder'
    <2>1. InOrder /\ MissedElsewhere'
      BY <1>2 DEF InOrder, MissedElsewhere
    <2>2. \A q \in Processes, j \in Ids : Stored(q, j) => Stored(q, j)'
      BY <1>2 DEF Stored
    <2> QED BY <1>2, <2>1, <2>2, OrderStays DEF InOrder
  <1>3. ASSUME NEW p \in Routers, NEW i \in Ids, Answers(p, i) PROVE InOrder'
    BY <1>3, AnswersInOrder, FeedbackAssumption DEF Answers
  <1>4. ASSUME NEW p \in Processes, NEW i \in Ids, NEW verdict \in Votes[i], Labels(p, i, verdict)
        PROVE  InOrder'
    BY <1>4, LabelsInOrder DEF Labels
  <1>5. ASSUME NEW p \in Processes, Recorder(p) PROVE InOrder'
    <2>1. UNCHANGED faults
      BY <1>5 DEF Recorder, Records, ReadsRequest, AttachesRedis, AttachesJsonl
    <2> QED BY <1>5, <2>1, RecorderInOrder
  <1>6. ASSUME NEW p \in Processes, TaskFails(p) \/ ProcessRestarts(p) PROVE InOrder'
    BY <1>1, <1>6 DEF TaskFails, ProcessRestarts
  <1>7. ASSUME NEW i, RequestExpires(i) PROVE InOrder'
    BY <1>1, <1>7 DEF RequestExpires
  <1>8. ASSUME NEW dim, NEW agent, CountersExpire(dim, agent) PROVE InOrder'
    BY <1>1, <1>8 DEF CountersExpire
  <1>9. ASSUME NEW p, Aggregates(p) \/ CachesHint(p) \/ \E key \in Policies : LooksUp(p, key)
        PROVE  InOrder'
    BY <1>2, <1>9 DEF Aggregates, CachesHint, LooksUp, store, history
  <1>10. CASE Tick
    BY <1>2, <1>10 DEF Tick, store
  <1>11. CASE UNCHANGED vars
    BY <1>2, <1>11 DEF vars, store, history
  <1> QED BY <1>3, <1>4, <1>5, <1>6, <1>7, <1>8, <1>9, <1>10, <1>11 DEF Next

\* Nothing waits and nothing was missed.
LEMMA OrderInit == Init => InOrder
PROOF
  <1> SUFFICES ASSUME Init PROVE InOrder
    OBVIOUS
  <1>1. MissedElsewhere
    BY DEF Init, MissedElsewhere
  <1>2. ASSUME NEW p \in Processes PROVE QueueInOrder(p)
    BY DEF Init, QueueInOrder, Own
  <1> QED BY <1>1, <1>2 DEF InOrder

----------------------------------------------------------------------------
(* What hints are ranked by. *)

\* The rows of a verdict that are still read.
Read(k, v) ==
    {n \in DOMAIN lines : k \in KeysOf(lines[n].id) /\ lines[n].outcome = v /\ Kept(lines[n].id)}

\* Every row is in a file that is read, or in one that is no longer read.
LEMMA ReadOrForgotten ==
  ASSUME LoopTypes, NEW k, NEW v
  PROVE  /\ Cardinality(Read(k, v)) \in Nat /\ Forgotten(k, v) \in Nat
         /\ Times(lines, k, v) = Cardinality(Read(k, v)) + Forgotten(k, v)
PROOF
  <1> DEFINE T == {n \in DOMAIN lines : k \in KeysOf(lines[n].id) /\ lines[n].outcome = v}
             gone == {n \in DOMAIN lines :
                        k \in KeysOf(lines[n].id) /\ lines[n].outcome = v /\ ~Kept(lines[n].id)}
  <1>1. IsFiniteSet(T)
    <2>1. DOMAIN lines = 1..Len(lines) /\ Len(lines) \in Nat
      BY DEF LoopTypes, StoreTypes
    <2>2. IsFiniteSet(DOMAIN lines)
      BY <2>1, FS_Interval
    <2>3. T \in SUBSET DOMAIN lines
      OBVIOUS
    <2> QED BY <2>2, <2>3, FS_Subset
  <1>2. Read(k, v) \subseteq T /\ gone \subseteq T /\ T = Read(k, v) \cup gone
        /\ Read(k, v) \cap gone = {}
    BY DEF Read
  <1>3. IsFiniteSet(Read(k, v)) /\ IsFiniteSet(gone)
    BY <1>1, <1>2, FS_Subset
  <1>4. Cardinality(Read(k, v)) \in Nat /\ Cardinality(gone) \in Nat
    BY <1>3, FS_CardinalityType
  <1>5. Cardinality(Read(k, v) \cup gone)
          = Cardinality(Read(k, v)) + Cardinality(gone) - Cardinality(Read(k, v) \cap gone)
    BY <1>3, FS_Union
  <1>6. Cardinality(Read(k, v) \cap gone) = 0
    BY <1>2, FS_EmptySet
  <1>7. Times(lines, k, v) = Cardinality(Read(k, v) \cup gone) /\ Forgotten(k, v) = Cardinality(gone)
    BY <1>2 DEF Times, Forgotten
  <1> HIDE DEF T, gone
  <1> QED BY <1>4, <1>5, <1>6, <1>7

\* aggregate_stats shows the counters of Redis and the rows that are read.
LEMMA ShownCounts ==
  ASSUME NEW dim, NEW agent, NEW x \in ToSet(Order), NEW v \in Verdicts
  PROVE  /\ Stats("redis", dim, agent)[x][v] = agg[<<dim, agent, x>>][v]
         /\ Stats("jsonl", dim, agent)[x][v] = Cardinality(Read(<<dim, agent, x>>, v))
PROOF
  <1> DEFINE k == <<dim, agent, x>>
             rows(outcomes) == {n \in DOMAIN lines : /\ <<dim, agent, x>> \in KeysOf(lines[n].id)
                                                     /\ lines[n].outcome \in outcomes
                                                     /\ Kept(lines[n].id)}
  <1>1. Stats("redis", dim, agent)[x] = agg[k]
    BY DEF Stats
  <1>2. Stats("jsonl", dim, agent)[x]
          = [passed |-> Cardinality(rows({"passed"})), failed |-> Cardinality(rows({"failed"})),
             queries |-> Cardinality(rows(Outcomes))]
    BY DEF Stats
  <1>3. rows({v}) = Read(k, v)
    BY DEF Read
  <1>4. Stats("jsonl", dim, agent)[x][v] = Cardinality(rows({v}))
    <2> DEFINE row == Stats("jsonl", dim, agent)[x]
               a == Cardinality(rows({"passed"}))
               b == Cardinality(rows({"failed"}))
               c == Cardinality(rows(Outcomes))
    <2>1. row["passed"] = a /\ row["failed"] = b
      <3>1. row = [passed |-> a, failed |-> b, queries |-> c]
        BY <1>2
      <3> HIDE DEF row, a, b, c
      <3> QED BY <3>1
    <2>2. CASE v = "passed"
      BY <2>1, <2>2
    <2>3. CASE v = "failed"
      BY <2>1, <2>3
    <2> QED BY <2>2, <2>3 DEF Verdicts
  <1> QED BY <1>1, <1>3, <1>4

\* What is shown and what is forgotten is what was found.
LEMMA AccountIsShown ==
  ASSUME LoopTypes, Accounted, faults = 0 => InOrder
  PROVE  LabelsAreAccountedFor
PROOF
  <1>1. ASSUME NEW i \in Ids, NEW k \in KeysOf(i), NEW v \in Verdicts
        PROVE  LET shown(b) == Stats(b, k[1], k[2])[k[3]][v]
                   found == shown("redis") + shown("jsonl") + Forgotten(k, v)
                            + Cardinality(Waiting(queue, k, v)) + Times(missed, k, v)
               IN  /\ found <= Times(labels, k, v)
                   /\ faults = 0 => found = Times(labels, k, v)
    <2> DEFINE s == Stats("redis", k[1], k[2])[k[3]][v]
               t == Stats("jsonl", k[1], k[2])[k[3]][v]
    <2>1. k \in Keys /\ k = <<k[1], k[2], k[3]>> /\ k[3] \in ToSet(Order)
      <3>1. Answered[i].agent \in Agents /\ {Answered[i].mode, Answered[i].tool} \subseteq ToSet(Order)
        BY FeedbackAssumption DEF Agents
      <3>2. ASSUME NEW dim \in Dimensions, NEW x \in ToSet(Order), k = <<dim, Answered[i].agent, x>>
            PROVE  k \in Keys /\ k = <<k[1], k[2], k[3]>> /\ k[3] \in ToSet(Order)
        BY <3>1, <3>2 DEF Keys
      <3>3. \/ k = <<"retrieval_mode", Answered[i].agent, Answered[i].mode>>
            \/ k = <<"route_tool", Answered[i].agent, Answered[i].tool>>
        BY DEF KeysOf
      <3> QED BY <3>1, <3>2, <3>3 DEF Dimensions
    <2>2. s = agg[k][v] /\ t = Cardinality(Read(k, v))
      BY <2>1, ShownCounts
    <2>3. /\ t \in Nat /\ Forgotten(k, v) \in Nat /\ Times(lines, k, v) = t + Forgotten(k, v)
      BY <2>2, ReadOrForgotten
    <2>4. s \in Nat /\ Cardinality(Waiting(queue, k, v)) \in Nat /\ Times(missed, k, v) \in Nat
      BY <2>1, <2>2, FoundNumbers
    <2>5. Found(k, v) = s + Times(lines, k, v) + Cardinality(Waiting(queue, k, v)) + Times(missed, k, v)
      BY <2>2 DEF Found
    <2>6. Found(k, v) = s + t + Forgotten(k, v) + Cardinality(Waiting(queue, k, v)) + Times(missed, k, v)
      <3> HIDE DEF s, t
      <3> QED BY <2>3, <2>4, <2>5
    <2>7. /\ Found(k, v) <= Times(labels, k, v)
          /\ faults = 0 => Found(k, v) = Times(labels, k, v)
      BY <2>1 DEF Accounted
    <2> QED BY <2>6, <2>7
  <1>2. faults = 0 => \A n \in DOMAIN missed : from[missed[n].id].by # missed[n].by
    BY DEF InOrder, MissedElsewhere
  <1> QED BY <1>1, <1>2 DEF LabelsAreAccountedFor

\* Of every label that the API accepted exactly one trace is left, whichever
\* processes answered, labelled and recorded, as long as nothing fails, expires
\* or restarts; afterwards at most one.  A label that finds no request was
\* received by another process than the one that answered.
THEOREM LabelsAccountedFor == Spec => []LabelsAreAccountedFor
PROOF
  <1>1. Init => LoopTypes /\ Accounted /\ (faults = 0 => InOrder)
    BY TypesInit, AccountedInit, OrderInit
  <1>2. LoopTypes /\ Accounted /\ (faults = 0 => InOrder) /\ [Next]_vars
          => LoopTypes' /\ Accounted' /\ (faults = 0 => InOrder)'
    BY TypesStep, AccountedStep, OrderStep
  <1>3. LoopTypes /\ Accounted /\ (faults = 0 => InOrder) => LabelsAreAccountedFor
    BY AccountIsShown
  <1> QED BY <1>1, <1>2, <1>3, PTL DEF Spec
----------------------------------------------------------------------------
(* Hints are no older than they say. *)

\* How many labels were attached in each store at the beginning of a tick is
\* known, for every tick so far.
Remembered ==
    \A b \in Backends :
        /\ Len(known[b]) = now + 1
        /\ \A n \in 1..(now + 1) : known[b][n] \in Nat /\ known[b][n] <= attached[b]

\* As many labels as there were when the tick t began in p's store.
Covers(p, n, t) == t \in 0..now /\ n \in Int /\ n >= known[backend[p]][t + 1]

\* A question that has read the counters has read those of its own time.
QuestionsCover ==
    \A p \in Processes : asking[p] # None =>
        /\ DOMAIN asking[p] = {"key", "at", "hint", "asOf"}
        /\ asking[p].at \in 0..now
        /\ asking[p].asOf # -1 => Covers(p, asking[p].asOf, asking[p].at)

HintsCover ==
    \A p \in Processes : \A key \in DOMAIN hints[p] :
        Covers(p, hints[p][key].asOf, hints[p][key].at)

HintInvariant ==
    /\ now \in Nat /\ faults \in Nat
    /\ known \in [Backends -> Seq(Nat)]
    /\ asking = [p \in Processes |-> asking[p]] /\ hints = [p \in Processes |-> hints[p]]
    /\ faults = 0 => Remembered /\ QuestionsCover /\ HintsCover

\* No hint is cached and the first tick began without labels.
LEMMA HintsInit == Init => HintInvariant
PROOF
  <1> SUFFICES ASSUME Init PROVE HintInvariant
    OBVIOUS
  <1>1. known = [b \in Backends |-> <<0>>] /\ now = 0 /\ attached = [b \in Backends |-> 0]
    BY DEF Init
  <1>2. known \in [Backends -> Seq(Nat)] /\ Remembered
    BY <1>1 DEF Remembered
  <1>3. QuestionsCover /\ HintsCover
    BY DEF Init, QuestionsCover, HintsCover
  <1>4. asking = [p \in Processes |-> asking[p]] /\ hints = [p \in Processes |-> hints[p]]
    BY DEF Init
  <1> QED BY <1>1, <1>2, <1>3, <1>4 DEF HintInvariant, Init

\* A step that only adds labels.
LEMMA CountingStep ==
  ASSUME HintInvariant, UNCHANGED <<now, known, backend, asking, hints>>, faults' = faults,
         \A b \in Backends : attached'[b] \in Nat /\ attached[b] \in Nat
                             /\ attached'[b] >= attached[b]
  PROVE  HintInvariant'
PROOF
  <1>1. ASSUME Remembered PROVE Remembered'
    <2> SUFFICES ASSUME NEW b \in Backends
                 PROVE  /\ Len(known'[b]) = now' + 1
                        /\ \A n \in 1..(now' + 1) : known'[b][n] \in Nat /\ known'[b][n] <= attached'[b]
      BY DEF Remembered
    <2>1. /\ Len(known[b]) = now + 1
          /\ \A n \in 1..(now + 1) : known[b][n] \in Nat /\ known[b][n] <= attached[b]
      BY <1>1 DEF Remembered
    <2> QED BY <2>1
  <1>2. (QuestionsCover => QuestionsCover') /\ (HintsCover => HintsCover')
    BY DEF QuestionsCover, HintsCover, Covers
  <1> QED BY <1>1, <1>2 DEF HintInvariant

\* After a fault nothing is promised.
LEMMA FaultStep ==
  ASSUME HintInvariant, Faults, UNCHANGED <<now, known>>,
         asking' = [p \in Processes |-> asking'[p]], hints' = [p \in Processes |-> hints'[p]]
  PROVE  HintInvariant'
  BY DEF HintInvariant, Faults

\* The tick that begins remembers the labels there are; older ticks keep theirs.
LEMMA TickStep ==
  ASSUME LoopTypes, HintInvariant, Tick
  PROVE  HintInvariant'
PROOF
  <1>1. /\ now' = now + 1 /\ now \in Nat
        /\ known' = [b \in Backends |-> Append(known[b], attached[b])]
        /\ UNCHANGED <<store, hints, asking, faults, attached>>
    BY DEF Tick, HintInvariant
  <1>2. \A b \in Backends : attached[b] \in Nat /\ known[b] \in Seq(Nat)
    BY DEF LoopTypes, HistoryTypes, HintInvariant
  <1>3. known' \in [Backends -> Seq(Nat)]
    BY <1>1, <1>2, AppendProperties
  <1>4. ASSUME Remembered
        PROVE  Remembered' /\ \A b \in Backends, t \in 0..now : known'[b][t + 1] = known[b][t + 1]
    <2>1. ASSUME NEW b \in Backends
          PROVE  /\ Len(known'[b]) = now + 2
                 /\ known'[b][now + 2] = attached[b]
                 /\ \A n \in 1..(now + 1) : known'[b][n] = known[b][n]
      <3>1. Len(known[b]) = now + 1 /\ known'[b] = Append(known[b], attached[b])
        BY <1>1, <1>4 DEF Remembered
      <3>2. known[b] \in Seq(Nat) /\ attached[b] \in Nat
        BY <1>2
      <3>3. /\ Len(known'[b]) = Len(known[b]) + 1
            /\ known'[b][Len(known[b]) + 1] = attached[b]
            /\ \A n \in 1..Len(known[b]) : known'[b][n] = known[b][n]
        BY <3>1, <3>2, AppendProperties
      <3> QED BY <3>1, <3>3, <1>1
    <2>2. Remembered'
      <3> SUFFICES ASSUME NEW b \in Backends, NEW n \in 1..(now + 2)
                   PROVE  known'[b][n] \in Nat /\ known'[b][n] <= attached[b]
        BY <1>1, <2>1 DEF Remembered
      <3>1. CASE n = now + 2
        BY <3>1, <2>1, <1>2
      <3>2. CASE n \in 1..(now + 1)
        BY <3>2, <2>1, <1>4 DEF Remembered
      <3>3. n = now + 2 \/ n \in 1..(now + 1)
        BY <1>1
      <3> QED BY <3>1, <3>2, <3>3
    <2>3. \A t \in 0..now : t + 1 \in 1..(now + 1)
      BY <1>1
    <2> QED BY <2>1, <2>2, <2>3
  <1>5. backend \in [Processes -> Backends] /\ UNCHANGED backend
    BY <1>1 DEF LoopTypes, StoreTypes, store
  <1>6. ASSUME Remembered, NEW p \in Processes, NEW n, NEW t, Covers(p, n, t)
        PROVE  Covers(p, n, t)'
    <2>1. backend'[p] = backend[p] /\ backend[p] \in Backends
      BY <1>5
    <2>2. t \in 0..now /\ n \in Int /\ n >= known[backend[p]][t + 1]
      BY <1>6 DEF Covers
    <2>3. known'[backend[p]][t + 1] = known[backend[p]][t + 1]
      BY <1>4, <1>6, <2>1, <2>2
    <2>4. t \in 0..now'
      BY <1>1, <2>2
    <2> QED BY <2>1, <2>2, <2>3, <2>4 DEF Covers
  <1>7. ASSUME Remembered, QuestionsCover PROVE QuestionsCover'
    BY <1>1, <1>6, <1>7 DEF QuestionsCover
  <1>8. ASSUME Remembered, HintsCover PROVE HintsCover'
    BY <1>1, <1>6, <1>8 DEF HintsCover
  <1> QED BY <1>1, <1>3, <1>4, <1>7, <1>8 DEF HintInvariant

\* A question takes its time before it reads the counters.
LEMMA LookUpStep ==
  ASSUME LoopTypes, HintInvariant, NEW p \in Processes, NEW key, LooksUp(p, key)
  PROVE  HintInvariant'
PROOF
  <1>1. /\ asking' = [asking EXCEPT ![p] = [key |-> key, at |-> now, hint |-> None, asOf |-> -1]]
        /\ UNCHANGED <<store, hints, now, faults, known, attached>>
    BY DEF LooksUp, history
  <1>2. ASSUME QuestionsCover PROVE QuestionsCover'
    BY <1>1, <1>2 DEF QuestionsCover, Covers, store, HintInvariant
  <1>3. (Remembered => Remembered') /\ (HintsCover => HintsCover')
    BY <1>1 DEF Remembered, HintsCover, Covers, store
  <1> QED BY <1>1, <1>2, <1>3 DEF HintInvariant

\* The counters that are read hold every label of the question's tick.
LEMMA AggregateStep ==
  ASSUME LoopTypes, HintInvariant, NEW p \in Processes, Aggregates(p)
  PROVE  HintInvariant'
PROOF
  <1> DEFINE hint == Best(Stats(backend[p], asking[p].key[1], asking[p].key[2]))
             size == attached[backend[p]]
  <1>1. /\ asking[p] # None
        /\ asking' = [asking EXCEPT ![p] = [[asking[p] EXCEPT !.hint = hint] EXCEPT !.asOf = size]]
        /\ UNCHANGED <<store, hints, now, faults, known, attached>>
    BY DEF Aggregates, history, HintInvariant
  <1>2. backend[p] \in Backends /\ size \in Nat
    BY DEF LoopTypes, StoreTypes, HistoryTypes
  <1>3. ASSUME QuestionsCover, Remembered PROVE QuestionsCover'
    <2>1. DOMAIN asking[p] = {"key", "at", "hint", "asOf"} /\ asking[p].at \in 0..now
      BY <1>1, <1>3 DEF QuestionsCover
    <2>2. /\ DOMAIN asking'[p] = {"key", "at", "hint", "asOf"}
          /\ asking'[p].at = asking[p].at /\ asking'[p].asOf = size
      BY <1>1, <2>1 DEF HintInvariant
    <2>3. Covers(p, size, asking[p].at)
      <3>1. asking[p].at + 1 \in 1..(now + 1)
        BY <2>1 DEF HintInvariant
      <3>2. size >= known[backend[p]][asking[p].at + 1]
        BY <1>2, <1>3, <3>1 DEF Remembered
      <3> QED BY <1>2, <2>1, <3>2 DEF Covers
    <2>4. \A q \in Processes \ {p} : asking'[q] = asking[q]
      BY <1>1 DEF HintInvariant
    <2> QED BY <1>1, <1>3, <2>1, <2>2, <2>3, <2>4 DEF QuestionsCover, Covers, store
  <1>4. (Remembered => Remembered') /\ (HintsCover => HintsCover')
    BY <1>1 DEF Remembered, HintsCover, Covers, store
  <1>5. asking' = [q \in Processes |-> asking'[q]]
    BY <1>1 DEF HintInvariant
  <1> QED BY <1>1, <1>3, <1>4, <1>5 DEF HintInvariant

\* The hint is cached under the time of its question.
LEMMA CacheStep ==
  ASSUME LoopTypes, HintInvariant, NEW p \in Processes, CachesHint(p)
  PROVE  HintInvariant'
PROOF
  <1> DEFINE key == asking[p].key
             entry == [hint |-> asking[p].hint, at |-> asking[p].at, asOf |-> asking[p].asOf]
             kept == hints[p]
  <1>1. /\ asking[p] # None /\ asking[p].asOf # -1
        /\ hints' = [hints EXCEPT ![p] = [k \in DOMAIN kept \cup {key} |->
                                            IF k = key THEN entry ELSE kept[k]]]
        /\ asking' = [asking EXCEPT ![p] = None]
        /\ UNCHANGED <<store, now, faults, known, attached>>
    BY DEF CachesHint, Cached, history
  <1>2. ASSUME QuestionsCover, HintsCover PROVE HintsCover'
    <2>1. Covers(p, entry.asOf, entry.at)
      BY <1>1, <1>2 DEF QuestionsCover
    <2>2. /\ DOMAIN hints'[p] = {key} \cup DOMAIN hints[p]
          /\ hints'[p][key] = entry
          /\ \A k \in DOMAIN hints[p] \ {key} : hints'[p][k] = hints[p][k]
      BY <1>1 DEF HintInvariant
    <2>3. \A q \in Processes \ {p} : hints'[q] = hints[q]
      BY <1>1 DEF HintInvariant
    <2>4. ASSUME NEW q \in Processes, NEW n, NEW t, Covers(q, n, t) PROVE Covers(q, n, t)'
      BY <1>1, <2>4 DEF Covers, store
    <2>5. ASSUME NEW k \in DOMAIN hints'[p] PROVE Covers(p, hints'[p][k].asOf, hints'[p][k].at)
      <3>1. CASE k = key
        BY <2>1, <2>2, <3>1
      <3>2. CASE k # key
        BY <1>2, <2>2, <2>5, <3>2 DEF HintsCover
      <3> QED BY <3>1, <3>2
    <2> QED BY <1>2, <2>3, <2>4, <2>5 DEF HintsCover
  <1>3. ASSUME QuestionsCover PROVE QuestionsCover'
    BY <1>1, <1>3 DEF QuestionsCover, Covers, store, HintInvariant
  <1>4. Remembered => Remembered'
    BY <1>1 DEF Remembered, store
  <1> QED BY <1>1, <1>2, <1>3, <1>4 DEF HintInvariant

\* Every step keeps what hints and questions cover.
LEMMA HintsStep ==
  ASSUME LoopTypes, LoopTypes', HintInvariant, [Next]_vars
  PROVE  HintInvariant'
PROOF
  <1>1. \A b \in Backends : attached[b] \in Nat /\ attached'[b] \in Nat
    BY DEF LoopTypes, HistoryTypes
  <1>2. /\ asking = [p \in Processes |-> asking[p]]
        /\ hints = [p \in Processes |-> hints[p]]
    BY DEF HintInvariant
  <1>3. ASSUME UNCHANGED <<now, known, backend, asking, hints, faults, attached>>
        PROVE  HintInvariant'
    BY <1>1, <1>3, CountingStep
  <1>4. ASSUME NEW s \in Backends, attached' = [attached EXCEPT ![s] = @ + 1],
               UNCHANGED <<now, known, backend, asking, hints, faults>>
        PROVE  HintInvariant'
    <2>1. \A b \in Backends : attached'[b] >= attached[b]
      BY <1>1, <1>4 DEF LoopTypes, HistoryTypes
    <2> QED BY <1>1, <1>4, <2>1, CountingStep
  <1>5. ASSUME NEW p,
               \/ \E i \in Ids : Answers(p, i) \/ \E verdict \in Votes[i] : Labels(p, i, verdict)
               \/ Records(p) \/ ReadsRequest(p)
        PROVE  HintInvariant'
    BY <1>3, <1>5 DEF Answers, Labels, Records, ReadsRequest, history
  <1>6. ASSUME NEW p \in Processes, AttachesRedis(p) PROVE HintInvariant'
    BY <1>4, <1>6 DEF AttachesRedis, Backends
  <1>7. ASSUME NEW p \in Processes, AttachesJsonl(p) PROVE HintInvariant'
    <2>1. UNCHANGED <<now, known, backend, asking, hints, faults>>
      BY <1>7, AttachesJsonlCases
    <2>2. UNCHANGED attached \/ attached' = [attached EXCEPT !["jsonl"] = @ + 1]
      BY <1>7 DEF AttachesJsonl
    <2> QED BY <1>3, <1>4, <2>1, <2>2 DEF Backends
  <1>8. ASSUME NEW p \in Processes, TaskFails(p) PROVE HintInvariant'
    BY <1>2, <1>8, FaultStep DEF TaskFails, history
  <1>9. ASSUME NEW p \in Processes, ProcessRestarts(p) PROVE HintInvariant'
    <2>1. asking' = [q \in Processes |-> asking'[q]] /\ hints' = [q \in Processes |-> hints'[q]]
      BY <1>2, <1>9 DEF ProcessRestarts
    <2> QED BY <1>9, <2>1, FaultStep DEF ProcessRestarts, history
  <1>10. ASSUME NEW i \in Ids, RequestExpires(i) PROVE HintInvariant'
    BY <1>2, <1>10, FaultStep DEF RequestExpires, history
  <1>11. ASSUME NEW dim, NEW agent, CountersExpire(dim, agent) PROVE HintInvariant'
    BY <1>2, <1>11, FaultStep DEF CountersExpire, history
  <1>12. ASSUME NEW p \in Routers, NEW key \in Policies, LooksUp(p, key) PROVE HintInvariant'
    BY <1>12, LookUpStep, FeedbackAssumption
  <1>13. CASE UNCHANGED vars
    BY <1>3, <1>13 DEF vars, store, history
  <1> QED
    BY <1>5, <1>6, <1>7, <1>8, <1>9, <1>10, <1>11, <1>12, <1>13, TickStep, AggregateStep, CacheStep
    DEF Next, Recorder

\* As long as nothing failed or restarted, a cached hint counts every label
\* that was attached before the tick it is dated with, so a hint that is
\* still used misses only labels younger than the cache may be.
THEOREM HintsAreFresh == Spec => []HintsAreNoOlderThanTheySay
PROOF
  <1>1. Init => LoopTypes /\ HintInvariant
    BY TypesInit, HintsInit
  <1>2. LoopTypes /\ HintInvariant /\ [Next]_vars => LoopTypes' /\ HintInvariant'
    BY TypesStep, HintsStep
  <1>3. HintInvariant => HintsAreNoOlderThanTheySay
    BY DEF HintInvariant, HintsCover, Covers, HintsAreNoOlderThanTheySay
  <1> QED BY <1>1, <1>2, <1>3, PTL DEF Spec
=============================================================================

---------------------------- MODULE StreamProofs ----------------------------
(***************************************************************************)
(* For every set of clients and every number of tasks: what wait covers,   *)
(* which failure it rethrows, that destruction drains the queue, and that  *)
(* the stream implements OrderedStream.  IndInv adds to these what the     *)
(* queue holds, how outstanding and the freed captures follow from it, and *)
(* what the two ends of the stream's life exclude.                         *)
(***************************************************************************)
EXTENDS Stream, SequenceTheorems, TLAPS

\* An empty stream satisfies the inductive invariant.
LEMMA InitInv == Init => IndInv
<1> SUFFICES ASSUME Init PROVE IndInv
  OBVIOUS
<1> USE StreamAssumption DEF Init
<1>1. queue \in Seq(1 .. MaxTasks) /\ Len(queue) = 0
  BY EmptySeq
<1>2. TypeOK /\ ~ Busy
  <2>1. /\ outstanding \in Nat /\ total \in 0 .. MaxTasks /\ failure \in 0 .. MaxTasks
        /\ task \in 0 .. MaxTasks /\ 0 \in 0 .. MaxTasks
    OBVIOUS
  <2>2. /\ mark \in [Clients -> 0 .. MaxTasks] /\ got \in [Clients -> 0 .. MaxTasks]
        /\ cpc \in [Clients -> {"out", "check", "asleep", "back"}]
    BY <2>1
  <2>3. stop \in BOOLEAN /\ freed \subseteq 1 .. MaxTasks /\ thrown \subseteq 1 .. MaxTasks
    OBVIOUS
  <2> QED
    BY <1>1, <2>1, <2>2, <2>3 DEF TypeOK, Busy
<1>3. QueueInv /\ FreedInv
  BY <1>1, <1>2 DEF QueueInv, FreedInv
<1>4. ThrownInv /\ CaughtInv /\ LifeInv
  BY <1>2 DEF ThrownInv, CaughtInv, LifeInv
<1>5. WaitCovers /\ FirstFailure /\ DestroyDrains
  BY DEF WaitCovers, FirstFailure, DestroyDrains
<1> QED
  BY <1>2, <1>3, <1>4, <1>5 DEF IndInv

\* submit and a task's own submission append the next number to the queue.
LEMMA EnqueueInv ==
    ASSUME IndInv, Enqueue, wpc # "gone" 
    PROVE  IndInv'
<1> USE StreamAssumption DEF IndInv
<1>1. /\ total \in Nat /\ total < MaxTasks /\ total' = total + 1
      /\ outstanding \in Nat /\ outstanding' = outstanding + 1 /\ MaxTasks \in Nat
      /\ queue \in Seq(1 .. MaxTasks) /\ queue' = Append(queue, total + 1)
      /\ wpc' = WakeWorker
      /\ UNCHANGED <<failure, stop, task, cpc, dpc, mark, got, freed, thrown>>
  BY DEF Enqueue, TypeOK, hist
<1>2. /\ queue' \in Seq(1 .. MaxTasks) /\ Len(queue') = Len(queue) + 1 /\ Len(queue) \in Nat
      /\ \A i \in 1 .. Len(queue) : queue'[i] = queue[i]
      /\ queue'[Len(queue) + 1] = total + 1
  BY <1>1
<1>3. /\ Busy' <=> Busy
      /\ wpc' \in {"check", "asleep", "run", "caught", "drop", "count", "gone"}
      /\ wpc' = "gone" <=> wpc = "gone"
      /\ wpc' = "count" <=> wpc = "count"
      /\ wpc' = "caught" <=> wpc = "caught"
  BY <1>1 DEF WakeWorker, Busy, TypeOK
<1>4. TypeOK'
  BY <1>1, <1>2, <1>3 DEF TypeOK
<1>5. QueueInv'
  <2>1. \A i \in 1 .. Len(queue') : queue'[i] = (total' - Len(queue')) + i
    BY <1>1, <1>2 DEF QueueInv
  <2> QED
    BY <1>1, <1>2, <1>3, <2>1 DEF QueueInv
<1>6. FreedInv'
  BY <1>1, <1>3 DEF FreedInv
<1>7. ThrownInv'
  BY <1>1, <1>3 DEF ThrownInv
<1>8. CaughtInv' /\ FirstFailure'
  BY <1>1, <1>3 DEF CaughtInv, FirstFailure
<1>9. LifeInv' /\ DestroyDrains'
  <2>1. dpc # "destroyed"
    BY DEF LifeInv
  <2>2. \A c \in Clients : mark[c] \in Nat
    BY DEF TypeOK
  <2> QED
    BY <1>1, <1>3, <2>1, <2>2 DEF LifeInv, DestroyDrains
<1>10. WaitCovers'
  BY <1>1 DEF WaitCovers
<1> QED
  BY <1>4, <1>5, <1>6, <1>7, <1>8, <1>9, <1>10 DEF IndInv

\* The worker takes the oldest task: it is the next number to finish.
LEMMA TakeInv ==
    ASSUME IndInv, Take
    PROVE  IndInv'
<1> USE StreamAssumption DEF IndInv
<1>1. /\ total \in Nat /\ outstanding \in Nat /\ MaxTasks \in Nat /\ total <= MaxTasks
      /\ queue \in Seq(1 .. MaxTasks) /\ queue # <<>> /\ queue' = Tail(queue)
      /\ task' = Head(queue) /\ wpc = "check" /\ wpc' = "run"
      /\ UNCHANGED <<outstanding, total, failure, stop, cpc, dpc, mark, got, freed, thrown>>
  BY DEF Take, TypeOK, hist
<1>2. /\ queue' \in Seq(1 .. MaxTasks) /\ Len(queue) \in Nat /\ Len(queue) >= 1
      /\ Len(queue') = Len(queue) - 1
      /\ \A i \in 1 .. Len(queue) - 1 : queue'[i] = queue[i + 1]
      /\ task' = queue[1]
  BY <1>1
<1>3. Busy' /\ ~ Busy
  BY <1>1 DEF Busy
<1>4. outstanding = Len(queue) /\ task' = total - Len(queue') /\ Len(queue) <= total
  <2>1. queue[1] = (total - Len(queue)) + 1
    BY <1>2 DEF QueueInv
  <2> QED
    BY <1>1, <1>2, <1>3, <2>1 DEF QueueInv
<1>5. TypeOK'
  <2>1. task' \in 0 .. MaxTasks
    BY <1>1, <1>2, <1>4
  <2> QED
    BY <1>1, <1>2, <2>1 DEF TypeOK
<1>6. QueueInv'
  <2>1. ASSUME NEW i \in 1 .. Len(queue')
        PROVE  queue'[i] = (total' - Len(queue')) + i
    <3>1. i + 1 \in 1 .. Len(queue) /\ queue'[i] = queue[i + 1]
      BY <1>2
    <3>2. queue[i + 1] = (total - Len(queue)) + (i + 1)
      BY <3>1 DEF QueueInv
    <3> QED
      BY <1>1, <1>2, <3>1, <3>2
  <2>2. task' >= 1 /\ outstanding' = Len(queue') + 1 /\ Len(queue') <= total'
    BY <1>1, <1>2, <1>4
  <2> QED
    BY <1>1, <1>3, <1>4, <2>1, <2>2 DEF QueueInv
<1>7. FreedInv' /\ ThrownInv' /\ CaughtInv' /\ FirstFailure'
  BY <1>1, <1>3 DEF FreedInv, ThrownInv, CaughtInv, FirstFailure
<1>8. LifeInv' /\ DestroyDrains' /\ WaitCovers'
  BY <1>1 DEF LifeInv, DestroyDrains, WaitCovers
<1> QED
  BY <1>5, <1>6, <1>7, <1>8 DEF IndInv

\* Running, catching and dropping the task that the worker holds.
LEMMA RunInv ==
    ASSUME IndInv, TaskReturns \/ TaskThrows \/ Catch \/ Drop
    PROVE  IndInv'
<1> USE StreamAssumption DEF IndInv
<1>1. /\ UNCHANGED <<queue, outstanding, total, stop, task, cpc, dpc, mark, got>>
      /\ wpc \in {"run", "caught", "drop"} /\ wpc' \in {"caught", "drop", "count"}
  BY DEF TaskReturns, TaskThrows, Catch, Drop, impl, hist
<1>2. /\ Busy /\ Busy' /\ task = total - Len(queue) /\ outstanding = Len(queue) + 1
      /\ task >= 1 /\ task \in 1 .. MaxTasks /\ total \in Nat /\ Len(queue) \in Nat
      /\ total - outstanding = task - 1 /\ task \in Nat
  <2>1. Busy /\ Busy'
    BY <1>1 DEF Busy
  <2>2. Len(queue) \in Nat /\ total \in Nat /\ task \in 0 .. MaxTasks
    BY DEF TypeOK
  <2>3. task = total - Len(queue) /\ outstanding = Len(queue) + 1 /\ task >= 1
    BY <2>1 DEF QueueInv
  <2> QED
    BY <2>1, <2>2, <2>3
<1>3. QueueInv'
  BY <1>1, <1>2 DEF QueueInv
<1>4. LifeInv' /\ DestroyDrains'
  BY <1>1 DEF LifeInv, DestroyDrains
<1>5. thrown' = thrown \/ (wpc = "run" /\ wpc' = "caught" /\ thrown' = thrown \union {task})
  BY DEF TaskReturns, TaskThrows, Catch, Drop, impl, hist
<1>6. TypeOK' /\ WaitCovers' /\ ThrownInv'
  <2>1. freed' = freed \/ freed' = freed \union {task}
    BY DEF TaskReturns, TaskThrows, Catch, Drop, impl, hist
  <2>2. failure' \in {failure, task}
    BY DEF TaskReturns, TaskThrows, Catch, Drop, impl, hist
  <2>3. TypeOK'
    BY <1>1, <1>2, <1>5, <2>1, <2>2 DEF TypeOK
  <2>4. WaitCovers'
    BY <1>1, <2>1 DEF WaitCovers
  <2>5. ThrownInv'
    BY <1>1, <1>2, <1>5 DEF ThrownInv
  <2> QED
    BY <2>3, <2>4, <2>5
<1>7. FreedInv'
  <2>1. CASE Drop
    <3>1. freed' = freed \union {task} /\ wpc = "drop" /\ wpc' = "count"
      BY <2>1 DEF Drop
    <3>2. freed = 1 .. (task - 1)
      BY <1>2, <3>1 DEF FreedInv
    <3>3. (1 .. (task - 1)) \union {task} = 1 .. task
      BY <1>2
    <3> QED
      BY <1>1, <3>1, <3>2, <3>3 DEF FreedInv
  <2>2. CASE TaskReturns \/ TaskThrows \/ Catch
    BY <1>1, <2>2 DEF TaskReturns, TaskThrows, Catch, impl, hist, FreedInv
  <2> QED
    BY <2>1, <2>2
<1>8. CaughtInv' /\ FirstFailure'
  <2>1. CASE TaskThrows
    <3>1. /\ wpc = "run" /\ wpc' = "caught" /\ failure' = failure
          /\ thrown' = thrown \union {task} /\ task' = task
      BY <2>1 DEF TaskThrows, impl
    <3>2. \A t \in thrown : t \in Nat
      BY DEF TypeOK
    <3>3. failure # 0 => failure \in thrown /\ (\A t \in thrown : failure <= t) /\ failure <= task
      BY <1>2, <3>1, <3>2 DEF FirstFailure, ThrownInv
    <3>4. failure = 0 => thrown = {}
      BY <3>1 DEF FirstFailure
    <3> QED
      BY <3>1, <3>3, <3>4 DEF CaughtInv, FirstFailure
  <2>2. CASE Catch
    <3>1. /\ wpc = "caught" /\ wpc' = "drop" /\ thrown' = thrown /\ task' = task
          /\ failure' = IF failure = 0 THEN task ELSE failure
      BY <2>2 DEF Catch, hist
    <3>2. CASE failure = 0
      BY <1>2, <3>1, <3>2 DEF CaughtInv, FirstFailure
    <3>3. CASE failure # 0
      BY <1>2, <3>1, <3>3 DEF CaughtInv, FirstFailure
    <3> QED
      BY <3>2, <3>3
  <2>3. CASE TaskReturns \/ Drop
    BY <2>3 DEF TaskReturns, Drop, impl, hist, CaughtInv, FirstFailure
  <2> QED
    BY <2>1, <2>2, <2>3
<1> QED
  BY <1>3, <1>4, <1>6, <1>7, <1>8 DEF IndInv

\* The count of a finished task, and the wake-up of the waiting clients.
LEMMA CountInv ==
    ASSUME IndInv, Count
    PROVE  IndInv'
<1> USE StreamAssumption DEF IndInv
<1>1. /\ wpc = "count" /\ wpc' = "check" /\ task' = 0 /\ outstanding' = outstanding - 1
      /\ UNCHANGED <<queue, total, failure, stop, dpc, mark, got, freed, thrown>>
      /\ total \in Nat /\ Len(queue) \in Nat /\ MaxTasks \in Nat
  BY DEF Count, hist, TypeOK
<1>2. Busy /\ ~ Busy'
  BY <1>1 DEF Busy
<1>3. /\ task = total - Len(queue) /\ outstanding = Len(queue) + 1 /\ task >= 1
      /\ outstanding' = Len(queue) /\ total - outstanding' = task
  BY <1>1, <1>2 DEF QueueInv
<1>4. /\ cpc' \in [Clients -> {"out", "check", "asleep", "back"}]
      /\ \A c \in Clients : (cpc'[c] = "back" <=> cpc[c] = "back")
                         /\ (cpc[c] = "out" => cpc'[c] = "out")
  BY DEF Count, TypeOK
<1>5. TypeOK'
  BY <1>1, <1>3, <1>4 DEF TypeOK
<1>6. QueueInv'
  BY <1>1, <1>2, <1>3 DEF QueueInv
<1>7. FreedInv'
  BY <1>1, <1>3 DEF FreedInv
<1>8. ThrownInv'
  <2>1. \A t \in thrown : t \in Nat
    BY DEF TypeOK
  <2> QED
    BY <1>1, <1>2, <1>3, <2>1 DEF ThrownInv
<1>9. CaughtInv' /\ FirstFailure'
  BY <1>1 DEF CaughtInv, FirstFailure
<1>10. LifeInv' /\ DestroyDrains' /\ WaitCovers'
  BY <1>1, <1>4 DEF LifeInv, DestroyDrains, WaitCovers
<1> QED
  BY <1>5, <1>6, <1>7, <1>8, <1>9, <1>10 DEF IndInv

\* The worker falls asleep, wakes up, or leaves.
LEMMA IdleInv ==
    ASSUME IndInv, WorkerSleep \/ Quit \/ SpuriousWorker
    PROVE  IndInv'
<1> USE DEF IndInv
<1>1. /\ UNCHANGED <<queue, outstanding, total, failure, stop, task, cpc, dpc>>
      /\ UNCHANGED <<mark, got, freed, thrown>>
      /\ wpc \in {"check", "asleep"} /\ wpc' \in {"check", "asleep", "gone"}
      /\ wpc' = "gone" => stop /\ queue = <<>>
  BY DEF WorkerSleep, Quit, SpuriousWorker, impl, hist
<1>2. ~ Busy /\ ~ Busy' /\ wpc # "count" /\ wpc' # "count" /\ wpc' # "caught" /\ wpc # "caught"
  BY <1>1 DEF Busy
<1>3. TypeOK' /\ QueueInv' /\ FreedInv' /\ ThrownInv'
  BY <1>1, <1>2 DEF TypeOK, QueueInv, FreedInv, ThrownInv
<1>4. CaughtInv' /\ FirstFailure' /\ WaitCovers' /\ DestroyDrains'
  BY <1>1, <1>2 DEF CaughtInv, FirstFailure, WaitCovers, DestroyDrains
<1>5. LifeInv'
  BY <1>1 DEF LifeInv
<1> QED
  BY <1>3, <1>4, <1>5 DEF IndInv

\* A client calls wait, sleeps, wakes up, is served, or returns.
LEMMA ClientInv ==
    ASSUME IndInv, NEW c \in Clients,
           CallWait(c) \/ WaitSleep(c) \/ WaitDone(c) \/ WaitReturn(c) \/ SpuriousClient(c)
    PROVE  IndInv'
<1> USE DEF IndInv
<1>1. /\ UNCHANGED <<queue, outstanding, total, stop, wpc, task, dpc, freed>>
      /\ Busy' <=> Busy
  BY DEF CallWait, WaitSleep, WaitDone, WaitReturn, SpuriousClient, impl, hist, Busy
<1>2. dpc = "live"
  BY DEF CallWait, WaitSleep, WaitDone, WaitReturn, SpuriousClient, LifeInv, TypeOK
<1>3. /\ failure' \in {failure, 0} /\ mark' \in [Clients -> 0 .. MaxTasks]
      /\ got' \in [Clients -> 0 .. MaxTasks]
      /\ cpc' \in [Clients -> {"out", "check", "asleep", "back"}]
      /\ thrown' \in {thrown, {}}
  BY DEF CallWait, WaitSleep, WaitDone, WaitReturn, SpuriousClient, impl, hist, TypeOK
<1>4. TypeOK'
  <2>1. 0 \in 0 .. MaxTasks
    BY StreamAssumption
  <2> QED
    BY <1>1, <1>3, <2>1 DEF TypeOK
<1>5. QueueInv' /\ FreedInv' /\ ThrownInv' /\ DestroyDrains'
  BY <1>1, <1>2, <1>3 DEF QueueInv, FreedInv, ThrownInv, DestroyDrains
<1>6. LifeInv'
  <2>1. total \in Nat /\ \A d \in Clients : mark[d] \in Nat /\ mark[d] <= total
    BY DEF LifeInv, TypeOK
  <2>2. \A d \in Clients : mark'[d] \in {mark[d], total}
    BY DEF CallWait, WaitSleep, WaitDone, WaitReturn, SpuriousClient, impl, hist, TypeOK
  <2>3. \A d \in Clients : mark'[d] <= total
    BY <2>1, <2>2
  <2> QED
    BY <1>1, <1>2, <2>3 DEF LifeInv
<1>7. CASE WaitDone(c)
  <2>1. /\ outstanding = 0 /\ failure' = 0 /\ thrown' = {} /\ mark' = mark
        /\ cpc' = [cpc EXCEPT ![c] = "back"]
    BY <1>7 DEF WaitDone, Drained
  <2>2. wpc # "caught" /\ freed = 1 .. total /\ total \in Nat /\ Len(queue) \in Nat
    <3>1. Len(queue) \in Nat /\ total \in Nat
      BY DEF TypeOK
    <3>2. ~ Busy
      BY <2>1, <3>1 DEF QueueInv
    <3> QED
      BY <2>1, <3>1, <3>2 DEF Busy, FreedInv
  <2>3. CaughtInv' /\ FirstFailure'
    BY <1>1, <2>1, <2>2 DEF CaughtInv, FirstFailure
  <2>4. WaitCovers'
    <3> SUFFICES ASSUME NEW d \in Clients PROVE 1 .. mark[d] \subseteq freed
      BY <1>1, <2>1 DEF WaitCovers
    <3>1. mark[d] \in Nat /\ mark[d] <= total
      BY DEF LifeInv, TypeOK
    <3> QED
      BY <2>2, <3>1
  <2> QED
    BY <1>4, <1>5, <1>6, <2>3, <2>4 DEF IndInv
<1>8. CASE ~ WaitDone(c)
  <2>1. /\ failure' = failure /\ thrown' = thrown
        /\ \A d \in Clients : cpc'[d] = "back" => cpc[d] = "back" /\ mark'[d] = mark[d]
    BY <1>8 DEF CallWait, WaitSleep, WaitReturn, SpuriousClient, impl, hist, TypeOK
  <2>2. CaughtInv' /\ FirstFailure' /\ WaitCovers'
    BY <1>1, <2>1 DEF CaughtInv, FirstFailure, WaitCovers
  <2> QED
    BY <1>4, <1>5, <1>6, <2>2 DEF IndInv
<1> QED
  BY <1>7, <1>8

\* The steps of the destructor.
LEMMA DestroyInv ==
    ASSUME IndInv, SetStop \/ Notify \/ Join
    PROVE  IndInv'
<1> USE DEF IndInv
<1>1. /\ UNCHANGED <<queue, outstanding, total, failure, task, cpc>>
      /\ UNCHANGED <<mark, got, freed, thrown>>
      /\ wpc' = wpc \/ wpc' = WakeWorker
      /\ stop' \in BOOLEAN /\ dpc' \in {"stopping", "joining", "destroyed"}
  BY DEF SetStop, Notify, Join, impl, hist, TypeOK
<1>2. /\ Busy' <=> Busy
      /\ wpc' \in {"check", "asleep", "run", "caught", "drop", "count", "gone"}
      /\ wpc' = "gone" <=> wpc = "gone"
      /\ wpc' = "count" <=> wpc = "count"
      /\ wpc' = "caught" <=> wpc = "caught"
  BY <1>1 DEF WakeWorker, Busy, TypeOK
<1>3. TypeOK' /\ QueueInv' /\ FreedInv' /\ ThrownInv'
  BY <1>1, <1>2 DEF TypeOK, QueueInv, FreedInv, ThrownInv
<1>4. CaughtInv' /\ FirstFailure' /\ WaitCovers'
  BY <1>1, <1>2 DEF CaughtInv, FirstFailure, WaitCovers
<1>5. LifeInv'
  <2>1. stop' <=> dpc' # "live"
    BY DEF SetStop, Notify, Join, impl, LifeInv
  <2>2. stop => stop'
    BY DEF SetStop, Notify, Join, impl
  <2>3. \A c \in Clients : cpc[c] = "out"
    BY DEF SetStop, Notify, Join, LifeInv
  <2>4. dpc' = "destroyed" => wpc' = "gone"
    BY <1>2 DEF SetStop, Notify, Join
  <2> QED
    BY <1>1, <1>2, <2>1, <2>2, <2>3, <2>4 DEF LifeInv
<1>6. DestroyDrains'
  <2>1. CASE Join
    <3>1. wpc = "gone" /\ queue = <<>>
      BY <2>1 DEF Join, LifeInv
    <3>2. ~ Busy /\ wpc # "count" /\ Len(queue) = 0 /\ total \in Nat
      BY <3>1, EmptySeq DEF Busy, TypeOK
    <3>3. freed = 1 .. total
      BY <3>2 DEF QueueInv, FreedInv
    <3> QED
      BY <1>1, <3>3 DEF DestroyDrains
  <2>2. CASE SetStop \/ Notify
    BY <2>2 DEF SetStop, Notify, DestroyDrains
  <2> QED
    BY <2>1, <2>2
<1> QED
  BY <1>3, <1>4, <1>5, <1>6 DEF IndInv

\* Every step of the specification preserves the inductive invariant.
LEMMA StepInv == IndInv /\ [Next]_vars => IndInv'
<1> SUFFICES ASSUME IndInv, [Next]_vars PROVE IndInv'
  OBVIOUS
<1>1. CASE TaskSubmits
  BY <1>1, EnqueueInv DEF TaskSubmits
<1>2. CASE \E c \in Clients : Submit(c)
  <2>1. dpc = "live" /\ Enqueue
    BY <1>2 DEF Submit
  <2>2. wpc # "gone"
    BY <2>1 DEF IndInv, LifeInv
  <2> QED
    BY <2>1, <2>2, EnqueueInv
<1>3. CASE WorkerStep \/ SpuriousWorker
  BY <1>3, TakeInv, RunInv, CountInv, IdleInv DEF WorkerStep
<1>4. CASE \E c \in Clients : CallWait(c) \/ ClientStep(c) \/ SpuriousClient(c)
  BY <1>4, ClientInv DEF ClientStep
<1>5. CASE SetStop \/ Notify \/ Join
  BY <1>5, DestroyInv
<1>6. CASE UNCHANGED vars
  <2>1. /\ UNCHANGED <<queue, outstanding, total, failure, stop, wpc, task, cpc, dpc>>
        /\ UNCHANGED <<mark, got, freed, thrown>>
    BY <1>6 DEF vars, impl, hist
  <2>2. TypeOK' /\ QueueInv' /\ FreedInv' /\ ThrownInv' /\ CaughtInv'
    BY <2>1 DEF IndInv, TypeOK, QueueInv, FreedInv, ThrownInv, CaughtInv, Busy
  <2>3. LifeInv' /\ WaitCovers' /\ FirstFailure' /\ DestroyDrains'
    BY <2>1 DEF IndInv, LifeInv, WaitCovers, FirstFailure, DestroyDrains
  <2> QED
    BY <2>2, <2>3 DEF IndInv
<1>7. CASE Destroyed
  BY <1>6, <1>7 DEF Destroyed
<1> QED
  BY <1>1, <1>2, <1>3, <1>4, <1>5, <1>6, <1>7 DEF Next

\* The inductive invariant holds in every reachable state.
THEOREM Invariance == Spec => []IndInv
  BY InitInv, StepInv, PTL DEF Spec

\* The fields of Impl keep their types; outstanding never wraps.
THEOREM TypeCorrect == Spec => []TypeOK
<1>1. IndInv => TypeOK
  BY DEF IndInv
<1> QED
  BY <1>1, Invariance, PTL

\* When wait returns, all that was submitted before the call has run and its
\* captures are destroyed.
THEOREM WaitIsABarrier == Spec => []WaitCovers
<1>1. IndInv => WaitCovers
  BY DEF IndInv
<1> QED
  BY <1>1, Invariance, PTL

\* The next wait rethrows the first failure since the last one.
THEOREM FailureIsFirst == Spec => []FirstFailure
<1>1. IndInv => FirstFailure
  BY DEF IndInv
<1> QED
  BY <1>1, Invariance, PTL

\* The destructor leaves no task behind.
THEOREM DestructionDrains == Spec => []DestroyDrains
<1>1. IndInv => DestroyDrains
  BY DEF IndInv
<1> QED
  BY <1>1, Invariance, PTL

\* A step that moves nothing the promise speaks of is a stutter of it.
LEMMA PromiseStutter ==
    ASSUME UNCHANGED <<total, outstanding, failure, task>>, Busy' <=> Busy
    PROVE  UNCHANGED Promise!svars
  BY DEF Promise!svars

\* Every step of the stream is a step or a stutter of its promise.
LEMMA PromiseStep == IndInv /\ [Next]_vars => [Promise!StreamNext]_(Promise!svars)
<1> SUFFICES ASSUME IndInv, [Next]_vars PROVE [Promise!StreamNext]_(Promise!svars)
  OBVIOUS
<1>1. total \in Nat /\ outstanding \in Nat /\ Len(queue) \in Nat /\ task \in Nat
  BY StreamAssumption DEF IndInv, TypeOK
<1>2. Busy => outstanding >= 1 /\ task = (total - outstanding) + 1
  BY <1>1 DEF IndInv, QueueInv
<1>3. CASE Enqueue
  <2>1. /\ total' = total + 1 /\ outstanding' = outstanding + 1
        /\ failure' = failure /\ task' = task /\ wpc' = WakeWorker
    BY <1>3 DEF Enqueue
  <2>2. Busy' <=> Busy
    BY <2>1 DEF WakeWorker, Busy
  <2>3. total' - outstanding' = total - outstanding
    BY <1>1, <2>1
  <2>4. Promise!StreamSubmit
    BY <2>1, <2>2, <2>3 DEF Promise!StreamSubmit
  <2> QED
    BY <2>4 DEF Promise!StreamNext
<1>4. CASE Take
  <2>1. /\ ~ Busy /\ Busy' /\ UNCHANGED <<total, outstanding, failure>>
        /\ queue # <<>> /\ queue \in Seq(1 .. MaxTasks) /\ task' = queue[1]
    BY <1>4 DEF Take, Busy, IndInv, TypeOK
  <2>2. Len(queue) >= 1 /\ outstanding = Len(queue) /\ Len(queue) <= total
    BY <2>1, <1>1 DEF IndInv, QueueInv
  <2>3. queue[1] = (total - Len(queue)) + 1
    BY <1>1, <2>2 DEF IndInv, QueueInv
  <2>4. Promise!StreamBegin
    <3>1. total - outstanding < total /\ task' = (total - outstanding) + 1
      BY <1>1, <2>1, <2>2, <2>3
    <3> QED
      BY <2>1, <3>1 DEF Promise!StreamBegin
  <2> QED
    BY <2>4 DEF Promise!StreamNext
<1>5. CASE Catch
  <2>1. /\ Busy /\ Busy' /\ UNCHANGED <<total, outstanding, task>>
        /\ failure' = IF failure = 0 THEN task ELSE failure
    BY <1>5 DEF Catch, Busy
  <2>2. Promise!StreamThrow
    BY <1>2, <2>1 DEF Promise!StreamThrow
  <2> QED
    BY <2>2 DEF Promise!StreamNext
<1>6. CASE Count
  <2>1. /\ Busy /\ ~ Busy' /\ UNCHANGED <<total, failure>> /\ outstanding' = outstanding - 1
    BY <1>6 DEF Count, Busy
  <2>2. total' - outstanding' = task
    BY <1>1, <1>2, <2>1
  <2>3. Promise!StreamFinish
    BY <1>2, <2>1, <2>2 DEF Promise!StreamFinish
  <2> QED
    BY <2>3 DEF Promise!StreamNext
<1>7. CASE \E c \in Clients : WaitDone(c)
  <2>1. /\ outstanding = 0 /\ failure' = 0
        /\ UNCHANGED <<total, outstanding, task, wpc>> /\ (Busy' <=> Busy)
    BY <1>7 DEF WaitDone, Drained, Busy
  <2>2. Promise!StreamWait
    BY <1>1, <2>1 DEF Promise!StreamWait
  <2> QED
    BY <2>2 DEF Promise!StreamNext
<1>8. CASE TaskReturns \/ TaskThrows \/ Drop \/ WorkerSleep \/ Quit \/ SpuriousWorker
  <2>1. UNCHANGED <<total, outstanding, failure, task>> /\ (Busy' <=> Busy)
    BY <1>8 DEF TaskReturns, TaskThrows, Drop, WorkerSleep, Quit, SpuriousWorker, impl, Busy
  <2> QED
    BY <2>1, PromiseStutter
<1>9. CASE \/ \E c \in Clients : \/ CallWait(c) \/ WaitSleep(c) \/ WaitReturn(c)
                                 \/ SpuriousClient(c)
           \/ SetStop \/ Join \/ Destroyed \/ UNCHANGED vars
  <2>1. UNCHANGED <<total, outstanding, failure, task>> /\ (Busy' <=> Busy)
    BY <1>9 DEF CallWait, WaitSleep, WaitReturn, SpuriousClient, SetStop, Join,
                Destroyed, vars, impl, Busy
  <2> QED
    BY <2>1, PromiseStutter
<1>10. CASE Notify
  <2>1. UNCHANGED <<total, outstanding, failure, task>> /\ (Busy' <=> Busy)
    BY <1>10 DEF Notify, impl, WakeWorker, Busy
  <2> QED
    BY <2>1, PromiseStutter
<1> QED
  BY <1>3, <1>4, <1>5, <1>6, <1>7, <1>8, <1>9, <1>10
  DEF Next, WorkerStep, ClientStep, Submit, TaskSubmits

\* The threads, the lock and the condition variables together implement the
\* ordered stream of core/stream.hpp.
THEOREM StreamKeepsPromise == Spec => ImplementsOrderedStream
<1>1. Init => Promise!StreamInit
  BY DEF Init, Promise!StreamInit, Busy
<1> QED
  BY <1>1, Invariance, PromiseStep, PTL DEF Spec, ImplementsOrderedStream, Promise!StreamSpec
=============================================================================

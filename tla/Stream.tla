------------------------------- MODULE Stream -------------------------------
(***************************************************************************)
(* core/stream.cpp: a Stream is a task queue, one worker thread, a mutex   *)
(* and two condition variables.  One action is one critical section or one *)
(* step outside the lock.  A thread that waits on a condition variable is  *)
(* "asleep" until it is notified or wakes spuriously, and then checks its  *)
(* predicate again.  Tasks are numbered in submission order.               *)
(***************************************************************************)
EXTENDS Integers, Sequences

CONSTANTS Clients,   \* threads that submit and wait
          MaxTasks   \* bound: tasks submitted over the life of the stream

ASSUME StreamAssumption == MaxTasks \in Nat

VARIABLES
    queue, outstanding, total, failure, stop,   \* Impl (failure 0: none)
    wpc,      \* where the worker thread is
    task,     \* the task it holds, 0 if none
    cpc,      \* where each client is in wait()
    dpc,      \* "live", "stopping", "joining" or "destroyed"
    mark,     \* mark[c]: total when client c called wait
    got,      \* got[c]: what the wait of client c rethrows
    freed,    \* tasks whose captures have been destroyed
    thrown    \* tasks that threw since the last wait that returned

impl == <<queue, outstanding, total, failure, stop>>
hist == <<mark, got, freed, thrown>>
vars == <<impl, wpc, task, cpc, dpc, hist>>

Init ==
    /\ queue = <<>> /\ outstanding = 0 /\ total = 0 /\ failure = 0 /\ stop = FALSE
    /\ wpc = "check" /\ task = 0 /\ dpc = "live"
    /\ cpc  = [c \in Clients |-> "out"]
    /\ mark = [c \in Clients |-> 0]
    /\ got  = [c \in Clients |-> 0]
    /\ freed = {} /\ thrown = {}

-----------------------------------------------------------------------------
(* submit *)

\* notify_one and notify_all on work_cv: only the worker waits there.
WakeWorker == IF wpc = "asleep" THEN "check" ELSE wpc

Enqueue ==
    /\ total < MaxTasks
    /\ queue' = Append(queue, total + 1)
    /\ outstanding' = outstanding + 1
    /\ total' = total + 1
    /\ wpc' = WakeWorker
    /\ UNCHANGED <<failure, stop, task, cpc, dpc, hist>>

Submit(c) == dpc = "live" /\ cpc[c] = "out" /\ Enqueue

\* A running task may itself submit to its stream.
TaskSubmits == wpc = "run" /\ Enqueue

-----------------------------------------------------------------------------
(* The worker thread: Impl::loop *)

\* work_cv.wait with a false predicate.
WorkerSleep ==
    /\ wpc = "check" /\ ~ stop /\ queue = <<>>
    /\ wpc' = "asleep"
    /\ UNCHANGED <<impl, task, cpc, dpc, hist>>

\* Fault model: tasks are taken from the wrong end of the deque.
TakeNewest ==
    /\ wpc = "check" /\ queue # <<>>
    /\ task' = queue[Len(queue)]
    /\ queue' = SubSeq(queue, 1, Len(queue) - 1)
    /\ wpc' = "run"
    /\ UNCHANGED <<outstanding, total, failure, stop, cpc, dpc, hist>>

Take ==
    /\ wpc = "check" /\ queue # <<>>
    /\ task' = Head(queue)
    /\ queue' = Tail(queue)
    /\ wpc' = "run"
    /\ UNCHANGED <<outstanding, total, failure, stop, cpc, dpc, hist>>

\* Fault model: the worker leaves with tasks still queued.
QuitAtOnce ==
    /\ wpc = "check" /\ stop
    /\ wpc' = "gone"
    /\ UNCHANGED <<impl, task, cpc, dpc, hist>>

Quit ==
    /\ wpc = "check" /\ stop /\ queue = <<>>
    /\ wpc' = "gone"
    /\ UNCHANGED <<impl, task, cpc, dpc, hist>>

\* task(): it returns, or throws into the catch block.
TaskReturns ==
    /\ wpc = "run" /\ wpc' = "drop"
    /\ UNCHANGED <<impl, task, cpc, dpc, hist>>

TaskThrows ==
    /\ wpc = "run" /\ wpc' = "caught"
    /\ thrown' = thrown \union {task}
    /\ UNCHANGED <<impl, task, cpc, dpc, mark, got, freed>>

\* Fault model: a later failure replaces an earlier one.
CatchLast ==
    /\ wpc = "caught" /\ wpc' = "drop"
    /\ failure' = task
    /\ UNCHANGED <<queue, outstanding, total, stop, task, cpc, dpc, hist>>

\* Fault model: a task that throws is counted out twice.
CatchCounting ==
    /\ wpc = "caught" /\ wpc' = "drop"
    /\ failure' = IF failure = 0 THEN task ELSE failure
    /\ outstanding' = outstanding - 1
    /\ UNCHANGED <<queue, total, stop, task, cpc, dpc, hist>>

Catch ==
    /\ wpc = "caught" /\ wpc' = "drop"
    /\ failure' = IF failure = 0 THEN task ELSE failure
    /\ UNCHANGED <<queue, outstanding, total, stop, task, cpc, dpc, hist>>

\* task = nullptr: the captures go before the count does.
Drop ==
    /\ wpc = "drop" /\ wpc' = "count"
    /\ freed' = freed \union {task}
    /\ UNCHANGED <<impl, task, cpc, dpc, mark, got, thrown>>

\* Fault model: nobody is told that the count reached zero.
CountSilent ==
    /\ wpc = "count" /\ wpc' = "check"
    /\ task' = 0
    /\ outstanding' = outstanding - 1
    /\ cpc' = cpc
    /\ UNCHANGED <<queue, total, failure, stop, dpc, hist>>

\* --outstanding; notify_all on done_cv when it reaches zero.
Count ==
    /\ wpc = "count" /\ wpc' = "check"
    /\ task' = 0
    /\ outstanding' = outstanding - 1
    /\ cpc' = IF outstanding' = 0
              THEN [c \in Clients |-> IF cpc[c] = "asleep" THEN "check" ELSE cpc[c]]
              ELSE cpc
    /\ UNCHANGED <<queue, total, failure, stop, dpc, hist>>

WorkerStep == \/ WorkerSleep \/ Take \/ Quit \/ TaskReturns \/ TaskThrows
              \/ Catch \/ Drop \/ Count

-----------------------------------------------------------------------------
(* wait *)

CallWait(c) ==
    /\ dpc = "live" /\ cpc[c] = "out"
    /\ cpc' = [cpc EXCEPT ![c] = "check"]
    /\ mark' = [mark EXCEPT ![c] = total]
    /\ UNCHANGED <<impl, wpc, task, dpc, got, freed, thrown>>

\* Fault model: an empty queue is taken for a drained stream.
DrainedQueue == queue = <<>>

Drained == outstanding = 0

WaitSleep(c) ==
    /\ cpc[c] = "check" /\ ~ Drained
    /\ cpc' = [cpc EXCEPT ![c] = "asleep"]
    /\ UNCHANGED <<impl, wpc, task, dpc, hist>>

WaitDone(c) ==
    /\ cpc[c] = "check" /\ Drained
    /\ cpc' = [cpc EXCEPT ![c] = "back"]
    /\ got' = [got EXCEPT ![c] = failure]
    /\ failure' = 0
    /\ thrown' = {}
    /\ UNCHANGED <<queue, outstanding, total, stop, wpc, task, dpc, mark, freed>>

\* Unlocked: return to the caller, rethrowing what was taken.
WaitReturn(c) ==
    /\ cpc[c] = "back"
    /\ cpc' = [cpc EXCEPT ![c] = "out"]
    /\ UNCHANGED <<impl, wpc, task, dpc, hist>>

\* A condition variable may wake a thread for no reason.
SpuriousWorker ==
    /\ wpc = "asleep" /\ wpc' = "check"
    /\ UNCHANGED <<impl, task, cpc, dpc, hist>>

SpuriousClient(c) ==
    /\ cpc[c] = "asleep"
    /\ cpc' = [cpc EXCEPT ![c] = "check"]
    /\ UNCHANGED <<impl, wpc, task, dpc, hist>>

-----------------------------------------------------------------------------
(* ~Impl: the owner destroys the stream when no client is inside it *)

SetStop ==
    /\ dpc = "live" /\ \A c \in Clients : cpc[c] = "out"
    /\ dpc' = "stopping"
    /\ stop' = TRUE
    /\ UNCHANGED <<queue, outstanding, total, failure, wpc, task, cpc, hist>>

Notify ==
    /\ dpc = "stopping" /\ dpc' = "joining"
    /\ wpc' = WakeWorker
    /\ UNCHANGED <<impl, task, cpc, hist>>

Join ==
    /\ dpc = "joining" /\ wpc = "gone"
    /\ dpc' = "destroyed"
    /\ UNCHANGED <<impl, wpc, task, cpc, hist>>

Destroyed == dpc = "destroyed" /\ UNCHANGED vars

ClientStep(c) == WaitSleep(c) \/ WaitDone(c) \/ WaitReturn(c)

Next == \/ WorkerStep \/ TaskSubmits \/ SpuriousWorker
        \/ SetStop \/ Notify \/ Join \/ Destroyed
        \/ \E c \in Clients : Submit(c) \/ CallWait(c) \/ ClientStep(c) \/ SpuriousClient(c)

Spec == Init /\ [][Next]_vars

\* Every runnable thread keeps running and every task ends.  Nobody has to
\* submit, to call wait or to destroy the stream.
FairSpec == /\ Spec
            /\ WF_vars(WorkerStep) /\ WF_vars(Notify \/ Join)
            /\ \A c \in Clients : WF_vars(ClientStep(c))

-----------------------------------------------------------------------------
(* Properties *)

Busy == wpc \in {"run", "caught", "drop", "count"}

\* The types of the fields; outstanding, a size_t, never wraps below zero.
TypeOK ==
    /\ queue \in Seq(1 .. MaxTasks) /\ outstanding \in Nat
    /\ total \in 0 .. MaxTasks /\ failure \in 0 .. MaxTasks /\ stop \in BOOLEAN
    /\ wpc \in {"check", "asleep", "run", "caught", "drop", "count", "gone"}
    /\ task \in 0 .. MaxTasks
    /\ cpc \in [Clients -> {"out", "check", "asleep", "back"}]
    /\ dpc \in {"live", "stopping", "joining", "destroyed"}
    /\ mark \in [Clients -> 0 .. MaxTasks] /\ got \in [Clients -> 0 .. MaxTasks]
    /\ freed \subseteq 1 .. MaxTasks /\ thrown \subseteq 1 .. MaxTasks

\* "Block the calling thread until every task submitted so far has run.
\* Captures are destroyed before completion": when wait returns, every task
\* submitted before it was called has run and has been destroyed.
WaitCovers == \A c \in Clients : cpc[c] = "back" => 1 .. mark[c] \subseteq freed

\* "Rethrow the first callback failure since the previous wait": what the
\* next wait rethrows is the earliest task that threw since then, if any.
FirstFailure ==
    wpc # "caught" =>
        /\ failure = 0 <=> thrown = {}
        /\ failure # 0 => failure \in thrown /\ \A t \in thrown : failure <= t

\* A destroyed stream has run and destroyed every task submitted to it,
\* those that its own tasks submitted during the destruction included.
DestroyDrains == dpc = "destroyed" => freed = 1 .. total

\* No wake-up is lost: every wait returns and destruction never hangs in join,
\* under any interleaving of submissions, spurious wake-ups and other waits.
NoLostWakeUp ==
    /\ \A c \in Clients : (cpc[c] = "check") ~> (cpc[c] = "back")
    /\ (dpc = "stopping") ~> (dpc = "destroyed")

-----------------------------------------------------------------------------
\* The stream as its header shows it.
Promise == INSTANCE OrderedStream WITH
    subs   <- total,
    begun  <- IF Busy THEN task ELSE total - outstanding,
    done   <- total - outstanding,
    failed <- failure

\* The stream implements the ordered stream its header promises: tasks run one
\* at a time in submission order and a wait ends only with all of them done.
ImplementsOrderedStream == Promise!StreamSpec

-----------------------------------------------------------------------------
(* The inductive invariant behind the proofs of StreamProofs *)

QueueInv ==
    /\ \A i \in 1 .. Len(queue) : queue[i] = (total - Len(queue)) + i
    /\ Busy  => task = total - Len(queue) /\ outstanding = Len(queue) + 1 /\ task >= 1
    /\ ~Busy => task = 0 /\ outstanding = Len(queue)
    /\ Len(queue) <= total

FreedInv == freed = IF wpc = "count" THEN 1 .. task ELSE 1 .. (total - outstanding)

ThrownInv == \A t \in thrown : t <= total - outstanding \/ (Busy /\ t = task)

CaughtInv ==
    wpc = "caught" =>
        /\ task \in thrown
        /\ failure = 0 => thrown = {task}
        /\ failure # 0 => failure \in thrown /\ \A t \in thrown : failure <= t

LifeInv ==
    /\ wpc = "gone" => stop /\ queue = <<>>
    /\ stop <=> dpc # "live"
    /\ dpc # "live" => \A c \in Clients : cpc[c] = "out"
    /\ dpc = "destroyed" => wpc = "gone"
    /\ \A c \in Clients : mark[c] <= total

IndInv == /\ TypeOK /\ QueueInv /\ FreedInv /\ ThrownInv /\ CaughtInv /\ LifeInv
          /\ WaitCovers /\ FirstFailure /\ DestroyDrains
=============================================================================

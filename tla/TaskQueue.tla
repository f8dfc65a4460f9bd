----------------------------- MODULE TaskQueue -----------------------------
(***************************************************************************)
(* The ready-task runtime (compiler/runtime/task_queue.py): check_acyclic, *)
(* the seeding of the roots, and workers that claim a task, execute it and *)
(* complete it.  claim and complete are atomic (one elected thread does    *)
(* the queue operations); between them a task is in the hands of a worker. *)
(* The order in which sets are enumerated is left open.                    *)
(***************************************************************************)
EXTENDS Integers, FiniteSets, Sequences, SequencesExt

CONSTANTS Tasks,     \* task keys, numbers from 1
          Workers,   \* workers of the dispatch loop
          Graphs     \* the predecessor functions to consider

ASSUME QueueAssumption ==
    /\ IsFiniteSet(Tasks) /\ Tasks \subseteq Nat \ {0}
    /\ Graphs \subseteq [Tasks -> SUBSET Tasks]

VARIABLES
    preds,      \* TaskDeps.preds
    mode,       \* "check", "run", "finished" or "error" (ProgressError of the check)
    remaining,  \* unfinished predecessors: indeg of the check, then of the run
    ready,      \* the ready queue
    enqueued,   \* _enqueued
    retired,    \* retired, and seen in the check
    held,       \* held[w]: task in the hands of worker w, None if idle
    complete    \* tasks that have completed

queueVars == <<preds, mode, remaining, ready, enqueued, retired, held, complete>>

None == 0

Roots == {k \in Tasks : preds[k] = {}}
Successors(k) == {s \in Tasks : k \in preds[s]}

\* The counts and the queue that both Kahn's loop and initialize start from.
Seed ==
    /\ remaining' = [k \in Tasks |-> Cardinality(preds[k])]
    /\ ready' \in SetToSeqs(Roots)
    /\ enqueued' = Roots
    /\ retired' = 0

QueueInit ==
    /\ preds \in Graphs
    /\ mode = "check"
    /\ remaining = [k \in Tasks |-> Cardinality(preds[k])]
    /\ ready \in SetToSeqs(Roots)
    /\ enqueued = Roots /\ retired = 0
    /\ held = [w \in Workers |-> None] /\ complete = {}

\* One task less for each successor; those that reach zero become ready.
Decremented(k) ==
    [s \in Tasks |-> IF s \in Successors(k) THEN remaining[s] - 1 ELSE remaining[s]]

\* Fault model: a successor is made ready one predecessor early.
NewlyReadyEarly(k) == {s \in Successors(k) : Decremented(k)[s] <= 1} \ enqueued

NewlyReady(k) == {s \in Successors(k) : Decremented(k)[s] = 0} \ enqueued

-----------------------------------------------------------------------------
(* check_acyclic *)

KahnStep ==
    /\ mode = "check" /\ ready # <<>>
    /\ LET k == Head(ready) IN
       /\ remaining' = Decremented(k)
       /\ \E new \in SetToSeqs({s \in Successors(k) : Decremented(k)[s] = 0}) :
             ready' = Tail(ready) \o new
       /\ retired' = retired + 1
    /\ UNCHANGED <<preds, mode, enqueued, held, complete>>

\* Fault model: a check that has seen anything at all is content.
AllSeenSome == retired > 0 \/ Tasks = {}

AllSeen == retired = Cardinality(Tasks)

KahnEnds ==
    /\ mode = "check" /\ ready = <<>>
    /\ \/ /\ ~ AllSeen /\ mode' = "error"
          /\ UNCHANGED <<remaining, ready, enqueued, retired>>
       \/ /\ AllSeen /\ mode' = "run"
          /\ Seed
    /\ UNCHANGED <<preds, held, complete>>

-----------------------------------------------------------------------------
(* The dispatch loop *)

Claim(w) ==
    /\ mode = "run" /\ held[w] = None /\ ready # <<>>
    /\ held' = [held EXCEPT ![w] = Head(ready)]
    /\ ready' = Tail(ready)
    /\ UNCHANGED <<preds, mode, remaining, enqueued, retired, complete>>

\* complete: notify the successors, then retire.
Complete(w) ==
    /\ held[w] # None
    /\ LET k == held[w] IN
       /\ remaining' = Decremented(k)
       /\ \E new \in SetToSeqs(NewlyReady(k)) : ready' = ready \o new
       /\ enqueued' = enqueued \union NewlyReady(k)
       /\ complete' = complete \union {k}
    /\ retired' = retired + 1
    /\ held' = [held EXCEPT ![w] = None]
    /\ UNCHANGED <<preds, mode>>

\* Fault model: an empty ready queue is taken for the end.
FinishedEmpty == ready = <<>>

Finished == retired = Cardinality(Tasks)

LoopEnds ==
    /\ mode = "run" /\ Finished
    /\ mode' = "finished"
    /\ UNCHANGED <<preds, remaining, ready, enqueued, retired, held, complete>>

-----------------------------------------------------------------------------
(* Properties *)

InHand == {held[w] : w \in {v \in Workers : held[v] # None}}

\* A set of tasks in which each waits for another of them can never start.
Circular(S) == S # {} /\ \A k \in S : preds[k] \intersect S # {}

\* "raises on cycles (a wait cycle deadlocks)": check_acyclic raises exactly on
\* the graphs that contain tasks waiting for each other.
CycleVerdict ==
    /\ mode = "error" => \E S \in SUBSET Tasks : Circular(S)
    /\ mode \in {"run", "finished"} => ~ \E S \in SUBSET Tasks : Circular(S)

\* A task is executed only after all of its predecessors have completed.
PredsFirst == \A w \in Workers : held[w] # None => preds[held[w]] \subseteq complete

\* "a task is enqueued at most once": no task is waiting twice, in two hands,
\* or waiting or in hand again after it has completed.
AtMostOnce ==
    mode # "check" =>
        /\ Len(ready) = Cardinality(ToSet(ready))
        /\ \A v, w \in Workers : v # w /\ held[v] # None => held[v] # held[w]
        /\ ToSet(ready) \intersect (InHand \union complete) = {}
        /\ InHand \intersect complete = {}
=============================================================================

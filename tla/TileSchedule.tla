---------------------------- MODULE TileSchedule ----------------------------
(***************************************************************************)
(* Tile schedules of the compiler: the dependencies that                   *)
(* build_tile_dependencies derives from the regions of operators and tasks *)
(* (schedule_static.py), and the two ways to run the tasks without phase   *)
(* barriers: the ready-task queue of TaskQueue, and fixed per-worker       *)
(* sequences with waits for producers.                                     *)
(*                                                                         *)
(* A cell of a storage holds the task that wrote it last.  A task reads    *)
(* and writes at any time between its claim and its completion: it does    *)
(* both at either end, so a conflicting task that runs meanwhile is seen.  *)
(***************************************************************************)
EXTENDS TaskQueue, Operators

CONSTANT Programs   \* sequences of operators

VARIABLES tasks,   \* what the bodies of the program's tasks touch
          plan,    \* "dynamic" or "static"
          order,   \* tasks in the order of Kahn's loop
          mem,     \* mem[cell]: last writer
          seen     \* <<task, cell, writer>> met by a read

tileVars == <<queueVars, tasks, plan, order, mem, seen>>

-----------------------------------------------------------------------------
(* Tasks and dependencies *)

\* lower_graph: the tasks of the operators in program order.  A number that a
\* short program does not use stands for a task without regions.
NoTask == [op |-> 0, reads |-> {}, writes |-> {}, uses |-> {}, sets |-> {}]
Lowered(p) ==
    LET keys == UNION {{<<o, c[1], c[2]>> : c \in DOMAIN p[o].tasks} : o \in DOMAIN p}
        less(a, b) == \/ a[1] < b[1]
                      \/ a[1] = b[1] /\ (a[2] < b[2] \/ (a[2] = b[2] /\ a[3] < b[3]))
        of(key) == LET t == p[key[1]].tasks[<<key[2], key[3]>>]
                   IN  [op |-> key[1], reads |-> t.reads, writes |-> t.writes,
                        uses |-> t.uses, sets |-> t.sets]
        seq == SetToSortSeq(keys, less)
    IN  [k \in Tasks |-> IF k \in DOMAIN seq THEN of(seq[k]) ELSE NoTask]

\* compute_hazards: kinds of conflict between the regions of two operators.
Hazards(u, v) ==
    {x \in {<<"writes", "reads">>, <<"reads", "writes">>, <<"writes", "writes">>} :
        \E g \in u[x[1]], h \in v[x[2]] : Overlaps(g, h)}

\* Fault model: only what a later task reads is waited for.
TaskPairHazardFlow(kind, a, b) ==
    kind[2] = "reads" /\ \E g \in a[kind[1]], h \in b[kind[2]] : Overlaps(g, h)

TaskPairHazard(kind, a, b) == \E g \in a[kind[1]], h \in b[kind[2]] : Overlaps(g, h)

\* build_tile_dependencies, without a span limit.
Dependencies(p, t) ==
    [k \in Tasks |-> {j \in Tasks :
        /\ t[j].op # 0 /\ t[j].op < t[k].op
        /\ \E kind \in Hazards(p[t[j].op], p[t[k].op]) : TaskPairHazard(kind, t[j], t[k])}]

\* What the derivation of dependencies takes for granted of a program: tasks are
\* numbered in program order, what two tasks both touch, one of them writing, lies
\* in overlapping regions that they declare, operators declare it when their tasks
\* do, and tasks of one operator are independent of each other.
Touches == [reads |-> "uses", writes |-> "sets"]
MeetingDeclared(p, t, j, k, x) ==
    LET both == t[j][Touches[x[1]]] \intersect t[k][Touches[x[2]]]
        share(u, v) == \E g \in u[x[1]], h \in v[x[2]] : Overlaps(g, h)
    IN  /\ both # {} => t[j].op # t[k].op /\ share(t[j], t[k])
        /\ t[j].op # 0 /\ t[j].op < t[k].op /\ share(t[j], t[k]) => share(p[t[j].op], p[t[k].op])
Declares(p, t) ==
    /\ \A k \in Tasks : t[k].op \in Nat /\ (t[k].op = 0 => t[k] = NoTask)
    /\ \A j, k \in Tasks : t[j].op # 0 /\ t[j].op < t[k].op => j < k
    /\ \A j, k \in Tasks : j # k =>
          \A x \in {<<"writes", "reads">>, <<"reads", "writes">>, <<"writes", "writes">>} :
             MeetingDeclared(p, t, j, k, x)
ProgramsDeclare == \A i \in DOMAIN Programs : Declares(Programs[i], Lowered(Programs[i]))

Written(t) == UNION {t[k].sets : k \in Tasks}

\* A bare graph, or one of the programs with the graph derived from it.
TInit ==
    /\ plan \in {"dynamic", "static"} /\ order = <<>> /\ seen = {}
    /\ \/ QueueInit /\ tasks = [k \in Tasks |-> NoTask] /\ mem = <<>>
       \/ \E i \in DOMAIN Programs : \E p \in {Programs[i]} : \E t \in {Lowered(p)} :
          /\ tasks = [k \in Tasks |-> [t[k] EXCEPT !.reads = {}, !.writes = {}]]
          /\ preds = Dependencies(p, t)
          /\ mem = [c \in Written(t) |-> 0]
          /\ mode = "check"
          /\ remaining = [k \in Tasks |-> Cardinality(preds[k])]
          /\ ready \in SetToSeqs(Roots)
          /\ enqueued = Roots /\ retired = 0
          /\ held = [w \in Workers |-> None] /\ complete = {}

-----------------------------------------------------------------------------
(* The two runs *)

TKahnStep ==
    /\ KahnStep /\ order' = Append(order, Head(ready))
    /\ UNCHANGED <<tasks, plan, mem, seen>>

\* Cells that no task writes hold the caller's data throughout.
Sets(k) == tasks[k].sets
Uses(k) == tasks[k].uses \intersect DOMAIN mem
Touch(k, again) ==
    /\ mem' = [c \in DOMAIN mem |-> IF c \in Sets(k) THEN k ELSE mem[c]]
    /\ seen' = seen \union {<<k, c, mem[c]>> : c \in Uses(k) \ (IF again THEN Sets(k) ELSE {})}

\* build_static_worker_schedule: position i of the order goes to worker i mod P.
Nth(i) == SetToSortSeq(Workers, LAMBDA a, b : a < b)[((i - 1) % Cardinality(Workers)) + 1]
Index(k) == CHOOSE i \in DOMAIN order : order[i] = k

\* Tasks in front of k in the sequence of its worker.
Earlier(k) == {order[i] : i \in {j \in DOMAIN order : j < Index(k) /\ Nth(j) = Nth(Index(k))}}

\* check_augmented_acyclic: the dependencies and the worker orders together.
AugmentedAcyclic ==
    ~ \E S \in SUBSET Tasks : S # {} /\ \A k \in S : (preds[k] \union Earlier(k)) \intersect S # {}

TKahnEnds ==
    /\ IF plan = "static" /\ AllSeen /\ ~ AugmentedAcyclic
       THEN /\ mode = "check" /\ ready = <<>> /\ mode' = "error"
            /\ UNCHANGED <<preds, remaining, ready, enqueued, retired, held, complete>>
       ELSE KahnEnds
    /\ UNCHANGED <<tasks, plan, order, mem, seen>>

TClaim(w) ==
    /\ plan = "dynamic" /\ Claim(w) /\ Touch(Head(ready), FALSE)
    /\ UNCHANGED <<tasks, plan, order>>

TComplete(w) ==
    /\ plan = "dynamic" /\ Complete(w) /\ Touch(held[w], TRUE)
    /\ UNCHANGED <<tasks, plan, order>>

\* A static worker starts the next task of its sequence when its producers are done.
Start(w, k) ==
    /\ plan = "static" /\ mode = "run" /\ held[w] = None
    /\ k \notin complete /\ Nth(Index(k)) = w
    /\ Earlier(k) \subseteq complete /\ preds[k] \subseteq complete
    /\ held' = [held EXCEPT ![w] = k] /\ Touch(k, FALSE)
    /\ UNCHANGED <<preds, mode, remaining, ready, enqueued, retired, complete, tasks, plan, order>>

Publish(w) ==
    /\ plan = "static" /\ held[w] # None
    /\ complete' = complete \union {held[w]} /\ retired' = retired + 1
    /\ held' = [held EXCEPT ![w] = None] /\ Touch(held[w], TRUE)
    /\ UNCHANGED <<preds, mode, remaining, ready, enqueued, tasks, plan, order>>

TLoopEnds == LoopEnds /\ UNCHANGED <<tasks, plan, order, mem, seen>>

TNext == \/ TKahnStep \/ TKahnEnds \/ TLoopEnds
         \/ \E w \in Workers : TClaim(w) \/ TComplete(w) \/ Publish(w)
         \/ \E w \in Workers, k \in Tasks : Start(w, k)

-----------------------------------------------------------------------------
(* Properties *)

\* The last of some tasks that sets cell c, in program order.
LastOf(S, c) == Max({0} \union {j \in S : c \in Sets(j)})

\* Without phase barriers the tasks compute what the operators in program order
\* compute: every task reads, from its claim to its completion, what the last
\* earlier operator wrote, whatever other tasks of its own operator or of others
\* are in flight, and at the end every cell holds its last writer.
SerialReads ==
    /\ \A x \in seen : x[3] = LastOf({j \in Tasks : tasks[j].op < tasks[x[1]].op}, x[2])
    /\ mode = "finished" => \A c \in DOMAIN mem : mem[c] = LastOf(Tasks, c)

\* A task is executed after its predecessors and once: no task is in two hands,
\* or waiting or in hand again after it has completed.
ClaimsSound == PredsFirst /\ (plan = "dynamic" => AtMostOnce)
=============================================================================

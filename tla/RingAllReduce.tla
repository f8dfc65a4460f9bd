--------------------------- MODULE RingAllReduce ---------------------------
(***************************************************************************)
(* ring_allreduce (comm/allreduce.cpp): one thread per rank, linked in a   *)
(* ring by blocking queues (comm/channel.hpp), runs world-1 reduce-scatter *)
(* steps and world-1 all-gather steps.  A chunk is abstracted to how often *)
(* each rank's contribution is in it, so that a sum is right exactly when  *)
(* every contribution is there once.                                       *)
(***************************************************************************)
EXTENDS Integers, Sequences

CONSTANT World   \* ranks

ASSUME WorldAssumption == World \in Nat \ {0}

Ranks == 0 .. World - 1

VARIABLES local,   \* local[r][c]: chunk c of rank r
          edge,    \* edge[r]: the queue from rank r to its next rank
          loop,    \* "scatter", "gather" or "done"
          t,       \* step within the loop
          sent     \* sent[r]: the send of this step is done

ringVars == <<local, edge, loop, t, sent>>

\* ring_rank, make_ring_channels: edge[r] carries r -> Next rank.
PrevOf(r) == (r - 1 + World) % World

Own(r) == [q \in Ranks |-> IF q = r THEN 1 ELSE 0]

\* The buffers and the loop every rank's thread starts with.
Buffers   == [r \in Ranks |-> [c \in Ranks |-> Own(r)]]
FirstLoop == [r \in Ranks |-> IF World = 1 THEN "done" ELSE "scatter"]

\* Fault model: every rank receives before it sends.
SendsFirstNot == [r \in Ranks |-> TRUE]

SendsFirst == [r \in Ranks |-> FALSE]

RingInit ==
    /\ local = Buffers /\ edge = [r \in Ranks |-> <<>>]
    /\ loop = FirstLoop /\ t = [r \in Ranks |-> 0] /\ sent = SendsFirst

\* A call: fresh buffers, fresh channels, one thread per rank.
RingCall ==
    /\ local' = Buffers /\ edge' = [r \in Ranks |-> <<>>]
    /\ loop' = FirstLoop /\ t' = [r \in Ranks |-> 0] /\ sent' = SendsFirst

\* Fault model: the all-gather starts with the chunk of the scatter.
SendChunkSame(r) == (((r - t[r]) % World) + World) % World

\* send_c of the two loops.
SendChunk(r) ==
    IF loop[r] = "scatter" THEN (((r - t[r]) % World) + World) % World
                           ELSE (((r - t[r] + 1) % World) + World) % World

\* recv_c of the two loops.
RecvChunk(r) ==
    IF loop[r] = "scatter" THEN (((r - t[r] - 1) % World) + World) % World
                           ELSE (((r - t[r]) % World) + World) % World

\* BlockingQueue::push and pop on the queue behind rank r: a push never blocks,
\* a pop waits for a chunk.
Push(r, chunk) == edge' = [edge EXCEPT ![r] = Append(@, chunk)]
Pop(r) == edge[r] # <<>> /\ edge' = [edge EXCEPT ![r] = Tail(@)]

\* Fault model: a rank sends again before it has received.
SendRepeated(r) ==
    /\ loop[r] # "done"
    /\ Push(r, local[r][SendChunk(r)])
    /\ sent' = [sent EXCEPT ![r] = TRUE]
    /\ UNCHANGED <<local, loop, t>>

\* next.send(chunk_of(send_c))
Send(r) ==
    /\ loop[r] # "done" /\ ~ sent[r]
    /\ Push(r, local[r][SendChunk(r)])
    /\ sent' = [sent EXCEPT ![r] = TRUE]
    /\ UNCHANGED <<local, loop, t>>

\* The scatter adds what it received; the gather copies it.
Stored(r, got) ==
    IF loop[r] = "scatter" THEN [q \in Ranks |-> local[r][RecvChunk(r)][q] + got[q]]
                           ELSE got

LastStep(r) == t[r] = World - 2

\* prev.recv(), what is done with the chunk, and the end of the step.
Recv(r) ==
    /\ loop[r] # "done" /\ sent[r]
    /\ Pop(PrevOf(r))
    /\ local' = [local EXCEPT ![r][RecvChunk(r)] = Stored(r, Head(edge[PrevOf(r)]))]
    /\ sent' = [sent EXCEPT ![r] = FALSE]
    /\ t' = [t EXCEPT ![r] = IF LastStep(r) THEN 0 ELSE @ + 1]
    /\ loop' = [loop EXCEPT ![r] = IF ~ LastStep(r) THEN @
                                   ELSE IF @ = "scatter" THEN "gather" ELSE "done"]

RankStep(r) == Send(r) \/ Recv(r)

\* The threads are joined and the buffers returned.
RingReturned == \A r \in Ranks : loop[r] = "done"

-----------------------------------------------------------------------------
(* Properties *)

Complete == [q \in Ranks |-> 1]

\* "When scatter ends, rank i fully owns chunk (i + 1) % world": the rank has
\* every contribution to that chunk, each of them once, from the end of its
\* scatter on; and a rank that is done holds the full sum in every chunk.
AllReduced ==
    \A r \in Ranks : /\ loop[r] # "scatter" => local[r][(r + 1) % World] = Complete
                     /\ loop[r] = "done" => \A c \in Ranks : local[r][c] = Complete

\* However far a rank runs ahead of its neighbour, a queue never holds more
\* than world chunks.
QueueBound == \A r \in Ranks : Len(edge[r]) <= World
=============================================================================

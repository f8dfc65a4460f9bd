---------------------------- MODULE OverlapRing ----------------------------
(***************************************************************************)
(* An OverlapExecutor whose comm callback is a ring_allreduce over the     *)
(* result of the compute callback: the ring's threads run while the        *)
(* compute stream is at the next iterations, and the callback returns when *)
(* they have been joined.  The callback may also throw, before or after.   *)
(***************************************************************************)
EXTENDS Overlap, RingAllReduce

allVars == <<vars, ringVars>>

ORInit == Init /\ RingInit

\* The comm callback enters ring_allreduce.
Enter == CommGet /\ RingCall

\* ring_allreduce has joined its threads and the callback returns.
CallbackEnds == RingReturned /\ CommReturns /\ UNCHANGED ringVars

\* ready.get() rethrows the compute callback's exception.
GetThrows == mw = "get" /\ CommThrows /\ UNCHANGED ringVars

\* The callback throws before or after the all-reduce.
CallbackThrows ==
    /\ mw = "call" /\ (RingReturned \/ (local = Buffers /\ sent = SendsFirst))
    /\ CommThrows /\ UNCHANGED ringVars

ThreadStep(r) == mw = "call" /\ RankStep(r) /\ UNCHANGED vars

CommStep ==
    \/ Enter \/ GetThrows \/ CallbackEnds
    \/ (CommBegin \/ CommCatch \/ CommFinish) /\ UNCHANGED ringVars

ORNext ==
    \/ (Start \/ CallerStep \/ ComputeStep) /\ UNCHANGED ringVars
    \/ CommStep \/ CallbackThrows \/ \E r \in Ranks : ThreadStep(r)

\* Threads that can run do run.  No callback has to throw: one that waits for
\* the ring may wait for ever.
ORSpec ==
    /\ ORInit /\ [][ORNext]_allVars
    /\ WF_allVars(CallerStep /\ UNCHANGED ringVars)
    /\ WF_allVars(ComputeStep /\ UNCHANGED ringVars)
    /\ WF_allVars(CommStep) /\ \A r \in Ranks : WF_allVars(ThreadStep(r))

-----------------------------------------------------------------------------
(* Properties *)

\* Every run ends, whatever fails: the comm stream never waits for a promise
\* that nobody will fulfil, and no rank of the ring for a chunk that nobody
\* will send.
RunEnds == (pc = "compute") ~> (pc = "return")
=============================================================================

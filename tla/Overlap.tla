------------------------------ MODULE Overlap ------------------------------
(***************************************************************************)
(* OverlapExecutor::run (comm/overlap.cpp) over its two streams: for each  *)
(* iteration a compute task that fulfils a promise and a comm task that    *)
(* waits for it, then a wait on both streams.  The streams are the ordered *)
(* streams that Stream is proved to implement.  Callbacks and submissions  *)
(* may fail; one executor is used for several runs.  The exception that    *)
(* ready.get() rethrows counts as a failure of the comm task.              *)
(***************************************************************************)
EXTENDS Integers

CONSTANTS Iters,    \* iterations of a run
          MaxRuns   \* bound: runs of one executor

ASSUME OverlapAssumption == Iters \in Nat /\ MaxRuns \in Nat

VARIABLES
    cs, cb, cd, cf,   \* compute_: submitted, begun, done, failed
    ms, mb, md, mf,   \* comm_:    submitted, begun, done, failed
    cw, mw,           \* what the two workers are doing
    pc, i, runs,      \* the caller inside run
    cbase, mbase,     \* tasks submitted before this run
    promise,          \* promise[n]: the future of iteration n
    failure,          \* the local variable failure of run
    bad               \* everything that failed in this run

comp    == <<cs, cb, cd, cf, cw>>
comm    == <<ms, mb, md, mf, mw>>
caller  == <<pc, i, runs, cbase, mbase, failure>>
vars    == <<comp, comm, caller, promise, bad>>

Compute == INSTANCE OrderedStream WITH subs <- cs, begun <- cb, done <- cd, failed <- cf
Comm    == INSTANCE OrderedStream WITH subs <- ms, begun <- mb, done <- md, failed <- mf

Iterations == 1 .. Iters
None == <<"none", 0>>

Init ==
    /\ Compute!StreamInit /\ Comm!StreamInit
    /\ cw = "idle" /\ mw = "idle"
    /\ pc = "idle" /\ i = 1 /\ runs = 0 /\ cbase = 0 /\ mbase = 0
    /\ promise = [n \in Iterations |-> "none"]
    /\ failure = None /\ bad = {}

-----------------------------------------------------------------------------
(* The caller *)

Start ==
    /\ pc = "idle" /\ runs < MaxRuns
    /\ pc' = "compute" /\ i' = 1 /\ runs' = runs + 1
    /\ cbase' = cs /\ mbase' = ms
    /\ promise' = [n \in Iterations |-> "none"]
    /\ failure' = None /\ bad' = {}
    /\ UNCHANGED <<comp, comm>>

SubmitCompute ==
    /\ pc = "compute" /\ i <= Iters
    /\ Compute!StreamSubmit
    /\ promise' = [promise EXCEPT ![i] = "pending"]
    /\ pc' = "comm"
    /\ UNCHANGED <<cw, comm, i, runs, cbase, mbase, failure, bad>>

SubmitComm ==
    /\ pc = "comm"
    /\ Comm!StreamSubmit
    /\ pc' = "compute" /\ i' = i + 1
    /\ UNCHANGED <<mw, comp, runs, cbase, mbase, failure, promise, bad>>

\* make_shared or submit throws: the loop ends, the streams are still drained.
SubmitFails ==
    /\ pc = "comm" \/ (pc = "compute" /\ i <= Iters)
    /\ failure' = <<"submit", i>>
    /\ bad' = bad \union {<<"submit", i>>}
    /\ pc' = "waitCompute"
    /\ UNCHANGED <<comp, comm, i, runs, cbase, mbase, promise>>

LoopEnds ==
    /\ pc = "compute" /\ i > Iters
    /\ pc' = "waitCompute"
    /\ UNCHANGED <<comp, comm, i, runs, cbase, mbase, failure, promise, bad>>

\* Fault model: a failure is rethrown without draining the other stream.
WaitComputeBails ==
    /\ pc = "waitCompute"
    /\ Compute!StreamWait
    /\ failure' = IF failure = None /\ cf # 0 THEN <<"compute", cf - cbase>> ELSE failure
    /\ pc' = IF failure' = None THEN "waitComm" ELSE "return"
    /\ UNCHANGED <<cw, comm, i, runs, cbase, mbase, promise, bad>>

\* Fault model: the last failure wins.
WaitComputeOverrides ==
    /\ pc = "waitCompute"
    /\ Compute!StreamWait
    /\ failure' = IF cf # 0 THEN <<"compute", cf - cbase>> ELSE failure
    /\ pc' = "waitComm"
    /\ UNCHANGED <<cw, comm, i, runs, cbase, mbase, promise, bad>>

WaitCompute ==
    /\ pc = "waitCompute"
    /\ Compute!StreamWait
    /\ failure' = IF failure = None /\ cf # 0 THEN <<"compute", cf - cbase>> ELSE failure
    /\ pc' = "waitComm"
    /\ UNCHANGED <<cw, comm, i, runs, cbase, mbase, promise, bad>>

WaitComm ==
    /\ pc = "waitComm"
    /\ Comm!StreamWait
    /\ failure' = IF failure = None /\ mf # 0 THEN <<"comm", mf - mbase>> ELSE failure
    /\ pc' = "return"
    /\ UNCHANGED <<mw, comp, i, runs, cbase, mbase, promise, bad>>

Return ==
    /\ pc = "return" /\ pc' = "idle"
    /\ UNCHANGED <<comp, comm, i, runs, cbase, mbase, failure, promise, bad>>

-----------------------------------------------------------------------------
(* The compute stream's worker *)

ComputeIter == cb - cbase

ComputeBegin ==
    /\ cw = "idle" /\ cw' = "call"
    /\ Compute!StreamBegin
    /\ UNCHANGED <<comm, caller, promise, bad>>

\* promise->set_value(compute(i))
ComputeReturns ==
    /\ cw = "call" /\ cw' = "end"
    /\ promise' = [promise EXCEPT ![ComputeIter] = "value"]
    /\ UNCHANGED <<cs, cb, cd, cf, comm, caller, bad>>

\* The callback throws: set_exception, and only then the rethrow.
ComputeThrows ==
    /\ cw = "call" /\ cw' = "rethrow"
    /\ promise' = [promise EXCEPT ![ComputeIter] = "exception"]
    /\ bad' = bad \union {<<"compute", ComputeIter>>}
    /\ UNCHANGED <<cs, cb, cd, cf, comm, caller>>

ComputeCatch ==
    /\ cw = "rethrow" /\ cw' = "end"
    /\ Compute!StreamThrow
    /\ UNCHANGED <<comm, caller, promise, bad>>

ComputeFinish ==
    /\ cw = "end" /\ cw' = "idle"
    /\ Compute!StreamFinish
    /\ UNCHANGED <<comm, caller, promise, bad>>

ComputeStep == \/ ComputeBegin \/ ComputeReturns \/ ComputeThrows
               \/ ComputeCatch \/ ComputeFinish

-----------------------------------------------------------------------------
(* The comm stream's worker *)

CommIter == mb - mbase

CommBegin ==
    /\ mw = "idle" /\ mw' = "get"
    /\ Comm!StreamBegin
    /\ UNCHANGED <<comp, caller, promise, bad>>

\* Fault model: the comm task does not look at the future's exception.
CommGetIgnoring ==
    /\ mw = "get" /\ promise[CommIter] # "pending"
    /\ mw' = "call"
    /\ UNCHANGED <<ms, mb, md, mf, comp, caller, promise, bad>>

\* ready.get() returns the value: the callback is invoked.
CommGet ==
    /\ mw = "get" /\ promise[CommIter] = "value"
    /\ mw' = "call"
    /\ UNCHANGED <<ms, mb, md, mf, comp, caller, promise, bad>>

\* ready.get() rethrows, or the callback throws.
CommThrows ==
    /\ mw = "call" \/ (mw = "get" /\ promise[CommIter] = "exception")
    /\ mw' = "rethrow"
    /\ bad' = bad \union {<<"comm", CommIter>>}
    /\ UNCHANGED <<ms, mb, md, mf, comp, caller, promise>>

CommReturns ==
    /\ mw = "call" /\ mw' = "end"
    /\ UNCHANGED <<ms, mb, md, mf, comp, caller, promise, bad>>

CommCatch ==
    /\ mw = "rethrow" /\ mw' = "end"
    /\ Comm!StreamThrow
    /\ UNCHANGED <<comp, caller, promise, bad>>

CommFinish ==
    /\ mw = "end" /\ mw' = "idle"
    /\ Comm!StreamFinish
    /\ UNCHANGED <<comp, caller, promise, bad>>

-----------------------------------------------------------------------------
CallerStep == \/ SubmitCompute \/ SubmitComm \/ SubmitFails \/ LoopEnds
              \/ WaitCompute \/ WaitComm \/ Return

-----------------------------------------------------------------------------
(* Properties *)

\* "The data dependency (comm needs compute's output) is honoured": the comm
\* callback of an iteration is only ever invoked with a value its compute
\* callback has produced.
CommAfterCompute ==
    mw = "call" => CommIter \in Iterations /\ promise[CommIter] = "value"

\* "Submission/callback failures are rethrown only after both streams drain":
\* when run returns or throws, no task of it is queued or running.
DrainedOnReturn == pc \in {"return", "idle"} => cd = cs /\ md = ms

\* The failure a run reports is one of its own: a submission failure before
\* the first compute failure, before the first comm failure; and a run with
\* any failure does not return normally.
OwnFailure ==
    pc = "return" =>
        \/ bad = {} /\ failure = None
        \/ /\ failure \in bad
           /\ \A f \in bad : \/ failure[1] = "submit"
                             \/ failure[1] = "compute" /\ f[1] # "submit"
                             \/ f[1] = "comm"
           /\ \A f \in bad : f[1] = failure[1] => failure[2] <= f[2]
=============================================================================

------------------------- MODULE OverlapRingProofs -------------------------
(***************************************************************************)
(* For any number of iterations and runs: the executor honours the data    *)
(* dependency, drains both streams before it returns and reports the right *)
(* failure.  For any number of ranks: the ring all-reduce sums every       *)
(* contribution once, and no queue holds more than one chunk per rank.     *)
(***************************************************************************)
EXTENDS OverlapRing, SequenceTheorems, TLAPS

-----------------------------------------------------------------------------
(* The executor: streams, promises and draining *)

OverlapTypes ==
    /\ cs \in Nat /\ cb \in Nat /\ cd \in Nat /\ cf \in Nat
    /\ ms \in Nat /\ mb \in Nat /\ md \in Nat /\ mf \in Nat
    /\ cw \in {"idle", "call", "rethrow", "end"}
    /\ mw \in {"idle", "get", "call", "rethrow", "end"}
    /\ pc \in {"idle", "compute", "comm", "waitCompute", "waitComm", "return"}
    /\ i \in Nat /\ cbase \in Nat /\ mbase \in Nat
    /\ promise \in [Iterations -> {"none", "pending", "value", "exception"}]

\* A worker is busy exactly while one task has begun and not finished; a run
\* submits a compute task for every comm task; both streams are drained in turn.
StreamsInv ==
    /\ cbase <= cd /\ cd <= cs /\ cb = (IF cw = "idle" THEN cd ELSE cd + 1) /\ cb <= cs
    /\ mbase <= md /\ md <= ms /\ mb = (IF mw = "idle" THEN md ELSE md + 1) /\ mb <= ms
    /\ ms - mbase <= cs - cbase /\ cs - cbase <= Iters
    /\ pc = "compute" => cs - cbase = i - 1 /\ ms - mbase = i - 1
    /\ pc = "comm" => cs - cbase = i /\ ms - mbase = i - 1
    /\ pc \in {"waitComm", "return", "idle"} => cd = cs
    /\ pc \in {"return", "idle"} => md = ms

\* The future of an iteration is set while its compute task runs.
PromiseInv ==
    \A n \in Iterations :
        /\ promise[n] = "none" <=> n > cs - cbase
        /\ promise[n] = "pending" <=> /\ n <= cs - cbase
                                      /\ n > cb - cbase \/ (n = cb - cbase /\ cw = "call")

OverlapInv == OverlapTypes /\ StreamsInv /\ PromiseInv /\ CommAfterCompute

\* One step of the executor, whatever the ring does.
OverlapStep ==
    \/ Start \/ CallerStep \/ ComputeStep
    \/ CommBegin \/ CommGet \/ CommThrows \/ CommReturns \/ CommCatch \/ CommFinish

LEMMA OverlapSteps == [ORNext]_allVars => [OverlapStep]_vars
  BY DEF ORNext, allVars, OverlapStep, CommStep, Enter, CallbackEnds, GetThrows,
         CallbackThrows, ThreadStep

LEMMA OverlapInitInv == Init => OverlapInv
  BY OverlapAssumption DEF Init, OverlapInv, OverlapTypes, StreamsInv, PromiseInv,
     CommAfterCompute, Iterations, Compute!StreamInit, Comm!StreamInit

LEMMA CallerInv ==
    ASSUME OverlapInv, Start \/ CallerStep
    PROVE  OverlapInv'
<1> USE OverlapAssumption DEF OverlapInv, comp, comm
<1>1. CASE Start
  <2>1. OverlapTypes' /\ StreamsInv'
    BY <1>1 DEF Start, OverlapTypes, StreamsInv
  <2>2. PromiseInv' /\ CommAfterCompute'
    BY <1>1 DEF Start, OverlapTypes, StreamsInv, PromiseInv, CommAfterCompute, Iterations
  <2> QED
    BY <2>1, <2>2
<1>2. CASE SubmitCompute
  <2>1. /\ i \in Iterations /\ i = cs - cbase + 1 /\ cs' = cs + 1
        /\ UNCHANGED <<cb, cd, cf, cw, ms, mb, md, mf, mw, i, cbase, mbase>>
        /\ promise' = [promise EXCEPT ![i] = "pending"] /\ pc' = "comm" /\ pc = "compute"
    BY <1>2 DEF SubmitCompute, Compute!StreamSubmit, OverlapTypes, StreamsInv, Iterations
  <2>2. OverlapTypes'
    BY <2>1 DEF OverlapTypes
  <2>3. StreamsInv'
    BY <2>1 DEF OverlapTypes, StreamsInv, Iterations
  <2>4. PromiseInv'
    BY <2>1 DEF OverlapTypes, StreamsInv, PromiseInv, Iterations
  <2>5. CommAfterCompute'
    BY <2>1 DEF OverlapTypes, PromiseInv, CommAfterCompute, CommIter, Iterations
  <2> QED
    BY <2>2, <2>3, <2>4, <2>5
<1>3. CASE SubmitComm
  <2>1. OverlapTypes' /\ StreamsInv'
    BY <1>3 DEF SubmitComm, Comm!StreamSubmit, OverlapTypes, StreamsInv
  <2>2. PromiseInv' /\ CommAfterCompute'
    BY <1>3 DEF SubmitComm, Comm!StreamSubmit, PromiseInv, CommAfterCompute, CommIter
  <2> QED
    BY <2>1, <2>2
<1>4. CASE SubmitFails \/ LoopEnds
  <2>1. OverlapTypes' /\ StreamsInv'
    BY <1>4 DEF SubmitFails, LoopEnds, OverlapTypes, StreamsInv
  <2>2. PromiseInv' /\ CommAfterCompute'
    BY <1>4 DEF SubmitFails, LoopEnds, PromiseInv, CommAfterCompute, CommIter
  <2> QED
    BY <2>1, <2>2
<1>5. CASE WaitCompute \/ WaitComm \/ Return
  <2>1. OverlapTypes' /\ StreamsInv'
    BY <1>5 DEF WaitCompute, WaitComm, Return, Compute!StreamWait, Comm!StreamWait,
                OverlapTypes, StreamsInv
  <2>2. PromiseInv' /\ CommAfterCompute'
    BY <1>5 DEF WaitCompute, WaitComm, Return, Compute!StreamWait, Comm!StreamWait,
                PromiseInv, CommAfterCompute, CommIter
  <2> QED
    BY <2>1, <2>2
<1> QED
  BY <1>1, <1>2, <1>3, <1>4, <1>5 DEF CallerStep

LEMMA ComputeInv ==
    ASSUME OverlapInv, ComputeStep
    PROVE  OverlapInv'
<1> USE OverlapAssumption DEF OverlapInv, comp, comm, caller
<1>1. CASE ComputeBegin
  <2>1. OverlapTypes' /\ StreamsInv'
    BY <1>1 DEF ComputeBegin, Compute!StreamBegin, OverlapTypes, StreamsInv
  <2>2. PromiseInv' /\ CommAfterCompute'
    BY <1>1 DEF ComputeBegin, Compute!StreamBegin, OverlapTypes, StreamsInv, PromiseInv,
                CommAfterCompute, CommIter, Iterations
  <2> QED
    BY <2>1, <2>2
<1>2. CASE ComputeReturns \/ ComputeThrows
  <2>1. PICK v \in {"value", "exception"} :
          /\ promise' = [promise EXCEPT ![ComputeIter] = v]
          /\ cw = "call" /\ cw' \in {"end", "rethrow"}
          /\ UNCHANGED <<cs, cb, cd, cf, ms, mb, md, mf, mw, pc, i, cbase, mbase>>
    BY <1>2 DEF ComputeReturns, ComputeThrows
  <2>2. ComputeIter \in Iterations /\ ComputeIter = cb - cbase /\ promise[ComputeIter] = "pending"
    BY <2>1 DEF ComputeIter, OverlapTypes, StreamsInv, PromiseInv, Iterations
  <2>3. OverlapTypes' /\ StreamsInv'
    BY <2>1, <2>2 DEF OverlapTypes, StreamsInv
  <2>4. PromiseInv'
    BY <2>1, <2>2 DEF OverlapTypes, StreamsInv, PromiseInv, Iterations
  <2>5. CommAfterCompute'
    BY <2>1, <2>2 DEF OverlapTypes, CommAfterCompute, CommIter
  <2> QED
    BY <2>3, <2>4, <2>5
<1>3. CASE ComputeCatch
  <2>1. OverlapTypes' /\ StreamsInv'
    BY <1>3 DEF ComputeCatch, Compute!StreamThrow, OverlapTypes, StreamsInv
  <2>2. PromiseInv' /\ CommAfterCompute'
    BY <1>3 DEF ComputeCatch, Compute!StreamThrow, PromiseInv, CommAfterCompute, CommIter
  <2> QED
    BY <2>1, <2>2
<1>4. CASE ComputeFinish
  <2>1. OverlapTypes' /\ StreamsInv'
    BY <1>4 DEF ComputeFinish, Compute!StreamFinish, OverlapTypes, StreamsInv
  <2>2. PromiseInv' /\ CommAfterCompute'
    BY <1>4 DEF ComputeFinish, Compute!StreamFinish, PromiseInv, CommAfterCompute, CommIter
  <2> QED
    BY <2>1, <2>2
<1> QED
  BY <1>1, <1>2, <1>3, <1>4 DEF ComputeStep

LEMMA CommInv ==
    ASSUME OverlapInv,
           CommBegin \/ CommGet \/ CommThrows \/ CommReturns \/ CommCatch \/ CommFinish
    PROVE  OverlapInv'
<1> USE OverlapAssumption DEF OverlapInv, comp, comm, caller
<1>1. OverlapTypes' /\ StreamsInv'
  BY DEF CommBegin, CommGet, CommThrows, CommReturns, CommCatch, CommFinish, Comm!StreamBegin,
         Comm!StreamThrow, Comm!StreamFinish, OverlapTypes, StreamsInv
<1>2. PromiseInv'
  BY DEF CommBegin, CommGet, CommThrows, CommReturns, CommCatch, CommFinish, PromiseInv
<1>3. CommAfterCompute'
  <2> SUFFICES ASSUME mw' = "call"
               PROVE  CommIter' \in Iterations /\ promise'[CommIter'] = "value"
    BY DEF CommAfterCompute
  <2>1. CommGet
    BY DEF CommBegin, CommThrows, CommReturns, CommCatch, CommFinish
  <2>2. CommIter' = CommIter /\ promise' = promise /\ promise[CommIter] = "value" /\ mw = "get"
    BY <2>1 DEF CommGet, CommIter
  <2>3. CommIter \in Iterations
    BY <2>2 DEF CommIter, OverlapTypes, StreamsInv, Iterations
  <2> QED
    BY <2>2, <2>3
<1> QED
  BY <1>1, <1>2, <1>3

LEMMA OverlapStepInv == OverlapInv /\ [ORNext]_allVars => OverlapInv'
<1> SUFFICES ASSUME OverlapInv, [OverlapStep]_vars PROVE OverlapInv'
  BY OverlapSteps
<1>1. CASE UNCHANGED vars
  BY <1>1 DEF vars, comp, comm, caller, OverlapInv, OverlapTypes, StreamsInv, PromiseInv,
              CommAfterCompute, CommIter
<1> QED
  BY <1>1, CallerInv, ComputeInv, CommInv DEF OverlapStep

\* The streams' counters, the futures and the caller stay in step in every
\* reachable state of OverlapExecutor::run.
THEOREM OverlapInvariance == ORSpec => []OverlapInv
<1>1. ORInit => OverlapInv
  BY OverlapInitInv DEF ORInit
<1> QED
  BY <1>1, OverlapStepInv, PTL DEF ORSpec

\* The comm callback of an iteration is invoked only with a value that the
\* compute callback of that iteration has produced.
THEOREM CommNeedsCompute == ORSpec => []CommAfterCompute
<1>1. OverlapInv => CommAfterCompute
  BY DEF OverlapInv
<1> QED
  BY <1>1, OverlapInvariance, PTL

\* When run returns or throws, no task of it is queued or running.
THEOREM RunDrains == ORSpec => []DrainedOnReturn
<1>1. OverlapInv => DrainedOnReturn
  BY DEF OverlapInv, StreamsInv, DrainedOnReturn
<1> QED
  BY <1>1, OverlapInvariance, PTL

-----------------------------------------------------------------------------
(* The executor: which failure a run reports *)

Kinds == {"none", "submit", "compute", "comm"}

FailTypes == failure \in Kinds \X Int /\ bad \subseteq Kinds \X Int

\* Until the wait takes it, a stream's failed field is its first failed task of
\* this run; while it is 0, the only failure is the one being rethrown.
ComputeRecorded ==
    /\ cw = "rethrow" => <<"compute", ComputeIter>> \in bad
    /\ cf = 0 => \A x \in bad : x[1] = "compute" => cw = "rethrow" /\ x[2] = ComputeIter
    /\ cf # 0 => /\ cf <= cb /\ <<"compute", cf - cbase>> \in bad
                 /\ \A x \in bad : x[1] = "compute" => cf - cbase <= x[2]

CommRecorded ==
    /\ mw = "rethrow" => <<"comm", CommIter>> \in bad
    /\ mf = 0 => \A x \in bad : x[1] = "comm" => mw = "rethrow" /\ x[2] = CommIter
    /\ mf # 0 => /\ mf <= mb /\ <<"comm", mf - mbase>> \in bad
                 /\ \A x \in bad : x[1] = "comm" => mf - mbase <= x[2]

Reported ==
    /\ failure \in bad
    /\ \A x \in bad : \/ failure[1] = "submit"
                      \/ failure[1] = "compute" /\ x[1] # "submit"
                      \/ x[1] = "comm"
    /\ \A x \in bad : x[1] = failure[1] => failure[2] <= x[2]

\* What the local variable failure stands for at each point of run.
FailInv ==
    /\ FailTypes
    /\ pc \in {"compute", "comm", "waitCompute"} => ComputeRecorded
    /\ pc \in {"compute", "comm", "waitCompute", "waitComm"} => CommRecorded
    /\ pc \in {"waitComm", "return", "idle"} => cf = 0
    /\ pc \in {"return", "idle"} => mf = 0
    /\ pc \in {"compute", "comm"} => failure = None /\ \A x \in bad : x[1] # "submit"
    /\ pc = "waitCompute" => \/ failure = None /\ \A x \in bad : x[1] # "submit"
                             \/ /\ failure \in bad /\ failure[1] = "submit"
                                /\ \A x \in bad : x[1] = "submit" => x = failure
    /\ pc = "waitComm" => \/ failure = None /\ \A x \in bad : x[1] = "comm"
                          \/ Reported /\ failure[1] # "comm"
    /\ \A x \in bad : x[1] # "none"
    /\ OwnFailure

LEMMA FailInitInv == Init => FailInv
  BY OverlapAssumption DEF Init, FailInv, FailTypes, Kinds, None, OwnFailure,
     Compute!StreamInit, Comm!StreamInit

LEMMA CallerFail ==
    ASSUME OverlapInv, FailInv, Start \/ CallerStep
    PROVE  FailInv'
<1> USE DEF comp, comm
<1>1. CASE Start
  BY <1>1 DEF Start, OverlapInv, OverlapTypes, StreamsInv, FailInv, FailTypes, Kinds, None,
     OwnFailure, ComputeRecorded, CommRecorded, ComputeIter, CommIter
<1>2. CASE SubmitCompute \/ SubmitComm \/ LoopEnds
  BY <1>2 DEF SubmitCompute, SubmitComm, LoopEnds, Compute!StreamSubmit, Comm!StreamSubmit,
     FailInv, FailTypes, OwnFailure, ComputeRecorded, CommRecorded, ComputeIter, CommIter
<1>3. CASE SubmitFails
  <2>1. FailTypes' /\ (\A x \in bad' : x[1] # "none") /\ OwnFailure'
    BY <1>3 DEF SubmitFails, FailInv, FailTypes, Kinds, OwnFailure, OverlapInv, OverlapTypes
  <2>2. ComputeRecorded' /\ CommRecorded'
    BY <1>3 DEF SubmitFails, FailInv, ComputeRecorded, CommRecorded, ComputeIter, CommIter
  <2>3. /\ failure' \in bad' /\ failure'[1] = "submit"
        /\ \A x \in bad' : x[1] = "submit" => x = failure'
    BY <1>3 DEF SubmitFails, FailInv
  <2>4. pc' = "waitCompute"
    BY <1>3 DEF SubmitFails
  <2> QED
    BY <2>1, <2>2, <2>3, <2>4 DEF FailInv
<1>4. CASE WaitCompute
  <2>1. /\ pc = "waitCompute" /\ pc' = "waitComm" /\ cf' = 0 /\ cw = "idle"
        /\ UNCHANGED <<bad, mf, mb, mw, mbase>>
        /\ failure' = IF failure = None /\ cf # 0 THEN <<"compute", cf - cbase>> ELSE failure
    BY <1>4 DEF WaitCompute, Compute!StreamWait, OverlapInv, OverlapTypes, StreamsInv
  <2>2. FailTypes' /\ CommRecorded' /\ (\A x \in bad' : x[1] # "none") /\ OwnFailure'
    BY <2>1 DEF FailInv, FailTypes, Kinds, OwnFailure, OverlapInv, OverlapTypes, CommRecorded,
                CommIter
  <2>3. \/ failure' = None /\ \A x \in bad' : x[1] = "comm"
        \/ Reported' /\ failure'[1] # "comm"
    <3>1. \A x \in bad : x[1] \in {"submit", "compute", "comm"} /\ x[2] \in Int
      BY DEF FailInv, FailTypes, Kinds
    <3>2. CASE failure = None /\ cf # 0
      BY <2>1, <3>1, <3>2 DEF FailInv, ComputeRecorded, Reported, None
    <3>3. CASE failure = None /\ cf = 0
      BY <2>1, <3>1, <3>3 DEF FailInv, ComputeRecorded, None
    <3>4. CASE failure # None
      BY <2>1, <3>1, <3>4 DEF FailInv, Reported
    <3> QED
      BY <3>2, <3>3, <3>4
  <2> QED
    BY <2>1, <2>2, <2>3 DEF FailInv
<1>5. CASE WaitComm
  <2>1. /\ pc = "waitComm" /\ pc' = "return" /\ mf' = 0 /\ mw = "idle" /\ cf' = 0
        /\ UNCHANGED <<bad, mbase>>
        /\ failure' = IF failure = None /\ mf # 0 THEN <<"comm", mf - mbase>> ELSE failure
    BY <1>5 DEF WaitComm, Comm!StreamWait, OverlapInv, OverlapTypes, StreamsInv, FailInv
  <2>2. FailTypes' /\ (\A x \in bad' : x[1] # "none")
    BY <2>1 DEF FailInv, FailTypes, Kinds, OverlapInv, OverlapTypes
  <2>3. OwnFailure'
    <3>1. \A x \in bad : x[1] \in {"submit", "compute", "comm"} /\ x[2] \in Int
      BY DEF FailInv, FailTypes, Kinds
    <3>2. CASE failure = None /\ mf # 0
      BY <2>1, <3>1, <3>2 DEF FailInv, CommRecorded, Reported, None, OwnFailure
    <3>3. CASE failure = None /\ mf = 0
      BY <2>1, <3>1, <3>3 DEF FailInv, CommRecorded, Reported, None, OwnFailure
    <3>4. CASE failure # None
      BY <2>1, <3>1, <3>4 DEF FailInv, Reported, OwnFailure
    <3> QED
      BY <3>2, <3>3, <3>4
  <2> QED
    BY <2>1, <2>2, <2>3 DEF FailInv
<1>6. CASE Return
  BY <1>6 DEF Return, FailInv, FailTypes, OwnFailure
<1> QED
  BY <1>1, <1>2, <1>3, <1>4, <1>5, <1>6 DEF CallerStep

LEMMA ComputeFail ==
    ASSUME OverlapInv, FailInv, ComputeStep
    PROVE  FailInv'
<1> USE DEF comm, caller
<1>1. pc' = pc /\ failure' = failure /\ mf' = mf /\ mw' = mw /\ mb' = mb /\ mbase' = mbase /\ cbase' = cbase
  BY DEF ComputeStep, ComputeBegin, ComputeReturns, ComputeThrows, ComputeCatch, ComputeFinish
<1>2. pc \in {"compute", "comm", "waitCompute"}
  BY DEF OverlapInv, OverlapTypes, StreamsInv, ComputeStep, ComputeBegin, ComputeReturns,
         ComputeThrows, ComputeCatch, ComputeFinish, Compute!StreamBegin
<1>3. ComputeRecorded'
  BY <1>1, <1>2 DEF FailInv, FailTypes, ComputeRecorded, ComputeIter, OverlapInv, OverlapTypes,
     StreamsInv, ComputeStep, ComputeBegin, ComputeReturns, ComputeThrows, ComputeCatch,
     ComputeFinish, Compute!StreamBegin, Compute!StreamThrow, Compute!StreamFinish
<1>4. bad' = bad \/ bad' = bad \union {<<"compute", ComputeIter>>}
  BY DEF ComputeStep, ComputeBegin, ComputeReturns, ComputeThrows, ComputeCatch, ComputeFinish
<1>5. FailTypes' /\ \A x \in bad' : x[1] # "none"
  BY <1>1, <1>4 DEF FailInv, FailTypes, Kinds, ComputeIter, OverlapInv, OverlapTypes
<1>6. CommRecorded'
  BY <1>1, <1>2, <1>4 DEF FailInv, CommRecorded, CommIter
<1> QED
  BY <1>1, <1>2, <1>3, <1>4, <1>5, <1>6 DEF FailInv, OwnFailure

LEMMA CommFail ==
    ASSUME OverlapInv, FailInv,
           CommBegin \/ CommGet \/ CommThrows \/ CommReturns \/ CommCatch \/ CommFinish
    PROVE  FailInv'
<1> USE DEF comp, caller
<1>1. pc' = pc /\ failure' = failure /\ cf' = cf /\ cw' = cw /\ cb' = cb /\ mbase' = mbase /\ cbase' = cbase
  BY DEF CommBegin, CommGet, CommThrows, CommReturns, CommCatch, CommFinish
<1>2. pc \in {"compute", "comm", "waitCompute", "waitComm"}
  BY DEF OverlapInv, OverlapTypes, StreamsInv, CommBegin, CommGet, CommThrows, CommReturns,
         CommCatch, CommFinish, Comm!StreamBegin
<1>3. CommRecorded'
  BY <1>1, <1>2 DEF FailInv, FailTypes, CommRecorded, CommIter, OverlapInv, OverlapTypes,
     StreamsInv, CommBegin, CommGet, CommThrows, CommReturns, CommCatch, CommFinish,
     Comm!StreamBegin, Comm!StreamThrow, Comm!StreamFinish
<1>4. bad' = bad \/ bad' = bad \union {<<"comm", CommIter>>}
  BY DEF CommBegin, CommGet, CommThrows, CommReturns, CommCatch, CommFinish
<1>5. FailTypes' /\ \A x \in bad' : x[1] # "none"
  BY <1>1, <1>4 DEF FailInv, FailTypes, Kinds, CommIter, OverlapInv, OverlapTypes
<1>6. pc # "waitComm" => ComputeRecorded'
  BY <1>1, <1>2, <1>4 DEF FailInv, ComputeRecorded, ComputeIter
<1>7. pc = "waitComm" => \/ failure' = None /\ \A x \in bad' : x[1] = "comm"
                         \/ Reported' /\ failure'[1] # "comm"
  BY <1>1, <1>4 DEF FailInv, Reported
<1> QED
  BY <1>1, <1>2, <1>3, <1>4, <1>5, <1>6, <1>7 DEF FailInv, OwnFailure

\* The failure that a run reports is one of its own: a submission failure before
\* the first compute failure, before the first comm failure; and a run in which
\* anything failed never returns normally.
THEOREM RunReports == ORSpec => []OwnFailure
<1>1. ORInit => FailInv
  BY FailInitInv DEF ORInit
<1>2. OverlapInv /\ FailInv /\ [ORNext]_allVars => FailInv'
  <2> SUFFICES ASSUME OverlapInv, FailInv, [OverlapStep]_vars PROVE FailInv'
    BY OverlapSteps
  <2>1. CASE UNCHANGED vars
    BY <2>1 DEF vars, comp, comm, caller, FailInv, FailTypes, ComputeRecorded, CommRecorded,
                ComputeIter, CommIter, Reported, OwnFailure
  <2> QED
    BY <2>1, CallerFail, ComputeFail, CommFail DEF OverlapStep
<1>3. FailInv => OwnFailure
  BY DEF FailInv
<1> QED
  BY <1>1, <1>2, <1>3, OverlapInvariance, PTL DEF ORSpec

-----------------------------------------------------------------------------
(* The ring: distances around it *)

LEMMA ModWorld ==
    ASSUME NEW x \in Int, -World <= x, x < 2 * World
    PROVE  x % World = IF x < 0 THEN x + World ELSE IF x < World THEN x ELSE x - World
<1> DEFINE W == World
<1>1. W \in Nat \ {0}
  BY WorldAssumption
<1> HIDE DEF W
<1>2. -W <= x /\ x < 2 * W
  BY DEF W
<1>3. x % W = IF x < 0 THEN x + W ELSE IF x < W THEN x ELSE x - W
  <2>1. CASE x < 0
    <3>1. x = W * (-1) + (x + W) /\ 0 <= x + W /\ x + W < W
      BY <1>1, <1>2, <2>1
    <3> QED
      BY <1>1, <2>1, <3>1
  <2>2. CASE 0 <= x /\ x < W
    BY <1>1, <2>2
  <2>3. CASE W <= x
    <3>1. x = W * 1 + (x - W) /\ 0 <= x - W /\ x - W < W
      BY <1>1, <1>2, <2>3
    <3> QED
      BY <1>1, <2>3, <3>1
  <2> QED
    BY <1>1, <2>1, <2>2, <2>3
<1> QED
  BY <1>3 DEF W

\* Hops from rank a to rank b.
Dist(a, b) == (b - a) % World

LEMMA DistIs ==
    ASSUME NEW a \in Ranks, NEW b \in Ranks
    PROVE  Dist(a, b) = IF a <= b THEN b - a ELSE b - a + World
  BY WorldAssumption, ModWorld DEF Dist, Ranks

LEMMA PrevIs ==
    ASSUME NEW r \in Ranks
    PROVE  /\ PrevOf(r) = IF r = 0 THEN World - 1 ELSE r - 1
           /\ PrevOf(r) \in Ranks
<1>1. r - 1 + World \in Int /\ -World <= r - 1 + World /\ r - 1 + World < 2 * World
  BY WorldAssumption DEF Ranks
<1> QED
  BY <1>1, ModWorld, WorldAssumption DEF PrevOf, Ranks

LEMMA DistFacts ==
    ASSUME NEW a \in Ranks, NEW b \in Ranks
    PROVE  /\ Dist(a, b) \in 0 .. World - 1
           /\ Dist(a, b) = 0 <=> a = b
           /\ Dist(a, PrevOf(b)) = IF a = b THEN World - 1 ELSE Dist(a, b) - 1
           /\ \A c \in Ranks : Dist(a, b) = Dist(c, b) => a = c
           /\ PrevOf(a) = PrevOf(b) => a = b
<1>1. a \in Int /\ b \in Int /\ World \in Int /\ 0 <= a /\ a < World /\ 0 <= b /\ b < World
  BY WorldAssumption DEF Ranks
<1>2. Dist(a, b) = IF a <= b THEN b - a ELSE b - a + World
  BY DistIs
<1>3. /\ PrevOf(b) = (IF b = 0 THEN World - 1 ELSE b - 1) /\ PrevOf(b) \in Ranks
      /\ PrevOf(a) = (IF a = 0 THEN World - 1 ELSE a - 1)
  BY PrevIs
<1>4. Dist(a, PrevOf(b)) = IF a <= PrevOf(b) THEN PrevOf(b) - a ELSE PrevOf(b) - a + World
  BY <1>3, DistIs
<1>5. \A c \in Ranks : Dist(a, b) = Dist(c, b) => a = c
  <2> TAKE c \in Ranks
  <2>1. c \in Int /\ 0 <= c /\ c < World
    BY WorldAssumption DEF Ranks
  <2>2. Dist(c, b) = IF c <= b THEN b - c ELSE b - c + World
    BY DistIs
  <2> QED
    BY <1>1, <1>2, <2>1, <2>2
<1> QED
  BY <1>1, <1>2, <1>3, <1>4, <1>5

LEMMA SuccFacts ==
    ASSUME NEW r \in Ranks
    PROVE  /\ (r + 1) % World \in Ranks
           /\ PrevOf((r + 1) % World) = r
           /\ Dist((r + 1) % World, r) = World - 1
<1> DEFINE n == (r + 1) % World
<1>1. n = IF r = World - 1 THEN 0 ELSE r + 1
  BY WorldAssumption, ModWorld DEF Ranks
<1>2. n \in Ranks
  BY <1>1, WorldAssumption DEF Ranks
<1> HIDE DEF n
<1>3. PrevOf(n) = r
  BY <1>1, <1>2, PrevIs, WorldAssumption DEF Ranks
<1>4. Dist(n, r) = World - 1
  BY <1>1, <1>2, DistIs, WorldAssumption DEF Ranks
<1> QED
  BY <1>2, <1>3, <1>4 DEF n

\* The rank k hops behind r, as the two loops compute it.
LEMMA Behind ==
    ASSUME NEW r \in Ranks, NEW k \in 0 .. World - 1
    PROVE  /\ ((((r - k) % World) + World) % World) \in Ranks
           /\ Dist((((r - k) % World) + World) % World, r) = k
<1>1. (r - k) % World = IF r - k < 0 THEN r - k + World ELSE r - k
  BY WorldAssumption, ModWorld DEF Ranks
<1>2. (((r - k) % World) + World) % World = IF r - k < 0 THEN r - k + World ELSE r - k
  <2>1. (((r - k) % World) + World) - World = (r - k) % World
    BY <1>1, WorldAssumption DEF Ranks
  <2> QED
    BY <1>1, <2>1, WorldAssumption, ModWorld DEF Ranks
<1> QED
  BY <1>2, DistIs, WorldAssumption DEF Ranks

-----------------------------------------------------------------------------
(* The ring: what every rank and every queue holds after any number of steps *)

\* Steps completed by a rank, and chunks it has sent.
Steps(r) == IF loop[r] = "scatter" THEN t[r]
            ELSE IF loop[r] = "gather" THEN World - 1 + t[r] ELSE 2 * (World - 1)

Sent(r) == Steps(r) + IF sent[r] THEN 1 ELSE 0

\* One contribution of r and of each of the k ranks behind it.
Last(r, k) == [q \in Ranks |-> IF Dist(q, r) <= k THEN 1 ELSE 0]

\* How many ranks behind it a rank has summed, after s steps, into the chunk
\* that is d hops behind it.
Have(s, d) == IF d + World - 1 < s THEN World - 1 ELSE IF d <= s THEN d ELSE 0

RingTypes ==
    /\ local \in [Ranks -> [Ranks -> [Ranks -> Nat]]]
    /\ edge \in [Ranks -> Seq([Ranks -> Nat])]
    /\ loop \in [Ranks -> {"scatter", "gather", "done"}]
    /\ t \in [Ranks -> Nat] /\ sent \in [Ranks -> BOOLEAN]
    /\ \A r \in Ranks : /\ loop[r] # "done" => t[r] <= World - 2
                        /\ loop[r] = "done" => ~ sent[r]

\* A queue holds what its sender has sent and its receiver has not consumed yet.
EdgeInv ==
    \A r \in Ranks :
        /\ Len(edge[PrevOf(r)]) = Sent(PrevOf(r)) - Steps(r)
        /\ \A n \in 1 .. Len(edge[PrevOf(r)]) :
              edge[PrevOf(r)][n] = Last(PrevOf(r), Steps(r) + n - 1)

\* A rank is ahead of another by at most the hops from that one to it.
SkewInv == \A p, q \in Ranks : Steps(p) <= Steps(q) + Dist(q, p)

LocalInv == \A r, c \in Ranks : local[r][c] = Last(r, Have(Steps(r), Dist(c, r)))

RingInv == RingTypes /\ EdgeInv /\ SkewInv /\ LocalInv

RingStep == RingCall \/ \E r \in Ranks : RankStep(r)

LEMMA RingSteps == [ORNext]_allVars => [RingStep]_ringVars
  BY DEF ORNext, allVars, RingStep, CommStep, Enter, CallbackEnds, GetThrows,
         CallbackThrows, ThreadStep

LEMMA StepsType ==
    ASSUME RingTypes, NEW r \in Ranks
    PROVE  Steps(r) \in Nat /\ Sent(r) \in Nat /\ Sent(r) <= Steps(r) + 1
  BY WorldAssumption DEF RingTypes, Steps, Sent

LEMMA LastFull ==
    ASSUME NEW r \in Ranks, NEW k \in Int, World - 1 <= k
    PROVE  Last(r, k) = Complete
<1>1. \A q \in Ranks : Dist(q, r) <= k
  BY DistFacts, WorldAssumption
<1> QED
  BY <1>1 DEF Last, Complete

\* The fresh buffers and channels.
LEMMA RingFresh == RingInit => RingInv
<1> SUFFICES ASSUME RingInit PROVE RingInv
  OBVIOUS
<1> USE DEF RingInit
<1>1. RingTypes
  <2>1. \A r \in Ranks : edge[r] \in Seq([Ranks -> Nat])
    OBVIOUS
  <2>2. local \in [Ranks -> [Ranks -> [Ranks -> Nat]]]
    BY DEF Buffers, Own
  <2>3. sent \in [Ranks -> BOOLEAN] /\ t \in [Ranks -> Nat]
    BY DEF SendsFirst
  <2>4. loop \in [Ranks -> {"scatter", "gather", "done"}]
    BY DEF FirstLoop
  <2>5. \A r \in Ranks : ~ sent[r] /\ (loop[r] # "done" => t[r] <= World - 2)
    BY WorldAssumption DEF FirstLoop, SendsFirst
  <2> QED
    BY <2>1, <2>2, <2>3, <2>4, <2>5 DEF RingTypes
<1>2. \A r \in Ranks : Steps(r) = 0 /\ Sent(r) = 0
  BY WorldAssumption DEF Steps, Sent, FirstLoop, SendsFirst
<1>3. EdgeInv
  BY <1>2, PrevIs DEF EdgeInv
<1>4. SkewInv
  BY <1>2, DistFacts, WorldAssumption DEF SkewInv
<1>5. LocalInv
  <2> SUFFICES ASSUME NEW r \in Ranks, NEW c \in Ranks
               PROVE  local[r][c] = Last(r, Have(Steps(r), Dist(c, r)))
    BY DEF LocalInv
  <2>1. Have(Steps(r), Dist(c, r)) = 0
    BY <1>2, DistFacts, WorldAssumption DEF Have
  <2>2. Own(r) = Last(r, 0)
    <3>1. \A q \in Ranks : Dist(q, r) <= 0 <=> q = r
      BY DistFacts, WorldAssumption
    <3> QED
      BY <3>1 DEF Own, Last
  <2> QED
    BY <2>1, <2>2 DEF Buffers
<1> QED
  BY <1>1, <1>3, <1>4, <1>5 DEF RingInv

LEMMA SendInv ==
    ASSUME RingInv, NEW r \in Ranks, Send(r)
    PROVE  RingInv'
<1> DEFINE chunk == local[r][SendChunk(r)]
<1>1. /\ loop[r] \in {"scatter", "gather"} /\ ~ sent[r] /\ t[r] \in 0 .. World - 2
      /\ edge' = [edge EXCEPT ![r] = Append(@, chunk)]
      /\ sent' = [sent EXCEPT ![r] = TRUE]
      /\ UNCHANGED <<local, loop, t>>
  BY WorldAssumption DEF RingInv, RingTypes, Send, Push
<1>2. /\ \A q \in Ranks : Steps(q)' = Steps(q) /\ Steps(q) \in Nat
      /\ Sent(r)' = Steps(r) + 1 /\ Sent(r) = Steps(r)
      /\ \A q \in Ranks \ {r} : Sent(q)' = Sent(q)
  <2>1. \A q \in Ranks : Steps(q)' = Steps(q) /\ Steps(q) \in Nat
    BY <1>1, StepsType DEF RingInv, RingTypes, Steps
  <2>2. sent \in [Ranks -> BOOLEAN] /\ sent'[r] = TRUE /\ sent[r] = FALSE
        /\ \A q \in Ranks \ {r} : sent'[q] = sent[q]
    BY <1>1 DEF RingInv, RingTypes
  <2> QED
    BY <2>1, <2>2 DEF Sent
<1>3. SendChunk(r) \in Ranks /\ Last(r, Have(Steps(r), Dist(SendChunk(r), r))) = Last(r, Steps(r))
  <2>1. CASE loop[r] = "scatter"
    <3>1. SendChunk(r) \in Ranks /\ Dist(SendChunk(r), r) = t[r]
      BY <1>1, <2>1, Behind, WorldAssumption DEF SendChunk
    <3>2. Steps(r) = t[r] /\ Have(Steps(r), t[r]) = t[r]
      BY <1>1, <2>1, WorldAssumption DEF Steps, Have
    <3> QED
      BY <3>1, <3>2
  <2>2. CASE loop[r] = "gather" /\ t[r] = 0
    <3>1. SendChunk(r) = (((r + 1) % World) + World) % World
      BY <1>1, <2>2, WorldAssumption DEF SendChunk, Ranks
    <3>2. SendChunk(r) = (r + 1) % World
      <4>1. (r + 1) % World \in 0 .. World - 1
        BY SuccFacts DEF Ranks
      <4> QED
        BY <3>1, <4>1, ModWorld, WorldAssumption
    <3>3. SendChunk(r) \in Ranks /\ Dist(SendChunk(r), r) = World - 1
      BY <3>2, SuccFacts
    <3>4. Steps(r) = World - 1 /\ Have(World - 1, World - 1) = World - 1
      BY <1>1, <2>2, WorldAssumption DEF Steps, Have
    <3> QED
      BY <3>3, <3>4
  <2>3. CASE loop[r] = "gather" /\ t[r] # 0
    <3>1. t[r] - 1 \in 0 .. World - 1 /\ r - (t[r] - 1) = r - t[r] + 1
      BY <1>1, <2>3, WorldAssumption DEF Ranks
    <3>2. SendChunk(r) \in Ranks /\ Dist(SendChunk(r), r) = t[r] - 1
      BY <2>3, <3>1, Behind DEF SendChunk
    <3>3. Steps(r) = World - 1 + t[r] /\ Have(Steps(r), t[r] - 1) = World - 1
      BY <1>1, <2>3, WorldAssumption DEF Steps, Have
    <3>4. Last(r, World - 1) = Last(r, Steps(r))
      BY <1>1, <3>3, LastFull, WorldAssumption
    <3> QED
      BY <3>2, <3>3, <3>4
  <2> QED
    BY <1>1, <2>1, <2>2, <2>3
<1>4. chunk = Last(r, Steps(r)) /\ chunk \in [Ranks -> Nat]
  BY <1>3 DEF RingInv, LocalInv, RingTypes
<1> HIDE DEF chunk
<1>5. RingTypes'
  <2>1. Append(edge[r], chunk) \in Seq([Ranks -> Nat])
    BY <1>4 DEF RingInv, RingTypes
  <2> QED
    BY <1>1, <2>1 DEF RingInv, RingTypes
<1>6. EdgeInv'
  <2> SUFFICES ASSUME NEW q \in Ranks
               PROVE  /\ Len(edge'[PrevOf(q)]) = Sent(PrevOf(q))' - Steps(q)'
                      /\ \A n \in 1 .. Len(edge'[PrevOf(q)]) :
                            edge'[PrevOf(q)][n] = Last(PrevOf(q), Steps(q)' + n - 1)
    BY DEF EdgeInv, PrevOf, Last, Dist
  <2>1. PrevOf(q) \in Ranks
    BY PrevIs
  <2>2. CASE PrevOf(q) # r
    BY <1>1, <1>2, <2>1, <2>2 DEF RingInv, RingTypes, EdgeInv
  <2>3. CASE PrevOf(q) = r
    <3>1. edge[r] \in Seq([Ranks -> Nat]) /\ edge'[r] = Append(edge[r], chunk)
      BY <1>1 DEF RingInv, RingTypes
    <3>2. /\ Len(edge[r]) = Steps(r) - Steps(q)
          /\ \A n \in 1 .. Len(edge[r]) : edge[r][n] = Last(r, Steps(q) + n - 1)
      BY <1>2, <2>3 DEF RingInv, EdgeInv
    <3>3. Len(edge'[r]) = Len(edge[r]) + 1 /\ Len(edge[r]) \in Nat
      BY <3>1
    <3>4. ASSUME NEW n \in 1 .. Len(edge'[r])
          PROVE  edge'[r][n] = Last(r, Steps(q) + n - 1)
      <4>1. CASE n <= Len(edge[r])
        BY <3>1, <3>2, <3>3, <4>1
      <4>2. CASE n = Len(edge[r]) + 1
        <5>1. edge'[r][n] = chunk
          BY <3>1, <4>2
        <5>2. Steps(q) + n - 1 = Steps(r)
          BY <1>2, <3>2, <4>2
        <5> QED
          BY <1>4, <5>1, <5>2
      <4> QED
        BY <3>3, <4>1, <4>2
    <3> QED
      BY <1>2, <2>3, <3>2, <3>3, <3>4
  <2> QED
    BY <2>2, <2>3
<1>7. SkewInv'
  BY <1>2 DEF RingInv, SkewInv, Dist
<1>8. LocalInv'
  BY <1>1, <1>2 DEF RingInv, LocalInv, Have, Last, Dist
<1> QED
  BY <1>5, <1>6, <1>7, <1>8 DEF RingInv

LEMMA RecvInv ==
    ASSUME RingInv, NEW r \in Ranks, Recv(r)
    PROVE  RingInv'
<1> DEFINE p == PrevOf(r)
           c == RecvChunk(r)
           got == Head(edge[p])
           s == Steps(r)
<1>1. /\ loop[r] \in {"scatter", "gather"} /\ sent[r] /\ t[r] \in 0 .. World - 2
      /\ edge[p] # <<>> /\ edge' = [edge EXCEPT ![p] = Tail(@)]
      /\ local' = [local EXCEPT ![r][c] = Stored(r, got)]
      /\ sent' = [sent EXCEPT ![r] = FALSE]
      /\ t' = [t EXCEPT ![r] = IF LastStep(r) THEN 0 ELSE @ + 1]
      /\ loop' = [loop EXCEPT ![r] = IF ~ LastStep(r) THEN @
                                     ELSE IF @ = "scatter" THEN "gather" ELSE "done"]
  BY WorldAssumption DEF RingInv, RingTypes, Recv, Pop
<1>2. p \in Ranks /\ edge[p] \in Seq([Ranks -> Nat]) /\ World \in Nat /\ World >= 2
  BY <1>1, PrevIs, WorldAssumption DEF RingInv, RingTypes
<1> HIDE DEF p, c, got, s
<1>0. t[r] \in Nat /\ t[r] <= World - 2 /\ r \in Int
  BY <1>1, <1>2 DEF Ranks
<1>c. /\ sent'[r] = FALSE
      /\ t'[r] = IF t[r] = World - 2 THEN 0 ELSE t[r] + 1
      /\ loop'[r] = IF t[r] # World - 2 THEN loop[r]
                    ELSE IF loop[r] = "scatter" THEN "gather" ELSE "done"
      /\ \A q \in Ranks \ {r} : loop'[q] = loop[q] /\ t'[q] = t[q] /\ sent'[q] = sent[q]
  BY <1>1 DEF RingInv, RingTypes, LastStep
<1>3. /\ s \in Nat /\ Steps(r)' = s + 1 /\ Sent(r)' = Sent(r) /\ Sent(r) = s + 1
      /\ \A q \in Ranks \ {r} : Steps(q)' = Steps(q) /\ Sent(q)' = Sent(q)
      /\ \A q \in Ranks : Steps(q) \in Nat /\ Sent(q) \in Nat /\ Sent(q) <= Steps(q) + 1
  <2>1. s \in Nat /\ \A q \in Ranks : Steps(q) \in Nat /\ Sent(q) \in Nat /\ Sent(q) <= Steps(q) + 1
    BY StepsType DEF RingInv, s
  <2>2. Steps(r)' = s + 1 /\ ~ sent'[r]
    <3>1. CASE loop[r] = "scatter"
      BY <1>0, <1>2, <1>c, <3>1 DEF Steps, s
    <3>2. CASE loop[r] = "gather"
      <4>1. s = World - 1 + t[r]
        BY <3>2 DEF Steps, s
      <4>2. CASE t[r] = World - 2
        <5>1. loop'[r] = "done"
          BY <1>c, <3>2, <4>2
        <5>2. Steps(r)' = 2 * (World - 1)
          BY <5>1 DEF Steps
        <5> QED
          BY <1>2, <1>c, <4>1, <4>2, <5>2
      <4>3. CASE t[r] # World - 2
        <5>1. loop'[r] = "gather" /\ t'[r] = t[r] + 1
          BY <1>c, <3>2, <4>3
        <5>2. Steps(r)' = World - 1 + (t[r] + 1)
          BY <5>1 DEF Steps
        <5> QED
          BY <1>0, <1>2, <1>c, <4>1, <5>2
      <4> QED
        BY <4>2, <4>3
    <3> QED
      BY <1>1, <3>1, <3>2
  <2>3. \A q \in Ranks \ {r} : Steps(q)' = Steps(q) /\ Sent(q)' = Sent(q)
    BY <1>c DEF Steps, Sent
  <2> QED
    BY <1>1, <2>1, <2>2, <2>3 DEF Sent, s
\* The head of the queue is what the previous rank sent in this step.
<1>4. /\ Len(edge[p]) = Sent(p) - s /\ Len(edge[p]) \in Nat \ {0}
      /\ \A n \in 1 .. Len(edge[p]) : edge[p][n] = Last(p, s + n - 1)
      /\ got = Last(p, s) /\ got \in [Ranks -> Nat]
  <2>1. /\ Len(edge[p]) = Sent(p) - s
        /\ \A n \in 1 .. Len(edge[p]) : edge[p][n] = Last(p, s + n - 1)
    BY DEF RingInv, EdgeInv, p, s
  <2>2. Len(edge[p]) \in Nat \ {0} /\ got = edge[p][1] /\ got \in [Ranks -> Nat]
    BY <1>1, <1>2 DEF got
  <2> QED
    BY <1>3, <2>1, <2>2
\* The chunk received into, and what it then holds.
<1>5. /\ c \in Ranks /\ Stored(r, got) = Last(r, Have(s + 1, Dist(c, r)))
      /\ \A d \in 0 .. World - 1 : d # Dist(c, r) => Have(s + 1, d) = Have(s, d)
  <2>1. CASE loop[r] = "scatter"
    <3>1. t[r] + 1 \in 0 .. World - 1 /\ r - (t[r] + 1) = r - t[r] - 1
      BY <1>0, <1>2
    <3>2. c \in Ranks /\ Dist(c, r) = t[r] + 1
      BY <2>1, <3>1, Behind DEF RecvChunk, c
    <3>3. s = t[r] /\ Have(s, t[r] + 1) = 0 /\ Have(s + 1, t[r] + 1) = s + 1
      BY <1>0, <1>2, <2>1 DEF Steps, Have, s
    <3>4. local[r][c] = Last(r, 0)
      BY <3>2, <3>3 DEF RingInv, LocalInv, s
    <3>5. \A q \in Ranks : Last(r, 0)[q] + Last(p, s)[q] = Last(r, s + 1)[q]
      <4> TAKE q \in Ranks
      <4>1. /\ Dist(q, r) \in 0 .. World - 1 /\ (Dist(q, r) = 0 <=> q = r)
            /\ Dist(q, p) = IF q = r THEN World - 1 ELSE Dist(q, r) - 1
        BY DistFacts DEF p
      <4>2. s <= World - 2
        BY <1>0, <3>3
      <4> QED
        BY <1>2, <1>3, <4>1, <4>2 DEF Last
    <3>6. Stored(r, got) = Last(r, s + 1)
      BY <1>4, <2>1, <3>4, <3>5 DEF Stored, Last, c
    <3>7. ASSUME NEW d \in 0 .. World - 1, d # t[r] + 1 PROVE Have(s + 1, d) = Have(s, d)
      <4>1. d \in Nat /\ s \in Nat /\ d # s + 1 /\ s <= World - 2
        BY <1>0, <1>2, <3>3, <3>7
      <4>2. ~ (d + World - 1 < s) /\ ~ (d + World - 1 < s + 1) /\ (d <= s <=> d <= s + 1)
        BY <1>2, <4>1
      <4> QED
        BY <4>2 DEF Have
    <3> QED
      BY <3>2, <3>3, <3>6, <3>7
  <2>2. CASE loop[r] = "gather"
    <3>1. c \in Ranks /\ Dist(c, r) = t[r]
      <4>1. t[r] \in 0 .. World - 1
        BY <1>0, <1>2
      <4> QED
        BY <4>1, <2>2, Behind DEF RecvChunk, c
    <3>2. s = World - 1 + t[r] /\ Have(s + 1, t[r]) = World - 1
      <4>1. s = World - 1 + t[r]
        BY <2>2 DEF Steps, s
      <4> QED
        BY <1>0, <1>2, <4>1 DEF Have
    <3>3. Stored(r, got) = Last(r, World - 1)
      <4>1. Last(p, s) = Complete /\ Last(r, World - 1) = Complete
        BY <1>0, <1>2, <3>2, LastFull
      <4>2. Stored(r, got) = got
        BY <2>2 DEF Stored
      <4> QED
        BY <1>4, <4>1, <4>2
    <3>4. \A d \in 0 .. World - 1 : d # t[r] => Have(s + 1, d) = Have(s, d)
      BY <1>0, <1>2, <3>2 DEF Have
    <3> QED
      BY <3>1, <3>2, <3>3, <3>4
  <2> QED
    BY <1>1, <2>1, <2>2
<1>6. RingTypes'
  <2>1. Tail(edge[p]) \in Seq([Ranks -> Nat])
    BY <1>1, <1>2
  <2>2. Stored(r, got) \in [Ranks -> Nat]
    BY <1>5 DEF Last
  <2>3. local' \in [Ranks -> [Ranks -> [Ranks -> Nat]]]
    BY <1>1, <1>5, <2>2 DEF RingInv, RingTypes
  <2>4. edge' \in [Ranks -> Seq([Ranks -> Nat])]
    BY <1>1, <2>1 DEF RingInv, RingTypes
  <2>5. /\ loop' \in [Ranks -> {"scatter", "gather", "done"}]
        /\ t' \in [Ranks -> Nat] /\ sent' \in [Ranks -> BOOLEAN]
        /\ \A q \in Ranks : /\ loop'[q] # "done" => t'[q] <= World - 2
                            /\ loop'[q] = "done" => ~ sent'[q]
    <3>1. /\ loop' \in [Ranks -> {"scatter", "gather", "done"}]
          /\ t' \in [Ranks -> Nat] /\ sent' \in [Ranks -> BOOLEAN]
      BY <1>1, <1>0 DEF RingInv, RingTypes
    <3>2. ASSUME NEW q \in Ranks
          PROVE  /\ loop'[q] # "done" => t'[q] <= World - 2
                 /\ loop'[q] = "done" => ~ sent'[q]
      <4>1. CASE q = r
        <5>1. t'[r] <= World - 2
          <6>1. CASE t[r] = World - 2
            BY <1>2, <1>c, <6>1
          <6>2. CASE t[r] # World - 2
            BY <1>0, <1>2, <1>c, <6>2
          <6> QED
            BY <6>1, <6>2
        <5> QED
          BY <1>c, <4>1, <5>1
      <4>2. CASE q # r
        BY <1>c, <4>2 DEF RingInv, RingTypes
      <4> QED
        BY <4>1, <4>2
    <3> QED
      BY <3>1, <3>2
  <2> QED
    BY <2>3, <2>4, <2>5 DEF RingTypes
<1>7. EdgeInv'
  <2> SUFFICES ASSUME NEW q \in Ranks
               PROVE  /\ Len(edge'[PrevOf(q)]) = Sent(PrevOf(q))' - Steps(q)'
                      /\ \A n \in 1 .. Len(edge'[PrevOf(q)]) :
                            edge'[PrevOf(q)][n] = Last(PrevOf(q), Steps(q)' + n - 1)
    BY DEF EdgeInv, PrevOf, Last, Dist
  <2>1. PrevOf(q) \in Ranks /\ (PrevOf(q) = p => q = r)
    BY PrevIs, DistFacts DEF p
  <2>2. CASE q # r
    BY <1>1, <1>3, <2>1, <2>2 DEF RingInv, RingTypes, EdgeInv
  <2>3. CASE q = r
    <3>1. edge'[p] = Tail(edge[p])
      BY <1>1, <1>2 DEF RingInv, RingTypes
    <3>2. /\ Len(Tail(edge[p])) = Len(edge[p]) - 1
          /\ \A n \in 1 .. Len(edge[p]) - 1 : Tail(edge[p])[n] = edge[p][n + 1]
      BY <1>1, <1>2
    <3>3. Sent(p)' = Sent(p)
      BY <1>2, <1>3
    <3>4. Len(edge'[p]) = Sent(p)' - Steps(r)'
      BY <1>2, <1>3, <1>4, <3>1, <3>2, <3>3
    <3>5. \A n \in 1 .. Len(edge'[p]) : edge'[p][n] = Last(p, Steps(r)' + n - 1)
      <4> TAKE n \in 1 .. Len(edge'[p])
      <4>1. n \in 1 .. Len(edge[p]) - 1 /\ n + 1 \in 1 .. Len(edge[p])
        BY <1>4, <3>1, <3>2
      <4>2. s + (n + 1) - 1 = Steps(r)' + n - 1
        BY <1>3, <4>1
      <4> QED
        BY <1>4, <3>1, <3>2, <4>1, <4>2
    <3> QED
      BY <2>3, <3>4, <3>5 DEF p
  <2> QED
    BY <2>2, <2>3
<1>8. SkewInv'
  <2> SUFFICES ASSUME NEW a \in Ranks, NEW b \in Ranks
               PROVE  Steps(a)' <= Steps(b)' + Dist(b, a)
    BY DEF SkewInv, Dist
  <2>1. Steps(a) <= Steps(b) + Dist(b, a) /\ Dist(b, a) \in 0 .. World - 1
    BY DistFacts DEF RingInv, SkewInv
  <2>2. CASE a # r
    <3>1. Steps(a)' = Steps(a) /\ Steps(b) <= Steps(b)' /\ Steps(b)' \in Nat /\ Steps(a) \in Nat
      BY <1>3, <2>2 DEF s
    <3>2. Steps(b) \in Nat /\ Dist(b, a) \in Nat
      BY <1>3, <2>1
    <3> QED
      BY <2>1, <3>1, <3>2
  <2>3. CASE a = r /\ b = r
    BY <1>2, <1>3, <2>1, <2>3
  <2>4. CASE a = r /\ b # r
    <3>1. Steps(p) <= Steps(b) + Dist(b, p) /\ Dist(b, p) = Dist(b, r) - 1
      BY <1>2, <2>4, DistFacts DEF RingInv, SkewInv, p
    <3>2. s + 1 <= Steps(p) + 1
      <4>1. /\ s \in Nat /\ Steps(p) \in Nat /\ Sent(p) \in Nat /\ Sent(p) <= Steps(p) + 1
        BY <1>2, <1>3
      <4>2. Len(edge[p]) = Sent(p) - s /\ Len(edge[p]) \in Nat \ {0}
        BY <1>4
      <4> DEFINE len == Len(edge[p])
      <4>3. len = Sent(p) - s /\ len \in Nat /\ len # 0
        BY <4>2
      <4> HIDE DEF len
      <4> QED
        BY <4>1, <4>3
    <3>3. Steps(r)' = s + 1 /\ Steps(b)' = Steps(b) /\ Steps(b) \in Nat /\ Steps(p) \in Nat /\ s \in Nat
      BY <1>2, <1>3, <2>4
    <3>4. Dist(b, r) \in Int
      BY <2>1, <2>4
    <3> QED
      BY <2>4, <3>1, <3>2, <3>3, <3>4
  <2> QED
    BY <2>2, <2>3, <2>4
<1>9. LocalInv'
  <2> SUFFICES ASSUME NEW a \in Ranks, NEW b \in Ranks
               PROVE  local'[a][b] = Last(a, Have(Steps(a)', Dist(b, a)))
    BY DEF LocalInv, Last, Have, Dist
  <2>1. local[a][b] = Last(a, Have(Steps(a), Dist(b, a))) /\ Dist(b, a) \in 0 .. World - 1
    BY DistFacts DEF RingInv, LocalInv
  <2>2. CASE a # r
    BY <1>1, <1>3, <2>1, <2>2 DEF RingInv, RingTypes
  <2>3. CASE a = r /\ b = c
    BY <1>1, <1>3, <1>5, <2>3 DEF RingInv, RingTypes
  <2>4. CASE a = r /\ b # c
    <3>1. Dist(b, r) # Dist(c, r)
      BY <1>5, <2>4, DistFacts
    <3>2. local'[r][b] = local[r][b]
      BY <1>1, <2>4 DEF RingInv, RingTypes
    <3> QED
      BY <1>3, <1>5, <2>1, <2>4, <3>1, <3>2 DEF s
  <2> QED
    BY <2>2, <2>3, <2>4
<1> QED
  BY <1>6, <1>7, <1>8, <1>9 DEF RingInv

\* What every rank's chunks and every queue of ring_allreduce hold, as a function
\* of the steps that its ranks have completed, in every reachable state.
THEOREM RingInvariance == ORSpec => []RingInv
<1>1. ORInit => RingInv
  BY RingFresh DEF ORInit
<1>2. RingInv /\ [ORNext]_allVars => RingInv'
  <2> SUFFICES ASSUME RingInv, [RingStep]_ringVars PROVE RingInv'
    BY RingSteps
  <2>1. CASE UNCHANGED ringVars
    BY <2>1 DEF ringVars, RingInv, RingTypes, EdgeInv, SkewInv, LocalInv, Steps, Sent,
                Last, Have, Dist, PrevOf
  <2>2. CASE RingCall
    <3>1. RingInit'
      BY <2>2 DEF RingCall, RingInit
    <3> QED
      BY <3>1, RingFresh, PTL
  <2>3. CASE \E r \in Ranks : RankStep(r)
    BY <2>3, SendInv, RecvInv DEF RankStep
  <2> QED
    BY <2>1, <2>2, <2>3 DEF RingStep
<1> QED
  BY <1>1, <1>2, PTL DEF ORSpec

\* Whatever the threads' interleaving, a rank holds every contribution to chunk
\* (i + 1) % world exactly once from the end of its scatter on, and the full sum
\* in every chunk when it is done.
THEOREM RingSums == ORSpec => []AllReduced
<1>1. RingInv => AllReduced
  <2> SUFFICES ASSUME RingInv, NEW r \in Ranks
               PROVE  /\ loop[r] # "scatter" => local[r][(r + 1) % World] = Complete
                      /\ loop[r] = "done" => \A c \in Ranks : local[r][c] = Complete
    BY DEF AllReduced
  <2>1. \A c \in Ranks : Dist(c, r) \in 0 .. World - 1
    BY DistFacts
  <2>2. \A c \in Ranks : local[r][c] = Last(r, Have(Steps(r), Dist(c, r)))
    BY DEF RingInv, LocalInv
  <2>3. Last(r, World - 1) = Complete
    BY LastFull, WorldAssumption
  <2>4. ASSUME loop[r] # "scatter" PROVE local[r][(r + 1) % World] = Complete
    <3>1. Steps(r) \in Nat /\ Steps(r) >= World - 1
      BY <2>4, WorldAssumption DEF RingInv, RingTypes, Steps
    <3>2. Have(Steps(r), World - 1) = World - 1
      BY <3>1, WorldAssumption DEF Have
    <3> QED
      BY <2>2, <2>3, <3>2, SuccFacts
  <2>5. ASSUME loop[r] = "done", NEW c \in Ranks PROVE local[r][c] = Complete
    <3>1. Steps(r) = 2 * (World - 1)
      BY <2>5 DEF Steps
    <3>2. Have(Steps(r), Dist(c, r)) = World - 1
      BY <2>1, <3>1, WorldAssumption DEF Have
    <3> QED
      BY <2>2, <2>3, <3>2
  <2> QED
    BY <2>4, <2>5
<1> QED
  BY <1>1, RingInvariance, PTL

\* However far a rank runs ahead of its neighbour, no queue between two ranks
\* ever holds more than world chunks.
THEOREM RingQueuesBounded == ORSpec => []QueueBound
<1>1. RingInv => QueueBound
  <2> SUFFICES ASSUME RingInv, NEW r \in Ranks PROVE Len(edge[r]) <= World
    BY DEF QueueBound
  <2> DEFINE q == (r + 1) % World
  <2>1. q \in Ranks /\ PrevOf(q) = r
    BY SuccFacts
  <2> HIDE DEF q
  <2>2. Len(edge[r]) = Sent(r) - Steps(q)
    BY <2>1 DEF RingInv, EdgeInv
  <2>3. Steps(r) <= Steps(q) + Dist(q, r) /\ Dist(q, r) \in 0 .. World - 1
    BY <2>1, DistFacts DEF RingInv, SkewInv
  <2>4. Steps(q) \in Nat /\ Steps(r) \in Nat /\ Sent(r) \in Nat /\ Sent(r) <= Steps(r) + 1
    BY <2>1, StepsType DEF RingInv
  <2> QED
    BY <2>2, <2>3, <2>4, WorldAssumption
<1> QED
  BY <1>1, RingInvariance, PTL
=============================================================================

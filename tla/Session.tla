------------------------------ MODULE Session ------------------------------
(***************************************************************************)
(* One host thread with one device: verify_milestone0, which does not      *)
(* return before its verdict, and then decode steps through slot tables.   *)
(* Nothing in the code makes the second depend on the verdict.             *)
(***************************************************************************)
EXTENDS SlotTable, Milestone0

sessionVars == <<vars, m0Vars>>

SessionInit == Init /\ M0Init

\* verify_milestone0 is running.
Verify == UNCHANGED vars /\ (HostStep \/ \E w \in Blocks : BlockStep(w))

\* It has returned or raised, and the megakernel is used.
Serve == verdict # "running" /\ Next /\ UNCHANGED m0Vars

SessionNext == Verify \/ Serve

\* Blocks are co-resident, and the host waits for them and then judges.
SessionSpec ==
    /\ SessionInit /\ [][SessionNext]_sessionVars
    /\ \A w \in Blocks : WF_sessionVars(BlockStep(w) /\ UNCHANGED vars)
    /\ WF_sessionVars(HostStep /\ UNCHANGED vars)

-----------------------------------------------------------------------------
\* The verification reaches a verdict: no block waits for an arrival that the
\* base of its invocation does not count.
VerdictReached == <>(verdict # "running")
=============================================================================

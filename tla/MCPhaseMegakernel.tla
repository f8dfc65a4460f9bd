------------------------- MODULE MCPhaseMegakernel -------------------------
(* Four phases over three blocks: a residual read across a phase, phases    *)
(* with fewer and with more tasks than blocks, and a last buffer that reuses*)
(* the storage of the first two.                                            *)
EXTENDS PhaseMegakernel, TLC

MCTaskCount == (0 :> 2) @@ (1 :> 5) @@ (2 :> 1) @@ (3 :> 4)
MCReads     == (0 :> {}) @@ (1 :> {0}) @@ (2 :> {0, 1}) @@ (3 :> {2})
MCOffset    == (0 :> 0) @@ (1 :> 2) @@ (2 :> 7) @@ (3 :> 0)

\* A single phase pair for the run that looks at the counter only.
MCTaskCount2 == (0 :> 1) @@ (1 :> 2)
MCReads2     == (0 :> {}) @@ (1 :> {0})
MCOffset2    == (0 :> 0) @@ (1 :> 1)
=============================================================================

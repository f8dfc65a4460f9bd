------------------------------ MODULE Compile ------------------------------
(***************************************************************************)
(* The two ways a captured graph is scheduled: operator phases over a      *)
(* packed workspace (Workspace), which is what compile_model does, or tile *)
(* tasks without phase barriers (TileSchedule), which a caller asks for    *)
(* itself.  A graph takes one of them.                                     *)
(***************************************************************************)
EXTENDS Workspace, TileSchedule

VARIABLE kind   \* "phase" or "tile"

compileVars == <<wsVars, tileVars, kind>>

\* The scheduler that is not used.
NoWorkspace ==
    /\ numel = [i \in Bufs |-> Min(Sizes)] /\ life = [i \in Bufs |-> <<0, 0>>]
    /\ cur = 1 /\ candidate = 0 /\ total = -1 /\ offset = [i \in Bufs |-> 0]
    /\ at = 0 /\ ws = [e \in Elements |-> NaN] /\ alarm = {} /\ lost = {}

NoTiles ==
    /\ preds = [k \in Tasks |-> {}] /\ mode = "unused"
    /\ remaining = [k \in Tasks |-> 0] /\ ready = <<>> /\ enqueued = {} /\ retired = 0
    /\ held = [w \in Workers |-> None] /\ complete = {}
    /\ tasks = [k \in Tasks |-> NoTask] /\ plan = "dynamic" /\ order = <<>> /\ mem = <<>> /\ seen = {}

CompileInit == \/ kind = "phase" /\ WInit /\ NoTiles
               \/ kind = "tile" /\ TInit /\ NoWorkspace

PhaseStep == kind = "phase" /\ WNext /\ UNCHANGED <<kind, tileVars>>
TileStep  == kind = "tile" /\ TNext /\ UNCHANGED <<kind, wsVars>>

CompileNext == PhaseStep \/ TileStep

\* The planner, the executor and the dispatch loop keep going, and a worker
\* finishes the task it holds.
CompileSpec ==
    /\ CompileInit /\ [][CompileNext]_compileVars
    /\ WF_compileVars(CompileNext)
    /\ \A w \in Workers :
          WF_compileVars((TComplete(w) \/ Publish(w)) /\ UNCHANGED <<kind, wsVars>>)

-----------------------------------------------------------------------------
\* Every compilation runs to its end.  Under phases the search of the planner
\* ends and every phase runs.  Under tiles a graph is either refused or
\* executed to the end, and the end is declared only of a graph whose tasks
\* have all completed ("completion: declared only when all tasks have
\* retired"), so the dispatch loop never stalls with work outstanding.
Progress == <>\/ kind = "phase" /\ at = MaxPhase + 1
              \/ kind = "tile" /\ mode = "error"
              \/ kind = "tile" /\ mode = "finished" /\ complete = Tasks
=============================================================================

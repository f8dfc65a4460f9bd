--------------------------- MODULE OpConfigCache ---------------------------
(***************************************************************************)
(* The op-config cache (tuning/cache.py): several processes resolve the    *)
(* launch config of a shape-class bucket of one op, from the process memo, *)
(* from their snapshot of the store file or by a sweep, and persist what   *)
(* they resolved; these or others seed the store with configs made         *)
(* offline.  The file is rewritten as a whole, by an atomic replace, under *)
(* a file lock that the kernel releases when its holder dies.  Every read  *)
(* of it may fail, and a failed read counts as an empty file.              *)
(*                                                                         *)
(* A record is its status, its config and the identity (source fingerprint *)
(* and device triple) it was made for.                                     *)
(***************************************************************************)
EXTENDS Integers, FiniteSets

CONSTANTS Workload,    \* <<p, b>>: process p calls op_config for bucket b
          Seeders,     \* processes that call seed
          Buckets,     \* shape classes
          Winners,     \* configs that a sweep can choose
          Identity,    \* Identity[p]: source fingerprint and device of p
          Store,       \* records of the file that the first process finds
          OffProcs,    \* processes started with VKERNELS_CACHE=off
          Capturers,   \* processes that capture graphs
          ReadsFail,   \* whether a read of the file may fail
          MaxSeeds,    \* bound: seeds of one process that land
          MaxCrashes   \* bound: process deaths

Servers == {w[1] : w \in Workload}
Procs   == Servers \union Seeders
Free    == "free"   \* nobody holds the lock

ASSUME CacheAssumption ==
    /\ OffProcs \subseteq Procs /\ Free \notin Procs
    /\ Capturers \subseteq Servers \ OffProcs
    /\ ReadsFail \in BOOLEAN /\ MaxSeeds \in Nat /\ MaxCrashes \in Nat
    /\ Store = [b \in Buckets |-> Store[b]]
    /\ \A b \in Buckets :
          /\ Store[b] = [status |-> Store[b].status, config |-> Store[b].config, id |-> Store[b].id]
          /\ Store[b].status \in {"absent", "tuned", "seeded", "default"}

VARIABLES
    disk,       \* disk[b]: the record of bucket b in the store file, or Absent
    lock,       \* holder of store_lock, or Free
    files,      \* files[p]: _FILES, the records p knows of, or Unread
    memo,       \* memo[p][b]: _MEMO, what p has resolved, or Absent
    capturing,  \* capturing[p]: p's stream is capturing a graph
    pc,         \* where p is in op_config or seed
    job,        \* job[p]: the buckets p works on, the record it is about to
                \* persist for them, and the disk state read under the lock
    served,     \* served[p][b]: configs that op_config has returned to p
    landed,     \* landed[p]: seeds that p itself has written since it started
    crashes

vars == <<disk, lock, files, memo, capturing, pc, job, served, landed, crashes>>

Absent == [status |-> "absent", config |-> "none", id |-> "none"]
Empty  == [b \in Buckets |-> Absent]
Unread == [b \in Buckets |-> [status |-> "unread", config |-> "none", id |-> "none"]]
NoJob  == [buckets |-> {}, draft |-> Absent, base |-> Empty]

Record(st, c, p) == [status |-> st, config |-> c, id |-> Identity[p]]

Init ==
    /\ disk = Store /\ lock = Free
    /\ files = [p \in Procs |-> Unread]
    /\ memo  = [p \in Procs |-> Empty]
    /\ capturing = [p \in Procs |-> FALSE]
    /\ pc    = [p \in Procs |-> "idle"]
    /\ job   = [p \in Procs |-> NoJob]
    /\ served = [p \in Procs |-> [b \in Buckets |-> {}]]
    /\ landed = [p \in Procs |-> 0]
    /\ crashes = 0

\* What a read of the file gives: its records, or none if the file cannot be
\* read or parsed.
Reads == IF ReadsFail THEN {disk, Empty} ELSE {disk}

\* _load_records: the snapshot, read the first time and kept, a failed read too.
Snapshots(p) == IF files[p] = Unread THEN Reads ELSE {files[p]}

\* Records recs with r stored for every bucket of bs.
Updated(recs, bs, r) == [b \in Buckets |-> IF b \in bs THEN r ELSE recs[b]]

\* op_config returns r to the caller and the memo freezes it.
Freeze(p, bs, r) ==
    /\ memo' = [memo EXCEPT ![p] = Updated(@, bs, r)]
    /\ served' = [served EXCEPT ![p] = [b \in Buckets |->
                      @[b] \union {r.config : x \in bs \intersect {b}}]]

\* The call returns.
Done(p) == pc' = [pc EXCEPT ![p] = "idle"] /\ job' = [job EXCEPT ![p] = NoJob]

-----------------------------------------------------------------------------
(* op_config *)

\* A call that the memo does not answer.
Call(p, b) ==
    /\ <<p, b>> \in Workload /\ pc[p] = "idle" /\ memo[p][b] = Absent
    /\ pc' = [pc EXCEPT ![p] = "resolve"]
    /\ job' = [job EXCEPT ![p].buckets = {b}]
    /\ UNCHANGED <<disk, lock, files, memo, capturing, served, landed, crashes>>

ResolveOff(p) ==
    /\ pc[p] = "resolve" /\ p \in OffProcs
    /\ Done(p)
    /\ Freeze(p, job[p].buckets, Record("off", "default", p))
    /\ UNCHANGED <<disk, lock, files, capturing, landed, crashes>>

ResolveCapture(p) ==
    /\ pc[p] = "resolve" /\ p \notin OffProcs /\ capturing[p]
    /\ Done(p)
    /\ Freeze(p, job[p].buckets, Record("capture", "default", p))
    /\ UNCHANGED <<disk, lock, files, capturing, landed, crashes>>

\* Fault model: a record made from other sources is replayed.
ValidAny(p, r) == r.status \in {"tuned", "seeded", "default"}

\* A record of this source fingerprint and this device.
Valid(p, r) == r.status \in {"tuned", "seeded", "default"} /\ r.id = Identity[p]

ResolveStore(p) == \E b \in job[p].buckets, recs \in Snapshots(p) :
    /\ pc[p] = "resolve" /\ p \notin OffProcs /\ ~ capturing[p]
    /\ Valid(p, recs[b])
    /\ files' = [files EXCEPT ![p] = recs]
    /\ Done(p)
    /\ Freeze(p, {b}, recs[b])
    /\ UNCHANGED <<disk, lock, capturing, landed, crashes>>

\* A miss: the sweep finds a winner, or ends without one (no candidates, all
\* benches failed, budget exhausted) and the declared default is recorded.
Sweep(p) == \E recs \in Snapshots(p) :
    /\ pc[p] = "resolve" /\ p \notin OffProcs /\ ~ capturing[p]
    /\ \A b \in job[p].buckets : ~ Valid(p, recs[b])
    /\ files' = [files EXCEPT ![p] = recs]
    /\ pc' = [pc EXCEPT ![p] = "lock"]
    /\ \/ \E c \in Winners : job' = [job EXCEPT ![p].draft = Record("tuned", c, p)]
       \/ job' = [job EXCEPT ![p].draft = Record("default", "default", p)]
    /\ UNCHANGED <<disk, lock, memo, capturing, served, landed, crashes>>

-----------------------------------------------------------------------------
(* seed *)

\* The entries for buckets that the snapshot shows as tuned are left out.
Landing(recs, bs) == {b \in bs : recs[b].status # "tuned"}

Seed(p, bs) == \E recs \in Snapshots(p) :
    /\ p \in Seeders \ OffProcs /\ pc[p] = "idle" /\ landed[p] < MaxSeeds
    /\ files' = [files EXCEPT ![p] = recs]
    /\ Landing(recs, bs) # {}
    /\ job' = [job EXCEPT ![p].buckets = Landing(recs, bs),
                          ![p].draft = Record("seeded", "prior", p)]
    /\ pc' = [pc EXCEPT ![p] = "lock"]
    /\ UNCHANGED <<disk, lock, memo, capturing, served, landed, crashes>>

\* Nothing lands and nothing is written.
SeedSkips(p, bs) == \E recs \in Snapshots(p) :
    /\ p \in Seeders \ OffProcs /\ pc[p] = "idle"
    /\ files' = [files EXCEPT ![p] = recs]
    /\ Landing(recs, bs) = {}
    /\ UNCHANGED <<disk, lock, memo, capturing, pc, job, served, landed, crashes>>

-----------------------------------------------------------------------------
(* _write_records *)

LockFree == lock = Free

\* flock, then the file is read again.  The write goes on when that read fails,
\* and then from no records at all.
LockAndRead(p) ==
    /\ pc[p] = "lock" /\ LockFree
    /\ lock' = p
    /\ \E recs \in Reads : job' = [job EXCEPT ![p].base = recs]
    /\ pc' = [pc EXCEPT ![p] = "replace"]
    /\ UNCHANGED <<disk, files, memo, capturing, served, landed, crashes>>

\* Fault model: the snapshot, not the disk, is what the record is added to.
MergedStale(p) == Updated(files[p], job[p].buckets, job[p].draft)

\* merged = disk; merged.update(records)
Merged(p) == Updated(job[p].base, job[p].buckets, job[p].draft)

\* Fault model: seed forgets the memo although nothing was written.
ConcludeForgets(p, ok) ==
    IF job[p].draft.status = "seeded"
    THEN /\ memo' = [memo EXCEPT ![p] = Empty]
         /\ landed' = [landed EXCEPT ![p] = IF ok THEN @ + 1 ELSE @]
         /\ served' = served
    ELSE Freeze(p, job[p].buckets, job[p].draft) /\ landed' = landed

\* What the caller of _write_records does next: seed forgets the memo of the
\* op when the write succeeded, op_config freezes its result in any case.
Conclude(p, ok) ==
    IF job[p].draft.status = "seeded"
    THEN /\ memo' = IF ok THEN [memo EXCEPT ![p] = Empty] ELSE memo
         /\ landed' = [landed EXCEPT ![p] = IF ok THEN @ + 1 ELSE @]
         /\ served' = served
    ELSE Freeze(p, job[p].buckets, job[p].draft) /\ landed' = landed

\* os.replace of the temporary file, unlock, and the new snapshot.
Replace(p) ==
    /\ pc[p] = "replace"
    /\ disk' = Merged(p)
    /\ lock' = IF lock = p THEN Free ELSE lock
    /\ files' = [files EXCEPT ![p] = Merged(p)]
    /\ Conclude(p, TRUE)
    /\ Done(p)
    /\ UNCHANGED <<capturing, crashes>>

\* Fault model: an I/O error leaves the lock held.
WriteFailsHolding(p) ==
    /\ pc[p] \in {"lock", "replace"}
    /\ Conclude(p, FALSE)
    /\ Done(p)
    /\ UNCHANGED <<disk, lock, files, capturing, crashes>>

\* An OSError of mkdir, flock, mkstemp, the write or the replace: the file stays
\* as it is and the error is swallowed.  (The one of the second read is not among
\* them: LockAndRead.)
WriteFails(p) ==
    /\ pc[p] \in {"lock", "replace"}
    /\ lock' = IF lock = p THEN Free ELSE lock
    /\ Conclude(p, FALSE)
    /\ Done(p)
    /\ UNCHANGED <<disk, files, capturing, crashes>>

-----------------------------------------------------------------------------
(* The surroundings *)

\* A capture begins or ends while p is not inside the cache.
Capture(p) ==
    /\ p \in Capturers /\ pc[p] = "idle"
    /\ capturing' = [capturing EXCEPT ![p] = ~ @]
    /\ UNCHANGED <<disk, lock, files, memo, pc, job, served, landed, crashes>>

\* A process dies at any point and a new one takes its place.
Crash(p) ==
    /\ crashes < MaxCrashes
    /\ crashes' = crashes + 1
    /\ lock' = IF lock = p THEN Free ELSE lock
    /\ files' = [files EXCEPT ![p] = Unread]
    /\ memo' = [memo EXCEPT ![p] = Empty]
    /\ served' = [served EXCEPT ![p] = [b \in Buckets |-> {}]]
    /\ landed' = [landed EXCEPT ![p] = 0]
    /\ capturing' = [capturing EXCEPT ![p] = FALSE]
    /\ Done(p)
    /\ UNCHANGED <<disk>>

Work(p) == ResolveOff(p) \/ ResolveCapture(p) \/ ResolveStore(p) \/ Sweep(p) \/ Replace(p)

Next == \E p \in Procs :
            \/ Work(p) \/ LockAndRead(p) \/ WriteFails(p) \/ Capture(p) \/ Crash(p)
            \/ \E b \in Buckets : Call(p, b)
            \/ \E bs \in SUBSET Buckets \ {{}} : Seed(p, bs) \/ SeedSkips(p, bs)

Spec == Init /\ [][Next]_vars

\* A process inside the cache keeps running, and flock does not pass over a
\* waiter for ever; nobody has to call anything, and no write has to fail.
FairSpec == Spec /\ \A p \in Procs : WF_vars(Work(p)) /\ SF_vars(LockAndRead(p))

-----------------------------------------------------------------------------
(* Properties *)

\* "a writer re-reads the disk state under the lock and merges only its own
\* record, so concurrent processes last-writer-wins per RECORD", as far as the
\* code keeps it: a write sets the records it is for to what it was called with,
\* and of the others it changes none, whatever other writers, failed writes and
\* crashes come in between.  The one exception is a write whose own read under
\* the lock came back empty: it erases every record it is not for.
RecordsSurvive ==
    [][\A b \in Buckets : disk'[b] # disk[b] =>
           \E p \in Procs :
               /\ pc[p] = "replace"
               /\ b \in job[p].buckets => disk'[b] = job[p].draft
               /\ b \notin job[p].buckets => job[p].base = Empty /\ disk'[b] = Absent]_vars

\* "a bucket never changes config under a running serve", as far as the code
\* keeps it: in the life of one process op_config returns to it one config per
\* bucket, and at most one more for each seed of its own that it has written.
\* Captures, other processes' tunes and seeds, failed writes, failed seeds and
\* failed reads never change a config that was served.
Frozen == \A p \in Procs : \A b \in Buckets : Cardinality(served[p][b]) <= 1 + landed[p]

\* "configs tuned by different source bytes are not this build's configs":
\* what a process has resolved was made by its own sources on its device.
OwnSource == \A p \in Procs : \A b \in Buckets :
                memo[p][b] # Absent => memo[p][b].id = Identity[p]

\* Every call returns: neither a dead lock holder nor a failed write leaves a
\* process waiting for good.
CallsReturn == \A p \in Procs : (pc[p] # "idle") ~> (pc[p] = "idle")

\* "a locally tuned record is never downgraded by a seed unless force=True".
NeverDowngraded ==
    [][\A b \in Buckets : disk[b].status = "tuned" => disk'[b].status # "seeded"]_vars
=============================================================================

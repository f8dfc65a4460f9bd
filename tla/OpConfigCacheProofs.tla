------------------------ MODULE OpConfigCacheProofs ------------------------
(***************************************************************************)
(* For any processes, buckets, builds, files and number of crashes: the    *)
(* store lock makes a write change its own records only, unless its own    *)
(* read came back empty, and a process serves configs of its own sources,  *)
(* one per bucket between two seeds of its own.                            *)
(***************************************************************************)
EXTENDS OpConfigCache, FiniteSetTheorems, TLAPS

Statuses == {"absent", "unread", "off", "capture", "tuned", "seeded", "default"}
Configs  == Winners \union {"none", "default", "prior"} \union {Store[b].config : b \in Buckets}
Ids      == {Identity[p] : p \in Procs} \union {"none"} \union {Store[b].id : b \in Buckets}
Rec      == [status : Statuses, config : Configs, id : Ids]
Records  == [Buckets -> Rec]
Job      == [buckets : SUBSET Buckets, draft : Rec, base : Records]

CacheTypes ==
    /\ disk \in Records
    /\ lock \in Procs \union {Free}
    /\ files \in [Procs -> Records]
    /\ memo \in [Procs -> Records]
    /\ capturing \in [Procs -> BOOLEAN]
    /\ pc \in [Procs -> {"idle", "resolve", "lock", "replace"}]
    /\ job \in [Procs -> Job]
    /\ served \in [Procs -> [Buckets -> SUBSET Configs]]
    /\ landed \in [Procs -> Nat]

\* Between flock and os.replace a process holds the lock, and what it read is
\* what is on the disk, unless that read failed.
LockHeld == \A p \in Procs : pc[p] = "replace" => lock = p /\ job[p].base \in {disk, Empty}

\* What is about to be written is the process's own record.
OwnDraft ==
    \A p \in Procs : pc[p] \in {"lock", "replace"} =>
        /\ job[p].draft.status \in {"tuned", "default", "seeded"}
        /\ job[p].draft.id = Identity[p]

CacheInv == CacheTypes /\ LockHeld /\ OwnDraft /\ OwnSource

LEMMA AbsentFacts ==
    /\ Absent \in Rec /\ Empty \in Records /\ Unread \in Records
    /\ NoJob \in Job /\ NoJob.buckets = {}
    /\ \A b \in Buckets : Empty[b] = Absent
    /\ Absent.status = "absent"
  BY DEF Absent, Empty, Unread, NoJob, Rec, Records, Job, Statuses, Configs, Ids

LEMMA NameFacts ==
    /\ {"none", "default", "prior"} \subseteq Configs /\ Winners \subseteq Configs
    /\ {"off", "capture", "tuned", "seeded", "default"} \subseteq Statuses
  BY DEF Configs, Statuses

LEMMA RecordFacts ==
    ASSUME NEW st \in Statuses, NEW c \in Configs, NEW p \in Procs
    PROVE  /\ Record(st, c, p) \in Rec
           /\ Record(st, c, p).status = st /\ Record(st, c, p).config = c
           /\ Record(st, c, p).id = Identity[p]
  BY DEF Record, Rec, Ids

LEMMA ReadType == ASSUME CacheTypes, NEW recs \in Reads PROVE recs \in {disk, Empty} /\ recs \in Records
  BY AbsentFacts DEF CacheTypes, Reads

LEMMA SnapshotType ==
    ASSUME CacheTypes, NEW p \in Procs, NEW recs \in Snapshots(p)
    PROVE  recs \in Records
  BY ReadType DEF CacheTypes, Snapshots

\* The memo and the history of process p after r was frozen for buckets bs.
Froze(p, bs, r) ==
    /\ memo' \in [Procs -> Records]
    /\ served' \in [Procs -> [Buckets -> SUBSET Configs]]
    /\ \A q \in Procs \ {p} : memo'[q] = memo[q] /\ served'[q] = served[q]
    /\ \A b \in Buckets \ bs : memo'[p][b] = memo[p][b] /\ served'[p][b] = served[p][b]
    /\ \A b \in bs : memo'[p][b] = r /\ served'[p][b] = served[p][b] \union {r.config}

LEMMA FreezeFacts ==
    ASSUME CacheTypes, NEW p \in Procs, NEW bs \in SUBSET Buckets, NEW r \in Rec,
           Freeze(p, bs, r)
    PROVE  Froze(p, bs, r)
<1>1. memo[p] \in Records
  BY DEF CacheTypes
<1>2. r.config \in Configs
  BY DEF Rec
<1> DEFINE u == Updated(memo[p], bs, r)
<1>a. /\ u \in Records /\ \A b \in bs : u[b] = r
      /\ \A b \in Buckets \ bs : u[b] = memo[p][b]
  <2> DEFINE recs == memo[p]
  <2>1. recs \in Records
    BY <1>1
  <2> HIDE DEF recs
  <2>2. /\ Updated(recs, bs, r) \in Records
        /\ \A b \in bs : Updated(recs, bs, r)[b] = r
        /\ \A b \in Buckets \ bs : Updated(recs, bs, r)[b] = recs[b]
    BY <2>1 DEF Updated, Records
  <2> QED
    BY <2>2, Zenon DEF recs
<1>b. memo' = [memo EXCEPT ![p] = u]
  BY DEF Freeze
<1> HIDE DEF u
<1>3. /\ memo' \in [Procs -> Records]
      /\ \A q \in Procs \ {p} : memo'[q] = memo[q]
      /\ \A b \in Buckets \ bs : memo'[p][b] = memo[p][b]
      /\ \A b \in bs : memo'[p][b] = r
  BY <1>a, <1>b DEF CacheTypes
<1>4. \A q \in Procs \ {p} : served'[q] = served[q]
  BY DEF CacheTypes, Freeze
<1>5. served'[p] = [b \in Buckets |-> served[p][b] \union {r.config : x \in bs \intersect {b}}]
  BY DEF CacheTypes, Freeze
<1>6. \A b \in Buckets \ bs : {r.config : x \in bs \intersect {b}} = {}
  OBVIOUS
<1>7. \A b \in bs : {r.config : x \in bs \intersect {b}} = {r.config}
  OBVIOUS
<1>8. /\ \A b \in Buckets \ bs : served'[p][b] = served[p][b]
      /\ \A b \in bs : served'[p][b] = served[p][b] \union {r.config}
  BY <1>5, <1>6, <1>7
<1>9. served'[p] \in [Buckets -> SUBSET Configs]
  BY <1>2, <1>5 DEF CacheTypes
<1>10. served' \in [Procs -> [Buckets -> SUBSET Configs]]
  BY <1>9 DEF CacheTypes, Freeze
<1> QED
  BY <1>3, <1>4, <1>8, <1>10 DEF Froze

\* The call has returned.
LEMMA DoneFacts ==
    ASSUME CacheTypes, NEW p \in Procs, Done(p)
    PROVE  /\ pc' \in [Procs -> {"idle", "resolve", "lock", "replace"}]
           /\ job' \in [Procs -> Job]
           /\ pc'[p] = "idle"
           /\ \A q \in Procs \ {p} : pc'[q] = pc[q] /\ job'[q] = job[q]
  BY AbsentFacts DEF CacheTypes, Done

\* What the caller of _write_records does to the memo and the history.
LEMMA ConcludeFacts ==
    ASSUME CacheInv, NEW p \in Procs, NEW ok \in BOOLEAN,
           pc[p] \in {"lock", "replace"}, Conclude(p, ok)
    PROVE  /\ memo' \in [Procs -> Records]
           /\ served' \in [Procs -> [Buckets -> SUBSET Configs]]
           /\ landed' \in [Procs -> Nat]
           /\ OwnSource'
<1>1. /\ job[p].buckets \in SUBSET Buckets /\ job[p].draft \in Rec
      /\ job[p].draft.id = Identity[p] /\ CacheTypes
  BY DEF CacheInv, CacheTypes, Job, OwnDraft
<1>2. CASE job[p].draft.status = "seeded"
  <2>1. /\ served' = served /\ (memo' = memo \/ memo' = [memo EXCEPT ![p] = Empty])
        /\ landed' = [landed EXCEPT ![p] = IF ok THEN @ + 1 ELSE @]
    BY <1>2 DEF Conclude
  <2>4. landed' \in [Procs -> Nat]
    BY <1>1, <2>1 DEF CacheTypes
  <2>2. memo' \in [Procs -> Records]
    BY <2>1, <1>1, AbsentFacts DEF CacheTypes
  <2>3. OwnSource'
    <3> SUFFICES ASSUME NEW q \in Procs, NEW b \in Buckets, memo'[q][b] # Absent
                 PROVE  memo'[q][b].id = Identity[q]
      BY DEF OwnSource
    <3>1. memo'[q][b] = memo[q][b]
      BY <1>1, <2>1, AbsentFacts DEF CacheTypes
    <3> QED
      BY <3>1 DEF CacheInv, OwnSource
  <2> QED
    BY <1>1, <2>1, <2>2, <2>3, <2>4 DEF CacheTypes
<1>3. CASE job[p].draft.status # "seeded"
  <2>1. Freeze(p, job[p].buckets, job[p].draft) /\ landed' = landed
    BY <1>3 DEF Conclude
  <2>2. Froze(p, job[p].buckets, job[p].draft)
    BY <1>1, <2>1, FreezeFacts
  <2>3. OwnSource'
    BY <1>1, <2>2 DEF CacheInv, OwnSource, Froze
  <2> QED
    BY <1>1, <2>1, <2>2, <2>3 DEF Froze, CacheTypes
<1> QED
  BY <1>2, <1>3

\* A process that lets go of the lock, or that never had it, leaves it to the
\* one inside its write.
LEMMA ReleaseFacts ==
    ASSUME CacheInv, NEW p \in Procs, lock' = (IF lock = p THEN Free ELSE lock)
    PROVE  /\ lock' \in Procs \union {Free}
           /\ \A q \in Procs \ {p} : pc[q] = "replace" => lock' = q
  BY DEF CacheInv, CacheTypes, LockHeld

\* An answer from the environment, the capture rule or the store.
LEMMA ResolveInv ==
    ASSUME CacheInv, NEW p \in Procs, NEW bs \in SUBSET Buckets, NEW r \in Rec,
           r.id = Identity[p], pc[p] = "resolve",
           Done(p), Freeze(p, bs, r),
           files' = files \/ \E recs \in Snapshots(p) : files' = [files EXCEPT ![p] = recs],
           UNCHANGED <<disk, lock, capturing, landed>>
    PROVE  CacheInv'
<1>1. CacheTypes
  BY DEF CacheInv
<1>2. Froze(p, bs, r)
  BY <1>1, FreezeFacts
<1>3. /\ pc' \in [Procs -> {"idle", "resolve", "lock", "replace"}]
      /\ job' \in [Procs -> Job] /\ pc'[p] = "idle"
      /\ \A q \in Procs \ {p} : pc'[q] = pc[q] /\ job'[q] = job[q]
  BY <1>1, DoneFacts
<1>4. files' \in [Procs -> Records]
  BY <1>1, SnapshotType DEF CacheTypes
<1>5. CacheTypes'
  BY <1>1, <1>2, <1>3, <1>4 DEF CacheTypes, Froze
<1>6. LockHeld' /\ OwnDraft'
  BY <1>3 DEF CacheInv, LockHeld, OwnDraft
<1>7. OwnSource'
  BY <1>2 DEF CacheInv, OwnSource, Froze
<1> QED
  BY <1>5, <1>6, <1>7 DEF CacheInv

\* The sweep and the seed choose the record that will be written.
LEMMA DraftInv ==
    ASSUME CacheInv, NEW p \in Procs, NEW bs \in SUBSET Buckets, NEW r \in Rec,
           r.status \in {"tuned", "default", "seeded"}, r.id = Identity[p],
           job' = [job EXCEPT ![p].buckets = bs, ![p].draft = r],
           pc' = [pc EXCEPT ![p] = "lock"],
           \E recs \in Snapshots(p) : files' = [files EXCEPT ![p] = recs],
           UNCHANGED <<disk, lock, memo, capturing, served, landed>>
    PROVE  CacheInv'
<1>1. CacheTypes
  BY DEF CacheInv
<1>2. files' \in [Procs -> Records]
  BY <1>1, SnapshotType DEF CacheTypes
<1>3. /\ job' \in [Procs -> Job] /\ job'[p].draft = r
      /\ \A q \in Procs \ {p} : job'[q] = job[q]
  <2>1. /\ job[p] \in Job /\ job \in [Procs -> Job]
    BY <1>1 DEF CacheTypes
  <2>2. job' = [job EXCEPT ![p] = [job[p] EXCEPT !.buckets = bs, !.draft = r]]
    BY <2>1 DEF Job
  <2>3. /\ [job[p] EXCEPT !.buckets = bs, !.draft = r] \in Job
        /\ [job[p] EXCEPT !.buckets = bs, !.draft = r].draft = r
    BY <2>1 DEF Job
  <2> QED
    BY <2>1, <2>2, <2>3
<1>4. CacheTypes'
  BY <1>1, <1>2, <1>3 DEF CacheTypes
<1>5. /\ pc'[p] = "lock"
      /\ \A q \in Procs \ {p} : pc'[q] = pc[q]
  BY <1>1 DEF CacheTypes
<1>6. LockHeld' /\ OwnDraft'
  BY <1>3, <1>5 DEF CacheInv, LockHeld, OwnDraft
<1> QED
  BY <1>4, <1>6 DEF CacheInv, OwnSource

\* A write ends, with the new file in place or without.
LEMMA WriteInv ==
    ASSUME CacheInv, NEW p \in Procs, NEW ok \in BOOLEAN, pc[p] \in {"lock", "replace"},
           Conclude(p, ok), Done(p), lock' = (IF lock = p THEN Free ELSE lock),
           \/ UNCHANGED <<disk, files>>
           \/ /\ pc[p] = "replace" /\ disk' = Merged(p)
              /\ files' = [files EXCEPT ![p] = Merged(p)],
           UNCHANGED capturing
    PROVE  CacheInv'
<1>1. CacheTypes
  BY DEF CacheInv
<1>2. /\ pc' \in [Procs -> {"idle", "resolve", "lock", "replace"}]
      /\ job' \in [Procs -> Job] /\ pc'[p] = "idle"
      /\ \A q \in Procs \ {p} : pc'[q] = pc[q] /\ job'[q] = job[q]
  BY <1>1, DoneFacts
<1>3. /\ memo' \in [Procs -> Records]
      /\ served' \in [Procs -> [Buckets -> SUBSET Configs]] /\ OwnSource'
      /\ landed' \in [Procs -> Nat]
  BY ConcludeFacts
<1>4. /\ lock' \in Procs \union {Free}
      /\ \A q \in Procs \ {p} : pc[q] = "replace" => lock' = q
  BY ReleaseFacts
<1>5. Merged(p) \in Records
  <2>1. job[p].base \in Records /\ job[p].buckets \in SUBSET Buckets /\ job[p].draft \in Rec
    BY <1>1 DEF CacheTypes, Job
  <2> QED
    BY <2>1 DEF Merged, Updated, Records
<1>6. disk' \in Records /\ files' \in [Procs -> Records]
  BY <1>1, <1>5 DEF CacheTypes
<1>7. CacheTypes'
  BY <1>1, <1>2, <1>3, <1>4, <1>6 DEF CacheTypes
<1>8. LockHeld'
  <2> SUFFICES ASSUME NEW q \in Procs, pc'[q] = "replace"
               PROVE  lock' = q /\ job'[q].base \in {disk', Empty}
    BY DEF LockHeld
  <2>1. q # p /\ pc[q] = "replace" /\ job'[q] = job[q]
    BY <1>2
  <2>2. lock = q /\ job[q].base \in {disk, Empty}
    BY <2>1 DEF CacheInv, LockHeld
  <2>3. pc[p] # "replace"
    BY <2>1, <2>2 DEF CacheInv, LockHeld
  <2> QED
    BY <1>4, <2>1, <2>2, <2>3
<1>9. OwnDraft'
  BY <1>2 DEF CacheInv, OwnDraft
<1> QED
  BY <1>3, <1>7, <1>8, <1>9 DEF CacheInv

LEMMA StoreType == Store \in Records
  BY CacheAssumption DEF Records, Rec, Statuses, Configs, Ids

LEMMA InitInv == Init => CacheInv
  BY AbsentFacts, StoreType DEF Init, CacheInv, CacheTypes, LockHeld, OwnDraft, OwnSource

LEMMA StepInv ==
    ASSUME CacheInv, [Next]_vars
    PROVE  CacheInv'
<1>1. CacheTypes
  BY DEF CacheInv
<1>2. CASE UNCHANGED vars
  BY <1>2 DEF vars, CacheInv, CacheTypes, LockHeld, OwnDraft, OwnSource
<1>3. ASSUME NEW p \in Procs, ResolveOff(p) PROVE CacheInv'
  <2>1. job[p].buckets \in SUBSET Buckets
    BY <1>1 DEF CacheTypes, Job
  <2>2. Record("off", "default", p) \in Rec /\ Record("off", "default", p).id = Identity[p]
    BY RecordFacts, NameFacts
  <2> QED
    BY <1>3, <2>1, <2>2, ResolveInv DEF ResolveOff
<1>4. ASSUME NEW p \in Procs, ResolveCapture(p) PROVE CacheInv'
  <2>1. job[p].buckets \in SUBSET Buckets
    BY <1>1 DEF CacheTypes, Job
  <2>2. /\ Record("capture", "default", p) \in Rec
        /\ Record("capture", "default", p).id = Identity[p]
    BY RecordFacts, NameFacts
  <2> QED
    BY <1>4, <2>1, <2>2, ResolveInv DEF ResolveCapture
<1>5. ASSUME NEW p \in Procs, ResolveStore(p) PROVE CacheInv'
  <2>1. PICK b \in job[p].buckets, recs \in Snapshots(p) :
          /\ pc[p] = "resolve" /\ Valid(p, recs[b])
          /\ files' = [files EXCEPT ![p] = recs]
          /\ Done(p) /\ Freeze(p, {b}, recs[b])
          /\ UNCHANGED <<disk, lock, capturing, landed>>
    BY <1>5 DEF ResolveStore
  <2>2. {b} \in SUBSET Buckets /\ recs[b] \in Rec /\ recs[b].id = Identity[p]
    BY <1>1, <2>1, SnapshotType DEF CacheTypes, Job, Records, Valid
  <2> QED
    BY <2>1, <2>2, ResolveInv
<1>6. ASSUME NEW p \in Procs, Sweep(p) PROVE CacheInv'
  <2>1. PICK r \in Rec : /\ r.status \in {"tuned", "default", "seeded"} /\ r.id = Identity[p]
                         /\ job' = [job EXCEPT ![p].draft = r]
    <3>1. PICK st \in {"tuned", "default"}, c \in Configs :
                 job' = [job EXCEPT ![p].draft = Record(st, c, p)]
      BY <1>6, NameFacts DEF Sweep
    <3>2. /\ Record(st, c, p) \in Rec /\ Record(st, c, p).id = Identity[p]
          /\ Record(st, c, p).status \in {"tuned", "default", "seeded"}
      BY RecordFacts, NameFacts
    <3> QED
      BY <3>1, <3>2
  <2>2. job[p].buckets \in SUBSET Buckets
    BY <1>1 DEF CacheTypes, Job
  <2>3. job' = [job EXCEPT ![p].buckets = job[p].buckets, ![p].draft = r]
    BY <1>1, <2>1 DEF CacheTypes, Job
  <2> QED
    <3>1. /\ pc' = [pc EXCEPT ![p] = "lock"]
          /\ \E recs \in Snapshots(p) : files' = [files EXCEPT ![p] = recs]
          /\ UNCHANGED <<disk, lock, memo, capturing, served, landed>>
      BY <1>6 DEF Sweep
    <3> QED
      BY <2>1, <2>2, <2>3, <3>1, DraftInv
<1>7. ASSUME NEW p \in Procs, Replace(p) PROVE CacheInv'
  BY <1>7, WriteInv DEF Replace
<1>8. ASSUME NEW p \in Procs, LockAndRead(p) PROVE CacheInv'
  <2>1. /\ pc[p] = "lock" /\ lock = Free /\ lock' = p /\ disk' = disk
        /\ pc' = [pc EXCEPT ![p] = "replace"] /\ landed' = landed
        /\ files' = files /\ memo' = memo /\ capturing' = capturing /\ served' = served
    BY <1>8 DEF LockAndRead, LockFree
  <2>8. PICK recs \in Reads : job' = [job EXCEPT ![p].base = recs]
    BY <1>8 DEF LockAndRead
  <2>2. /\ job' \in [Procs -> Job] /\ job'[p].base \in {disk, Empty}
        /\ job'[p].draft = job[p].draft /\ \A q \in Procs \ {p} : job'[q] = job[q]
    BY <1>1, <2>8, ReadType DEF CacheTypes, Job
  <2>3. pc'[p] = "replace" /\ \A q \in Procs \ {p} : pc'[q] = pc[q]
    BY <1>1, <2>1 DEF CacheTypes
  <2>4. CacheTypes'
    BY <1>1, <2>1, <2>2 DEF CacheTypes
  <2>5. \A q \in Procs : pc[q] # "replace"
    BY <2>1, CacheAssumption DEF CacheInv, LockHeld
  <2>6. LockHeld'
    BY <2>1, <2>2, <2>3, <2>5 DEF LockHeld
  <2>7. OwnDraft'
    BY <2>1, <2>2, <2>3 DEF CacheInv, OwnDraft
  <2> QED
    BY <2>1, <2>4, <2>6, <2>7 DEF CacheInv, OwnSource
<1>9. ASSUME NEW p \in Procs, WriteFails(p) PROVE CacheInv'
  BY <1>9, WriteInv DEF WriteFails
<1>10. ASSUME NEW p \in Procs, Capture(p) PROVE CacheInv'
  BY <1>10 DEF Capture, CacheInv, CacheTypes, LockHeld, OwnDraft, OwnSource
<1>11. ASSUME NEW p \in Procs, Crash(p) PROVE CacheInv'
  <2>1. /\ pc' \in [Procs -> {"idle", "resolve", "lock", "replace"}]
        /\ job' \in [Procs -> Job] /\ pc'[p] = "idle"
        /\ \A q \in Procs \ {p} : pc'[q] = pc[q] /\ job'[q] = job[q]
    BY <1>1, <1>11, DoneFacts DEF Crash
  <2>2. /\ lock' \in Procs \union {Free}
        /\ \A q \in Procs \ {p} : pc[q] = "replace" => lock' = q
    BY <1>11, ReleaseFacts DEF Crash
  <2>3. CacheTypes'
    BY <1>1, <1>11, <2>1, <2>2, AbsentFacts DEF Crash, CacheTypes
  <2>4. LockHeld' /\ OwnDraft'
    BY <1>11, <2>1, <2>2 DEF Crash, CacheInv, LockHeld, OwnDraft
  <2>5. OwnSource'
    <3> SUFFICES ASSUME NEW q \in Procs, NEW b \in Buckets, memo'[q][b] # Absent
                 PROVE  memo'[q][b].id = Identity[q]
      BY DEF OwnSource
    <3>1. memo'[q][b] = memo[q][b]
      BY <1>1, <1>11, AbsentFacts DEF Crash, CacheTypes
    <3> QED
      BY <3>1 DEF CacheInv, OwnSource
  <2> QED
    BY <2>3, <2>4, <2>5 DEF CacheInv
<1>12. ASSUME NEW p \in Procs, NEW b \in Buckets, Call(p, b) PROVE CacheInv'
  <2>1. /\ job' \in [Procs -> Job] /\ \A q \in Procs \ {p} : job'[q] = job[q]
    BY <1>1, <1>12 DEF Call, CacheTypes, Job
  <2>2. /\ pc'[p] = "resolve" /\ \A q \in Procs \ {p} : pc'[q] = pc[q]
    BY <1>1, <1>12 DEF Call, CacheTypes
  <2>3. CacheTypes'
    BY <1>1, <1>12, <2>1 DEF Call, CacheTypes
  <2>4. LockHeld' /\ OwnDraft' /\ OwnSource'
    BY <1>12, <2>1, <2>2 DEF Call, CacheInv, LockHeld, OwnDraft, OwnSource
  <2> QED
    BY <2>3, <2>4 DEF CacheInv
<1>13. ASSUME NEW p \in Procs, NEW bs \in SUBSET Buckets, Seed(p, bs) PROVE CacheInv'
  <2>2. PICK recs \in Snapshots(p) :
          /\ files' = [files EXCEPT ![p] = recs]
          /\ job' = [job EXCEPT ![p].buckets = Landing(recs, bs),
                                ![p].draft = Record("seeded", "prior", p)]
          /\ pc' = [pc EXCEPT ![p] = "lock"]
          /\ UNCHANGED <<disk, lock, memo, capturing, served, landed>>
    BY <1>13 DEF Seed
  <2>1. /\ Landing(recs, bs) \in SUBSET Buckets
        /\ Record("seeded", "prior", p) \in Rec
        /\ Record("seeded", "prior", p).id = Identity[p]
        /\ Record("seeded", "prior", p).status = "seeded"
    BY RecordFacts, NameFacts DEF Landing
  <2> QED
    BY <2>1, <2>2, DraftInv
<1>14. ASSUME NEW p \in Procs, NEW bs \in SUBSET Buckets, SeedSkips(p, bs) PROVE CacheInv'
  <2>1. PICK recs \in Snapshots(p) : files' = [files EXCEPT ![p] = recs]
    BY <1>14 DEF SeedSkips
  <2>2. files' \in [Procs -> Records]
    BY <1>1, <2>1, SnapshotType DEF CacheTypes
  <2> QED
    BY <1>1, <1>14, <2>2 DEF SeedSkips, CacheInv, CacheTypes, LockHeld, OwnDraft, OwnSource
<1> QED
  BY <1>2, <1>3, <1>4, <1>5, <1>6, <1>7, <1>8, <1>9, <1>10, <1>11, <1>12, <1>13, <1>14
     DEF Next, Work

\* In every reachable state of the processes over the store file: a writer between
\* flock and os.replace holds the lock and has read what is on the disk, or nothing,
\* and drafts and memos are the process's own.
THEOREM Invariance == Spec => []CacheInv
  BY InitInv, StepInv, PTL DEF Spec

\* What a process has resolved was made by its own sources on its own device,
\* whatever the store file holds.
THEOREM ResolvedIsOwn == Spec => []OwnSource
<1>1. CacheInv => OwnSource
  BY DEF CacheInv
<1> QED
  BY <1>1, Invariance, PTL

\* A write to the store file sets the records it is for to what it was called
\* with.  It changes no other record, unless its own read under the lock failed:
\* then every other record is erased.
THEOREM WritesMerge == Spec => RecordsSurvive
<1>1. ASSUME CacheInv, [Next]_vars
      PROVE  [\A b \in Buckets : disk'[b] # disk[b] =>
                 \E p \in Procs :
                     /\ pc[p] = "replace"
                     /\ b \in job[p].buckets => disk'[b] = job[p].draft
                     /\ b \notin job[p].buckets => job[p].base = Empty /\ disk'[b] = Absent]_vars
  <2> SUFFICES ASSUME Next, NEW b \in Buckets, disk'[b] # disk[b]
               PROVE  \E p \in Procs :
                     /\ pc[p] = "replace"
                     /\ b \in job[p].buckets => disk'[b] = job[p].draft
                     /\ b \notin job[p].buckets => job[p].base = Empty /\ disk'[b] = Absent
    BY <1>1
  <2>1. PICK p \in Procs : Replace(p)
    BY <1>1 DEF Next, Work, ResolveOff, ResolveCapture, ResolveStore, Sweep, LockAndRead,
               WriteFails, Capture, Crash, Call, Seed, SeedSkips
  <2>2. pc[p] = "replace" /\ disk' = Merged(p)
    BY <2>1 DEF Replace
  <2>3. job[p].base \in {disk, Empty}
    BY <1>1, <2>2 DEF CacheInv, LockHeld
  <2>4. disk'[b] = IF b \in job[p].buckets THEN job[p].draft ELSE job[p].base[b]
    BY <2>2 DEF Merged, Updated
  <2> QED
    BY <2>2, <2>3, <2>4, AbsentFacts
<1> QED
  BY <1>1, Invariance, PTL DEF Spec, RecordsSurvive

-----------------------------------------------------------------------------
(* One config per bucket between two seeds of one's own *)

\* The configs of bucket b that p was given: one for each seed of its own that
\* it forgot its memo for, and the one the memo holds.
WithinBudget(p, b) ==
    /\ IsFiniteSet(served[p][b])
    /\ Cardinality(served[p][b]) <= landed[p] + (IF memo[p][b] = Absent THEN 0 ELSE 1)

\* A call of op_config is open only for buckets the memo knows nothing of.
CallOpen(p) ==
    \/ pc[p] = "resolve"
    \/ pc[p] \in {"lock", "replace"} /\ job[p].draft.status # "seeded"

OpenInv == \A p \in Procs : CallOpen(p) => \A b \in job[p].buckets : memo[p][b] = Absent

FrozenInv == (\A p \in Procs : \A b \in Buckets : WithinBudget(p, b)) /\ OpenInv

\* A call is answered and its answer frozen.
LEMMA FrozenResolve ==
    ASSUME CacheInv, FrozenInv, NEW p \in Procs, NEW bs \in SUBSET job[p].buckets,
           NEW r \in Rec, CallOpen(p), r # Absent, Done(p), Freeze(p, bs, r),
           landed' = landed
    PROVE  FrozenInv'
<1>1. CacheTypes /\ bs \in SUBSET Buckets
  BY DEF CacheInv, CacheTypes, Job
<1>2. Froze(p, bs, r)
  BY <1>1, FreezeFacts
<1>3. /\ pc'[p] = "idle"
      /\ \A q \in Procs \ {p} : pc'[q] = pc[q] /\ job'[q] = job[q]
  BY <1>1, DoneFacts
<1>4. ASSUME NEW q \in Procs, NEW b \in Buckets PROVE WithinBudget(q, b)'
  <2>1. CASE q = p /\ b \in bs
    <3>1. /\ served'[p][b] = served[p][b] \union {r.config}
          /\ memo'[p][b] # Absent /\ memo[p][b] = Absent
      BY <1>2, <2>1 DEF Froze, FrozenInv, OpenInv
    <3>2. IsFiniteSet(served[p][b]) /\ Cardinality(served[p][b]) <= landed[p]
      BY <1>1, <2>1, <3>1 DEF FrozenInv, WithinBudget, CacheTypes
    <3>3. /\ IsFiniteSet(served'[p][b])
          /\ Cardinality(served'[p][b]) <= Cardinality(served[p][b]) + 1
      <4>1. CASE r.config \in served[p][b]
        <5>1. served'[p][b] = served[p][b]
          BY <3>1, <4>1
        <5> QED
          BY <3>2, <5>1, FS_CardinalityType
      <4>2. CASE r.config \notin served[p][b]
        <5>1. /\ IsFiniteSet(served[p][b] \union {r.config})
              /\ Cardinality(served[p][b] \union {r.config}) = Cardinality(served[p][b]) + 1
          BY <3>2, <4>2, FS_AddElement
        <5>2. Cardinality(served[p][b]) + 1 \in Int
          BY <3>2, FS_CardinalityType
        <5> QED
          BY <3>1, <5>1, <5>2
      <4> QED
        BY <4>1, <4>2
    <3>4. Cardinality(served[p][b]) \in Nat /\ Cardinality(served'[p][b]) \in Nat /\ landed[p] \in Nat
      BY <1>1, <3>2, <3>3, FS_CardinalityType DEF CacheTypes
    <3> QED
      BY <2>1, <3>1, <3>2, <3>3, <3>4 DEF WithinBudget
  <2>2. CASE ~ (q = p /\ b \in bs)
    <3>1. memo'[q][b] = memo[q][b] /\ served'[q][b] = served[q][b]
      BY <1>2, <2>2 DEF Froze
    <3> QED
      BY <3>1 DEF FrozenInv, WithinBudget
  <2> QED
    BY <2>1, <2>2
<1>5. OpenInv'
  <2> SUFFICES ASSUME NEW q \in Procs, CallOpen(q)' PROVE (\A b \in job[q].buckets : memo[q][b] = Absent)'
    BY DEF OpenInv
  <2>1. q # p
    BY <1>3 DEF CallOpen
  <2> QED
    BY <1>2, <1>3, <2>1 DEF FrozenInv, OpenInv, CallOpen, Froze
<1> QED
  BY <1>4, <1>5 DEF FrozenInv

\* A step that leaves the memo and the history alone.
LEMMA FrozenQuiet ==
    ASSUME FrozenInv, NEW p \in Procs, UNCHANGED <<memo, served, landed>>,
           \A q \in Procs \ {p} : pc'[q] = pc[q] /\ job'[q] = job[q],
           CallOpen(p)' => \A b \in job'[p].buckets : memo[p][b] = Absent
    PROVE  FrozenInv'
<1>1. \A q \in Procs : \A b \in Buckets : WithinBudget(q, b)'
  BY DEF FrozenInv, WithinBudget
<1>2. OpenInv'
  <2> SUFFICES ASSUME NEW q \in Procs, CallOpen(q)' PROVE (\A b \in job[q].buckets : memo[q][b] = Absent)'
    BY DEF OpenInv
  <2>1. CASE q = p
    BY <2>1
  <2>2. CASE q # p
    BY <2>2 DEF FrozenInv, OpenInv, CallOpen
  <2> QED
    BY <2>1, <2>2
<1> QED
  BY <1>1, <1>2 DEF FrozenInv

\* A process forgets its memo: after a seed that it has written, or by dying.
LEMMA FrozenForget ==
    ASSUME CacheInv, FrozenInv, NEW p \in Procs, Done(p),
           memo' = [memo EXCEPT ![p] = Empty],
           \/ served' = served /\ landed' = [landed EXCEPT ![p] = landed[p] + 1]
           \/ /\ served' = [served EXCEPT ![p] = [b \in Buckets |-> {}]]
              /\ landed' = [landed EXCEPT ![p] = 0]
    PROVE  FrozenInv'
<1>1. CacheTypes
  BY DEF CacheInv
<1>2. /\ pc'[p] = "idle"
      /\ \A q \in Procs \ {p} : pc'[q] = pc[q] /\ job'[q] = job[q]
  BY <1>1, DoneFacts
<1>3. \A q \in Procs \ {p} : memo'[q] = memo[q] /\ served'[q] = served[q] /\ landed'[q] = landed[q]
  BY <1>1 DEF CacheTypes
<1>4. ASSUME NEW b \in Buckets PROVE WithinBudget(p, b)'
  <2>1. memo'[p][b] = Absent
    BY <1>1, AbsentFacts DEF CacheTypes
  <2>2. CASE served' = served /\ landed' = [landed EXCEPT ![p] = landed[p] + 1]
    <3>1. served'[p][b] = served[p][b] /\ landed'[p] = landed[p] + 1 /\ landed[p] \in Nat
      BY <1>1, <2>2 DEF CacheTypes
    <3>2. /\ IsFiniteSet(served[p][b])
          /\ Cardinality(served[p][b]) <= landed[p] + (IF memo[p][b] = Absent THEN 0 ELSE 1)
      BY DEF FrozenInv, WithinBudget
    <3>3. Cardinality(served[p][b]) \in Nat
      BY <3>2, FS_CardinalityType
    <3>4. Cardinality(served[p][b]) <= landed[p] + 1
      BY <3>1, <3>2, <3>3
    <3> QED
      BY <2>1, <3>1, <3>2, <3>3, <3>4 DEF WithinBudget
  <2>3. CASE /\ served' = [served EXCEPT ![p] = [c \in Buckets |-> {}]]
             /\ landed' = [landed EXCEPT ![p] = 0]
    <3>1. served'[p][b] = {} /\ landed'[p] = 0
      BY <1>1, <2>3 DEF CacheTypes
    <3> QED
      BY <2>1, <3>1, FS_EmptySet DEF WithinBudget
  <2> QED
    BY <2>2, <2>3
<1>5. \A q \in Procs : \A b \in Buckets : WithinBudget(q, b)'
  BY <1>3, <1>4 DEF FrozenInv, WithinBudget
<1>6. OpenInv'
  BY <1>2, <1>3 DEF FrozenInv, OpenInv, CallOpen
<1> QED
  BY <1>5, <1>6 DEF FrozenInv

\* A write ends: op_config freezes what it resolved, seed forgets or keeps.
LEMMA FrozenWrite ==
    ASSUME CacheInv, FrozenInv, NEW p \in Procs, NEW ok \in BOOLEAN,
           pc[p] \in {"lock", "replace"}, Conclude(p, ok), Done(p)
    PROVE  FrozenInv'
<1>1. CacheTypes
  BY DEF CacheInv
<1>2. CASE job[p].draft.status # "seeded"
  <2>1. job[p].draft # Absent /\ CallOpen(p)
    BY <1>2, AbsentFacts DEF CallOpen, CacheInv, OwnDraft
  <2>2. Freeze(p, job[p].buckets, job[p].draft) /\ landed' = landed
    BY <1>2 DEF Conclude
  <2>3. job[p].draft \in Rec /\ job[p].buckets \in SUBSET job[p].buckets
    BY <1>1 DEF CacheTypes, Job
  <2> QED
    BY <2>1, <2>2, <2>3, FrozenResolve
<1>3. CASE job[p].draft.status = "seeded" /\ ok
  <2>1. /\ served' = served /\ memo' = [memo EXCEPT ![p] = Empty]
        /\ landed' = [landed EXCEPT ![p] = landed[p] + 1]
    BY <1>3 DEF Conclude
  <2> QED
    BY <2>1, FrozenForget
<1>4. CASE job[p].draft.status = "seeded" /\ ~ ok
  <2>1. served' = served /\ memo' = memo /\ landed' = landed
    BY <1>1, <1>4 DEF Conclude, CacheTypes
  <2>2. /\ pc'[p] = "idle"
        /\ \A q \in Procs \ {p} : pc'[q] = pc[q] /\ job'[q] = job[q]
    BY <1>1, DoneFacts
  <2>3. ~ CallOpen(p)'
    BY <2>2 DEF CallOpen
  <2> QED
    BY <2>1, <2>2, <2>3, FrozenQuiet
<1> QED
  BY <1>2, <1>3, <1>4

LEMMA FrozenStep ==
    ASSUME CacheInv, FrozenInv, [Next]_vars
    PROVE  FrozenInv'
<1>1. CacheTypes
  BY DEF CacheInv
<1>2. CASE UNCHANGED vars
  BY <1>2 DEF vars, FrozenInv, WithinBudget, OpenInv, CallOpen
<1>3. ASSUME NEW p \in Procs, ResolveOff(p) \/ ResolveCapture(p) PROVE FrozenInv'
  <2>1. PICK st \in {"off", "capture"} : Freeze(p, job[p].buckets, Record(st, "default", p))
    BY <1>3 DEF ResolveOff, ResolveCapture
  <2>2. pc[p] = "resolve" /\ Done(p) /\ landed' = landed
    BY <1>3 DEF ResolveOff, ResolveCapture
  <2>3. Record(st, "default", p) \in Rec /\ Record(st, "default", p).status = st
    BY RecordFacts, NameFacts
  <2>4. Record(st, "default", p) # Absent
    BY <2>3, AbsentFacts
  <2>5. job[p].buckets \in SUBSET job[p].buckets /\ CallOpen(p)
    BY <2>2 DEF CallOpen
  <2> QED
    BY <2>1, <2>2, <2>3, <2>4, <2>5, FrozenResolve
<1>4. ASSUME NEW p \in Procs, ResolveStore(p) PROVE FrozenInv'
  <2>1. PICK b \in job[p].buckets, recs \in Snapshots(p) :
          /\ pc[p] = "resolve" /\ Valid(p, recs[b]) /\ landed' = landed
          /\ Done(p) /\ Freeze(p, {b}, recs[b])
    BY <1>4 DEF ResolveStore
  <2>2. {b} \in SUBSET job[p].buckets /\ recs[b] \in Rec /\ CallOpen(p)
    BY <1>1, <2>1, SnapshotType DEF CacheTypes, Job, Records, CallOpen
  <2>3. recs[b] # Absent
    BY <2>1, AbsentFacts DEF Valid
  <2> QED
    BY <2>1, <2>2, <2>3, FrozenResolve
<1>5. ASSUME NEW p \in Procs, Sweep(p) PROVE FrozenInv'
  <2>1. /\ pc[p] = "resolve" /\ UNCHANGED <<memo, served, landed>>
        /\ pc' = [pc EXCEPT ![p] = "lock"]
        /\ \E r : job' = [job EXCEPT ![p].draft = r]
    BY <1>5 DEF Sweep
  <2>2. /\ job'[p].buckets = job[p].buckets
        /\ \A q \in Procs \ {p} : pc'[q] = pc[q] /\ job'[q] = job[q]
    BY <1>1, <2>1 DEF CacheTypes, Job
  <2>3. \A b \in job'[p].buckets : memo[p][b] = Absent
    BY <2>1, <2>2 DEF FrozenInv, OpenInv, CallOpen
  <2> QED
    BY <2>1, <2>2, <2>3, FrozenQuiet
<1>6. ASSUME NEW p \in Procs, Replace(p) \/ WriteFails(p) PROVE FrozenInv'
  <2>1. PICK ok \in BOOLEAN : Conclude(p, ok)
    BY <1>6 DEF Replace, WriteFails
  <2>2. pc[p] \in {"lock", "replace"} /\ Done(p)
    BY <1>6 DEF Replace, WriteFails
  <2> QED
    BY <2>1, <2>2, FrozenWrite
<1>7. ASSUME NEW p \in Procs, LockAndRead(p) PROVE FrozenInv'
  <2>1. PICK recs : job' = [job EXCEPT ![p].base = recs]
    BY <1>7 DEF LockAndRead
  <2>2. /\ pc[p] = "lock" /\ pc'[p] = "replace"
        /\ job'[p].buckets = job[p].buckets /\ job'[p].draft = job[p].draft
        /\ \A q \in Procs \ {p} : pc'[q] = pc[q] /\ job'[q] = job[q]
        /\ UNCHANGED <<memo, served, landed>>
    BY <1>1, <1>7, <2>1 DEF LockAndRead, CacheTypes, Job
  <2>3. CallOpen(p)' => \A b \in job'[p].buckets : memo[p][b] = Absent
    BY <2>2 DEF FrozenInv, OpenInv, CallOpen
  <2> QED
    BY <2>2, <2>3, FrozenQuiet
<1>8. ASSUME NEW p \in Procs, Capture(p) PROVE FrozenInv'
  BY <1>8 DEF Capture, FrozenInv, WithinBudget, OpenInv, CallOpen
<1>9. ASSUME NEW p \in Procs, Crash(p) PROVE FrozenInv'
  BY <1>9, FrozenForget DEF Crash
<1>10. ASSUME NEW p \in Procs, NEW b \in Buckets, Call(p, b) PROVE FrozenInv'
  <2>1. /\ memo[p][b] = Absent /\ job'[p].buckets = {b}
        /\ \A q \in Procs \ {p} : pc'[q] = pc[q] /\ job'[q] = job[q]
        /\ UNCHANGED <<memo, served, landed>>
    BY <1>1, <1>10 DEF Call, CacheTypes, Job
  <2> QED
    BY <2>1, FrozenQuiet
<1>11. ASSUME NEW p \in Procs, NEW bs \in SUBSET Buckets, Seed(p, bs) PROVE FrozenInv'
  <2>1. PICK recs : job' = [job EXCEPT ![p].buckets = Landing(recs, bs),
                                       ![p].draft = Record("seeded", "prior", p)]
    BY <1>11 DEF Seed
  <2>2. /\ pc'[p] = "lock" /\ job'[p].draft = Record("seeded", "prior", p)
        /\ \A q \in Procs \ {p} : pc'[q] = pc[q] /\ job'[q] = job[q]
        /\ UNCHANGED <<memo, served, landed>>
    BY <1>1, <1>11, <2>1 DEF Seed, CacheTypes, Job
  <2>3. ~ CallOpen(p)'
    BY <2>2 DEF CallOpen, Record
  <2> QED
    BY <2>2, <2>3, FrozenQuiet
<1>12. ASSUME NEW p \in Procs, NEW bs \in SUBSET Buckets, SeedSkips(p, bs) PROVE FrozenInv'
  BY <1>12 DEF SeedSkips, FrozenInv, WithinBudget, OpenInv, CallOpen
<1> QED
  BY <1>2, <1>3, <1>4, <1>5, <1>6, <1>7, <1>8, <1>9, <1>10, <1>11, <1>12 DEF Next, Work

\* In the life of a process, op_config returns to it one config per bucket, and
\* at most one more for each seed of its own that it has written: what other
\* processes tune and seed, captures, failed reads and failed writes change
\* nothing that was served.
THEOREM ConfigsFrozen == Spec => []Frozen
<1>1. Init => FrozenInv
  <2> SUFFICES ASSUME Init PROVE FrozenInv
    OBVIOUS
  <2>1. \A p \in Procs : /\ pc[p] = "idle" /\ landed[p] = 0
                         /\ \A b \in Buckets : served[p][b] = {} /\ memo[p][b] = Absent
    BY AbsentFacts DEF Init
  <2>2. IsFiniteSet({}) /\ Cardinality({}) = 0
    BY FS_EmptySet
  <2>3. \A p \in Procs : \A b \in Buckets : WithinBudget(p, b)
    <3> SUFFICES ASSUME NEW p \in Procs, NEW b \in Buckets PROVE WithinBudget(p, b)
      OBVIOUS
    <3>1. IsFiniteSet(served[p][b]) /\ Cardinality(served[p][b]) = 0
      BY <2>1, <2>2, Zenon
    <3> QED
      BY <2>1, <3>1 DEF WithinBudget
  <2>4. OpenInv
    BY <2>1 DEF OpenInv, CallOpen
  <2> QED
    BY <2>3, <2>4 DEF FrozenInv
<1>2. CacheInv /\ FrozenInv /\ [Next]_vars => FrozenInv'
  BY FrozenStep
<1>3. CacheInv /\ FrozenInv => Frozen
  <2> SUFFICES ASSUME CacheInv, FrozenInv, NEW p \in Procs, NEW b \in Buckets
               PROVE  Cardinality(served[p][b]) <= 1 + landed[p]
    BY DEF Frozen
  <2>1. Cardinality(served[p][b]) \in Nat /\ landed[p] \in Nat
    BY FS_CardinalityType DEF FrozenInv, WithinBudget, CacheInv, CacheTypes
  <2> QED
    BY <2>1 DEF FrozenInv, WithinBudget
<1> QED
  BY <1>1, <1>2, <1>3, Invariance, PTL DEF Spec
=============================================================================

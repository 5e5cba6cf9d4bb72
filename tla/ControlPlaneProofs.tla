------------------------- MODULE ControlPlaneProofs -------------------------
(***************************************************************************)
(* Proofs about ControlPlane for any number of clients, cancels,           *)
(* specifications, result directories and faults.                          *)
(***************************************************************************)
EXTENDS ControlPlane, TLAPS

\* Past planning, and whenever a call was answered with a run, the specification
\* is a real one.
CallInv ==
  \A s \in Submitters : sub[s].pc \in Working \cup Succeeded => sub[s].fp \in Fingerprints

\* Whatever has got as far as Kubernetes has its manifest in its directory.
ManifestInv ==
  /\ ManagedJob => dirManifest[labelOf[job.fp]] = job.fp
  /\ \A f \in pods : dirManifest[labelOf[f]] = f
  /\ \A s \in Submitters : sub[s].pc \in Calling => dirManifest[Dir(s)] = sub[s].fp

\* Past the index entry a submission's specification is the entry's.
IndexInv ==
  ~removed => \A s \in Submitters : sub[s].pc \in {"dir"} \cup Calling => sub[s].fp = index

\* A submission that began on old artifacts finds the entry and hence the artifacts,
\* unless a Job is there: it never gets to create one.
StaleInv ==
  \A s \in Submitters : sub[s].stale =>
    /\ sub[s].pc \in Working => artifacts[Dir(s)] # {}
    /\ ~removed => /\ sub[s].pc \in {"dir", "getjob"} => sub[s].existed
                   /\ sub[s].pc = "upsert" => sub[s].uid # 0
                   /\ sub[s].pc # "create"

\* UIDs name Jobs, and every call at work for an uncontested Job has its UID.
OwnerInv ==
  /\ ManagedJob <=> job.uid # 0
  /\ \A s \in Submitters :
       /\ sub[s].pc \in Working \ {"upsert", "attach"} => sub[s].uid = 0
       /\ sub[s].pc \in {"attach", "created", "existing"} => sub[s].uid # 0
       /\ sub[s].uid # 0 /\ sub[s].uid = job.uid => sub[s].fp = job.fp
  /\ ManagedJob /\ ~job.contested =>
       /\ \A c \in Cancellers : can[c].pc \notin {"getservice", "deleteservice"}
       /\ \A s \in Submitters : sub[s].pc \in {"upsert", "attach"} /\ sub[s].uid # 0
                                  => sub[s].uid = job.uid

Inv ==
  /\ CallInv /\ ManifestInv /\ IndexInv /\ StaleInv /\ OwnerInv
  /\ OneSource /\ OneSpecification /\ NoStaleRerun /\ ServiceOfRun

IInv == TypeOK /\ Inv

-----------------------------------------------------------------------------
(* Typing. Every record keeps its fields, and UIDs only grow.              *)

SubType(u) ==
  [pc : {"idle", "error"} \cup Working \cup Answered, fp : Fingerprints \cup {None},
   existed : BOOLEAN, uid : 0..u, created : BOOLEAN, stale : BOOLEAN]

LEMMA FreshType ==
  ASSUME NEW u \in Nat, NEW p \in {"idle", "error"} \cup Working \cup Answered,
         NEW f \in Fingerprints \cup {None}
  PROVE  Fresh(p, f) \in SubType(u)
BY DEF Fresh, SubType

LEMMA TypeInit == Init => TypeOK
<1> SUFFICES ASSUME Init PROVE TypeOK OBVIOUS
<1>1. labelOf \in [Fingerprints -> Labels] BY ControlPlaneAssumption DEF Init
<1>2. lastUid \in Nat /\ lastUid = 0 BY DEF Init
<1>3. job \in [fp : Fingerprints \cup {None, Foreign}, uid : 0..lastUid,
               phase : {"none", "pending", "running", "ended"}, contested : BOOLEAN]
  <2> DEFINE JobType == [fp : Fingerprints \cup {None, Foreign}, uid : 0..lastUid,
                         phase : {"none", "pending", "running", "ended"}, contested : BOOLEAN]
  <2>1. NoJob \in JobType BY <1>2 DEF NoJob
  <2>2. ForeignJob \in JobType BY <1>2 DEF ForeignJob
  <2> QED BY <2>1, <2>2 DEF Init
<1>4. service \in [fp : Fingerprints \cup {None, Foreign}, owner : 0..lastUid]
  BY <1>2 DEF Init, NoService
<1>5. sub \in [Submitters -> SubType(lastUid)]
  BY <1>2, FreshType DEF Init
<1>6. can \in [Cancellers -> [pc : {"idle", "over"} \cup Cancelling,
                              fp : Fingerprints \cup {None}, uid : 0..lastUid]]
  BY <1>2 DEF Init
<1>7. faults \in 0..MaxFaults BY ControlPlaneAssumption DEF Init
<1>8. removed \in BOOLEAN /\ overlaid \in BOOLEAN BY Zenon DEF Init
<1> QED BY <1>1, <1>2, <1>3, <1>4, <1>5, <1>6, <1>7, <1>8 DEF Init, TypeOK, SubType

\* The moves of a submission.
LEMMA MoveTypes ==
  ASSUME TypeOK, NEW s \in Submitters,
         NEW p \in {"idle", "error"} \cup Working \cup Answered
  PROVE  /\ Goto(s, p) => sub' \in [Submitters -> SubType(lastUid)]
         /\ Fail(s, p) => sub' \in [Submitters -> SubType(lastUid)]
         /\ Return(s, p) => sub' \in [Submitters -> SubType(lastUid)]
<1>1. sub \in [Submitters -> SubType(lastUid)] BY DEF TypeOK, SubType
<1>2. sub[s] \in SubType(lastUid) BY <1>1
<1>3. [sub[s] EXCEPT !.pc = p] \in SubType(lastUid) BY <1>2 DEF SubType
<1>4. Fresh(p, None) \in SubType(lastUid) BY FreshType DEF TypeOK
<1>5. [Fresh(p, sub[s].fp) EXCEPT !.uid = sub[s].uid] \in SubType(lastUid)
  BY <1>2 DEF SubType, Fresh
<1> QED BY <1>1, <1>3, <1>4, <1>5 DEF Goto, Fail, Return

LEMMA TypeSubmitter ==
  ASSUME TypeOK, CallInv, NEW s \in Submitters,
         SubmitterStep(s) \/ StorageFails(s) \/ CallFails(s)
  PROVE  TypeOK'
<1> DEFINE T == SubType(lastUid)
<1>0. sub \in [Submitters -> T] /\ sub[s] \in T /\ lastUid \in Nat
  BY DEF TypeOK, SubType
<1>1. \A f \in Fingerprints : PlanBenchmark(s, f) => sub' \in [Submitters -> T]
  <2> SUFFICES ASSUME NEW f \in Fingerprints, PlanBenchmark(s, f) PROVE sub' \in [Submitters -> T]
    OBVIOUS
  <2>1. [Fresh("index", f) EXCEPT !.stale = artifacts[labelOf[f]] # {}] \in T
    <3>1. \A b \in BOOLEAN : [Fresh("index", f) EXCEPT !.stale = b] \in T
      <4>1. Fresh("index", f) \in T BY <1>0, FreshType DEF Working, Persisting
      <4>2. \A r \in T : \A b \in BOOLEAN : [r EXCEPT !.stale = b] \in T BY DEF SubType
      <4> QED BY <4>1, <4>2
    <3>2. (artifacts[labelOf[f]] # {}) \in BOOLEAN OBVIOUS
    <3> QED BY <3>1, <3>2, Zenon
  <2> QED BY <1>0, <2>1, MoveTypes DEF PlanBenchmark, Answered
<1>2. CASE Submit(s)
  <2>1. \A f \in Fingerprints : Fresh("compile", f) \in T BY <1>0, FreshType DEF Working
  <2>2. sub' \in [Submitters -> T] BY <1>0, <1>1, <1>2, <2>1 DEF Submit
  <2> QED BY <1>2, <2>2 DEF Submit, TypeOK, SubType, store, cluster, history
<1>3. CASE AcquireSlot(s)
  <2>1. sub' \in [Submitters -> T] BY <1>3, MoveTypes DEF AcquireSlot, Working
  <2> QED BY <1>3, <2>1 DEF AcquireSlot, TypeOK, SubType, store, cluster, history
<1>4. CASE Compiled(s)
  <2>1. sub' \in [Submitters -> T] BY <1>1, <1>4 DEF Compiled, CallInv, Working
  <2> QED BY <1>4, <2>1 DEF Compiled, TypeOK, SubType, store, cluster, history
<1>5. CASE PersistIndex(s)
  <2>1. sub[s].fp \in Fingerprints
    BY <1>5 DEF PersistIndex, CreateIndexEntry, ValidateIndexEntry, CallInv, Working, Persisting
  <2>2. CASE CreateIndexEntry(s)
    <3>1. sub' \in [Submitters -> T] BY <2>2, MoveTypes DEF CreateIndexEntry, Working, Persisting
    <3> QED BY <2>1, <2>2, <3>1 DEF CreateIndexEntry, TypeOK, SubType, cluster, history
  <2>3. CASE ValidateIndexEntry(s)
    <3>1. [sub[s] EXCEPT !.pc = "dir", !.existed = TRUE] \in T BY <1>0 DEF SubType, Working, Persisting
    <3>2. sub' \in [Submitters -> T] BY <1>0, <2>3, <3>1, MoveTypes DEF ValidateIndexEntry, Answered
    <3> QED BY <2>3, <3>2 DEF ValidateIndexEntry, TypeOK, SubType, store, cluster, history
  <2> QED BY <1>5, <2>2, <2>3 DEF PersistIndex
<1>6. CASE PersistDirectory(s) \/ StorageFails(s)
  <2>1. sub[s].fp \in Fingerprints
    BY <1>6 DEF PersistDirectory, StorageFails, CallInv, Working, Persisting
  <2>2. sub' \in [Submitters -> T]
    BY <1>6, MoveTypes DEF PersistDirectory, StorageFails, GiveUpDirectory, Working, Calling, Answered
  <2>3. index' \in Fingerprints \cup {None}
    BY <1>6 DEF PersistDirectory, StorageFails, GiveUpDirectory, TypeOK
  <2>4. removed' \in BOOLEAN BY <1>6 DEF PersistDirectory, StorageFails, GiveUpDirectory, TypeOK
  <2>5. faults' \in 0..MaxFaults
    BY <1>6, ControlPlaneAssumption DEF PersistDirectory, StorageFails, TypeOK
  <2>6. dirManifest' \in [Labels -> Fingerprints \cup {None}]
    BY <1>6, <2>1 DEF PersistDirectory, StorageFails, TypeOK
  <2>7. UNCHANGED <<labelOf, cluster, slot, can, overlaid>> BY <1>6 DEF PersistDirectory, StorageFails
  <2> QED BY <2>2, <2>3, <2>4, <2>5, <2>6, <2>7 DEF TypeOK, SubType, cluster
<1>7. CASE GetJob(s)
  <2>1. [sub[s] EXCEPT !.pc = "upsert", !.uid = job.uid] \in T BY <1>0 DEF SubType, TypeOK, Working, Calling
  <2>2. sub' \in [Submitters -> T]
    BY <1>0, <1>7, <2>1, MoveTypes DEF GetJob, Working, Calling, Answered
  <2> QED BY <1>7, <2>2 DEF GetJob, TypeOK, SubType, store, cluster, history
<1>8. CASE HasBenchmarkArtifacts(s)
  <2>1. sub' \in [Submitters -> T]
    BY <1>8, MoveTypes DEF HasBenchmarkArtifacts, Working, Calling, Answered, Succeeded
  <2> QED BY <1>8, <2>1 DEF HasBenchmarkArtifacts, TypeOK, SubType, store, cluster, history
<1>9. CASE UpsertManagedService(s)
  <2>1. sub' \in [Submitters -> T] BY <1>9, MoveTypes DEF UpsertManagedService, Working, Calling, Answered
  <2>2. sub[s].fp \in Fingerprints BY <1>9 DEF UpsertManagedService, CallInv, Working, Calling
  <2>3. service' \in [fp : Fingerprints \cup {None, Foreign}, owner : 0..lastUid]
    BY <1>0, <1>9, <2>2 DEF UpsertManagedService, TypeOK
  <2> QED BY <1>9, <2>1, <2>3 DEF UpsertManagedService, TypeOK, SubType, store, history
<1>10. CASE CreateJob(s)
  <2>1. sub[s].fp \in Fingerprints BY <1>10 DEF CreateJob, CallInv, Working, Calling
  <2>2. CASE job = NoJob
    <3>1. lastUid' = lastUid + 1 /\ 0..lastUid \subseteq 0..lastUid' /\ lastUid' \in 0..lastUid'
      BY <1>0, <1>10, <2>2 DEF CreateJob
    <3>2. Lingering \in BOOLEAN BY DEF Lingering
    <3>3. job' \in [fp : Fingerprints \cup {None, Foreign}, uid : 0..lastUid',
                    phase : {"none", "pending", "running", "ended"}, contested : BOOLEAN]
      BY <1>10, <2>1, <2>2, <3>1, <3>2 DEF CreateJob
    <3>4. T \subseteq SubType(lastUid') BY <3>1 DEF SubType
    <3>5. [sub[s] EXCEPT !.pc = "attach", !.uid = lastUid', !.created = TRUE] \in SubType(lastUid')
      BY <1>0, <3>1 DEF SubType, Working, Calling
    <3>6. sub' \in [Submitters -> SubType(lastUid')] BY <1>0, <1>10, <2>2, <3>4, <3>5 DEF CreateJob
    <3>7. overlaid' \in BOOLEAN BY <1>0, <1>10, <2>2 DEF CreateJob, TypeOK, SubType
    <3>8. UNCHANGED <<labelOf, store, service, pods, artifacts, slot, can, faults, removed>>
      BY <1>10 DEF CreateJob
    <3> QED BY <1>0, <3>1, <3>3, <3>6, <3>7, <3>8 DEF TypeOK, SubType, store
  <2>3. CASE job # NoJob
    <3>1. [sub[s] EXCEPT !.pc = "attach", !.uid = job.uid] \in T BY <1>0 DEF SubType, TypeOK, Working, Calling
    <3>2. sub' \in [Submitters -> T] BY <1>0, <1>10, <2>3, <3>1, MoveTypes DEF CreateJob, Answered
    <3> QED BY <1>10, <2>3, <3>2 DEF CreateJob, TypeOK, SubType, store
  <2> QED BY <2>2, <2>3
<1>11. CASE AttachServiceOwner(s)
  <2>1. sub' \in [Submitters -> T]
    BY <1>11, MoveTypes DEF AttachServiceOwner, Working, Answered, Succeeded
  <2>2. service' \in [fp : Fingerprints \cup {None, Foreign}, owner : 0..lastUid]
    BY <1>0, <1>11 DEF AttachServiceOwner, TypeOK, SubType
  <2> QED BY <1>11, <2>1, <2>2 DEF AttachServiceOwner, TypeOK, SubType, store, history
<1>12. CASE CallFails(s)
  <2>1. sub' \in [Submitters -> T] BY <1>12, MoveTypes DEF CallFails
  <2>2. faults' \in 0..MaxFaults BY <1>12, ControlPlaneAssumption DEF CallFails, TypeOK
  <2> QED BY <1>12, <2>1, <2>2 DEF CallFails, TypeOK, SubType, store, cluster, history
<1> QED
  BY <1>2, <1>3, <1>4, <1>5, <1>6, <1>7, <1>8, <1>9, <1>10, <1>11, <1>12 DEF SubmitterStep

\* A step of a cancel, of Kubernetes or a restart.
LEMMA TypeOther ==
  ASSUME TypeOK, (\E c \in Cancellers : CancelStep(c) \/ CancelFails(c)) \/ Kubernetes \/ Restart
  PROVE  TypeOK'
<1> DEFINE C == [pc : {"idle", "over"} \cup Cancelling, fp : Fingerprints \cup {None}, uid : 0..lastUid]
           J == [fp : Fingerprints \cup {None, Foreign}, uid : 0..lastUid,
                 phase : {"none", "pending", "running", "ended"}, contested : BOOLEAN]
<1>0. /\ lastUid \in Nat /\ can \in [Cancellers -> C] /\ job \in J
      /\ NoJob \in J /\ NoService \in [fp : Fingerprints \cup {None, Foreign}, owner : 0..lastUid]
  BY DEF TypeOK, NoJob, NoService
<1>1. ASSUME NEW c \in Cancellers, CancelStep(c) \/ CancelFails(c) PROVE TypeOK'
  <2>1. can' \in [Cancellers -> C]
    BY <1>0, <1>1 DEF CancelStep, CancelGetJob, CancelDeleteJob, CancelGetService, CancelDeleteService,
                      CancelFails, Cancelling, ManagedJob
  <2>2. job' \in J /\ lastUid' = lastUid
    BY <1>0, <1>1 DEF CancelStep, CancelGetJob, CancelDeleteJob, CancelGetService, CancelDeleteService,
                      CancelFails, cluster
  <2>3. service' \in [fp : Fingerprints \cup {None, Foreign}, owner : 0..lastUid]
    BY <1>0, <1>1 DEF CancelStep, CancelGetJob, CancelDeleteJob, CancelGetService, CancelDeleteService,
                      CancelFails, cluster, TypeOK
  <2>4. faults' \in 0..MaxFaults
    BY <1>1, ControlPlaneAssumption DEF CancelStep, CancelGetJob, CancelDeleteJob, CancelGetService,
                      CancelDeleteService, CancelFails, TypeOK
  <2>5. UNCHANGED <<labelOf, index, dirManifest, artifacts, pods, slot, sub, removed, overlaid>>
    BY <1>1 DEF CancelStep, CancelGetJob, CancelDeleteJob, CancelGetService, CancelDeleteService,
                CancelFails, cluster, store, history
  <2> QED BY <2>1, <2>2, <2>3, <2>4, <2>5 DEF TypeOK
<1>2. CASE StartPods \/ JobEnds \/ Expire
  <2>1. job' \in J BY <1>0, <1>2 DEF StartPods, JobEnds, Expire
  <2>2. pods' \subseteq Fingerprints BY <1>2 DEF StartPods, JobEnds, Expire, ManagedJob, TypeOK
  <2>3. faults' \in 0..MaxFaults BY <1>2, ControlPlaneAssumption DEF StartPods, JobEnds, Expire, TypeOK
  <2> QED BY <1>2, <2>1, <2>2, <2>3 DEF StartPods, JobEnds, Expire, TypeOK, store, history
<1>3. CASE CollectService
  BY <1>0, <1>3 DEF CollectService, TypeOK, store, history
<1>4. ASSUME NEW f \in Fingerprints, WriteArtifacts(f) \/ StopPods(f) PROVE TypeOK'
  BY <1>4 DEF WriteArtifacts, StopPods, TypeOK, store, history
<1>5. CASE Restart
  <2>1. sub' \in [Submitters -> SubType(lastUid)]
    <3>1. Fresh("error", None) \in SubType(lastUid) BY <1>0, FreshType
    <3>2. sub \in [Submitters -> SubType(lastUid)] BY DEF TypeOK, SubType
    <3> QED BY <1>5, <3>1, <3>2 DEF Restart
  <2>2. can' \in [Cancellers -> C]
    <3>1. \A r \in C : [r EXCEPT !.pc = "over"] \in C OBVIOUS
    <3> QED BY <1>0, <1>5, <3>1 DEF Restart
  <2>3. faults' \in 0..MaxFaults /\ slot' = None BY <1>5, ControlPlaneAssumption DEF Restart, TypeOK
  <2> QED BY <1>5, <2>1, <2>2, <2>3 DEF Restart, TypeOK, SubType, store, cluster, history
<1> QED BY <1>1, <1>2, <1>3, <1>4, <1>5 DEF Kubernetes

-----------------------------------------------------------------------------
(* What a step does to a submission, field by field.                       *)

\* Submission s is in state p for specification f, and no other one has moved.
Moved(s, p, f) ==
  /\ \A t \in Submitters : t # s => sub'[t] = sub[t]
  /\ sub'[s].pc = p /\ sub'[s].fp = f

\* The same, the rest of the submission as it was.
MovedOn(s, p) ==
  /\ Moved(s, p, sub[s].fp)
  /\ sub'[s].existed = sub[s].existed /\ sub'[s].uid = sub[s].uid /\ sub'[s].stale = sub[s].stale

\* The same, nothing done yet.
MovedBack(s, p, f) ==
  /\ Moved(s, p, f)
  /\ sub'[s].existed = FALSE /\ sub'[s].uid = 0 /\ sub'[s].stale = FALSE

LEMMA Moves ==
  ASSUME TypeOK, NEW s \in Submitters, NEW p
  PROVE  /\ Goto(s, p) => MovedOn(s, p)
         /\ Fail(s, p) => MovedBack(s, p, None)
         /\ Return(s, p) => /\ Moved(s, p, sub[s].fp) /\ sub'[s].uid = sub[s].uid
                            /\ sub'[s].stale = FALSE
<1>1. sub \in [Submitters -> SubType(lastUid)] /\ sub[s] \in SubType(lastUid) BY DEF TypeOK, SubType
<1>2. /\ [sub[s] EXCEPT !.pc = p].pc = p
      /\ [sub[s] EXCEPT !.pc = p].fp = sub[s].fp
      /\ [sub[s] EXCEPT !.pc = p].existed = sub[s].existed
      /\ [sub[s] EXCEPT !.pc = p].uid = sub[s].uid
      /\ [sub[s] EXCEPT !.pc = p].stale = sub[s].stale
  BY <1>1 DEF SubType
<1>3. Goto(s, p) => sub'[s] = [sub[s] EXCEPT !.pc = p] /\ \A t \in Submitters : t # s => sub'[t] = sub[t]
  BY <1>1 DEF Goto
<1>4. Goto(s, p) => MovedOn(s, p) BY <1>2, <1>3 DEF MovedOn, Moved
<1>5. Fail(s, p) => MovedBack(s, p, None) BY <1>1 DEF Fail, MovedBack, Moved, Fresh
<1>6. Return(s, p) => Moved(s, p, sub[s].fp) /\ sub'[s].uid = sub[s].uid /\ sub'[s].stale = FALSE
  BY <1>1 DEF Return, Moved, Fresh
<1> QED BY <1>4, <1>5, <1>6

\* Planning ends with a refusal or on the way to the index.
LEMMA PlanMoves ==
  ASSUME TypeOK, NEW s \in Submitters, NEW f \in Fingerprints, PlanBenchmark(s, f)
  PROVE  \/ MovedBack(s, "rejected", None)
         \/ /\ Moved(s, "index", f) /\ sub'[s].uid = 0
            /\ sub'[s].stale => artifacts[labelOf[f]] # {}
<1>1. sub \in [Submitters -> SubType(lastUid)] BY DEF TypeOK, SubType
<1>2. CASE Fail(s, "rejected") BY <1>2, Moves
<1>3. CASE sub' = [sub EXCEPT ![s] = [Fresh("index", f) EXCEPT !.stale = artifacts[labelOf[f]] # {}]]
  <2> DEFINE b == artifacts[labelOf[f]] # {}
             r == [Fresh("index", f) EXCEPT !.stale = b]
  <2>1. r.pc = "index" /\ r.fp = f /\ r.uid = 0 /\ r.stale = b BY DEF Fresh
  <2>2. sub'[s] = r /\ \A t \in Submitters : t # s => sub'[t] = sub[t] BY <1>1, <1>3
  <2> QED BY <2>1, <2>2 DEF Moved
<1> QED BY <1>2, <1>3 DEF PlanBenchmark

\* The moves that set a field.
LEMMA SettingMoves ==
  ASSUME TypeOK, NEW s \in Submitters, NEW p, NEW u
  PROVE  /\ sub' = [sub EXCEPT ![s].pc = p, ![s].existed = TRUE]
              => /\ Moved(s, p, sub[s].fp) /\ sub'[s].existed = TRUE
                 /\ sub'[s].uid = sub[s].uid /\ sub'[s].stale = sub[s].stale
         /\ sub' = [sub EXCEPT ![s].pc = p, ![s].uid = u]
              => Moved(s, p, sub[s].fp) /\ sub'[s].uid = u /\ sub'[s].stale = sub[s].stale
         /\ sub' = [sub EXCEPT ![s].pc = p, ![s].uid = u, ![s].created = TRUE]
              => Moved(s, p, sub[s].fp) /\ sub'[s].uid = u /\ sub'[s].stale = sub[s].stale
<1>1. sub \in [Submitters -> SubType(lastUid)] /\ sub[s] \in SubType(lastUid) BY DEF TypeOK, SubType
<1>2. sub' = [sub EXCEPT ![s].pc = p, ![s].existed = TRUE]
              => /\ Moved(s, p, sub[s].fp) /\ sub'[s].existed = TRUE
                 /\ sub'[s].uid = sub[s].uid /\ sub'[s].stale = sub[s].stale
  BY <1>1 DEF SubType, Moved
<1>3. sub' = [sub EXCEPT ![s].pc = p, ![s].uid = u]
              => Moved(s, p, sub[s].fp) /\ sub'[s].uid = u /\ sub'[s].stale = sub[s].stale
  BY <1>1 DEF SubType, Moved
<1>4. sub' = [sub EXCEPT ![s].pc = p, ![s].uid = u, ![s].created = TRUE]
              => Moved(s, p, sub[s].fp) /\ sub'[s].uid = u /\ sub'[s].stale = sub[s].stale
  BY <1>1 DEF SubType, Moved
<1> QED BY <1>2, <1>3, <1>4

-----------------------------------------------------------------------------
(* The invariant, action by action.                                        *)

world == <<labelOf, index, dirManifest, artifacts, job, service, pods, lastUid, can, removed, overlaid>>

\* A call that ends without a run, all else as it was, breaks nothing.
LEMMA EndedInv ==
  ASSUME IInv, NEW s \in Submitters, NEW p \in {"error", "rejected", "mismatch"},
         MovedBack(s, p, None), UNCHANGED world
  PROVE  Inv'
<1> USE DEF IInv, Inv, MovedBack, Moved, world
<1>1. CallInv' BY DEF CallInv, Working, Persisting, Calling, Succeeded
<1>2. ManifestInv' BY DEF ManifestInv, ManagedJob, Dir, Calling
<1>3. IndexInv' BY DEF IndexInv, Calling
<1>4. StaleInv' BY DEF StaleInv, Dir
<1>5. OwnerInv' BY DEF OwnerInv, ManagedJob, Working, Persisting, Calling
<1>6. OneSource' /\ NoStaleRerun' BY DEF OneSource, NoStaleRerun
<1>7. OneSpecification' BY DEF OneSpecification, Succeeded
<1>8. ServiceOfRun' BY DEF ServiceOfRun
<1> QED BY <1>1, <1>2, <1>3, <1>4, <1>5, <1>6, <1>7, <1>8

\* Planning.
LEMMA PlanInv ==
  ASSUME IInv, NEW s \in Submitters, Submit(s) \/ AcquireSlot(s) \/ Compiled(s)
  PROVE  Inv'
<1>1. UNCHANGED world BY DEF Submit, AcquireSlot, Compiled, world, store, cluster, history
<1>2. \/ MovedBack(s, "rejected", None)
      \/ \E f \in Fingerprints : MovedBack(s, "compile", f)
      \/ MovedOn(s, "compiling") /\ sub[s].pc = "compile"
      \/ \E f \in Fingerprints : /\ Moved(s, "index", f) /\ sub'[s].uid = 0
                                 /\ sub'[s].stale => artifacts[labelOf[f]] # {}
  <2>1. CASE Submit(s)
    <3>1. PICK f \in Fingerprints : PlanBenchmark(s, f) \/ sub' = [sub EXCEPT ![s] = Fresh("compile", f)]
      BY <2>1 DEF Submit
    <3>2. CASE PlanBenchmark(s, f) BY <3>2, PlanMoves DEF IInv
    <3>3. CASE sub' = [sub EXCEPT ![s] = Fresh("compile", f)]
      BY <3>3 DEF IInv, TypeOK, Fresh, MovedBack, Moved
    <3> QED BY <3>1, <3>2, <3>3
  <2>2. CASE AcquireSlot(s) BY <2>2, Moves DEF AcquireSlot, IInv
  <2>3. CASE Compiled(s)
    <3>1. sub[s].fp \in Fingerprints BY <2>3 DEF Compiled, IInv, Inv, CallInv, Working
    <3> QED BY <2>3, <3>1, PlanMoves DEF Compiled, IInv
  <2> QED BY <2>1, <2>2, <2>3
<1>3. CASE MovedBack(s, "rejected", None) BY <1>1, <1>3, EndedInv
<1>4. ASSUME ~MovedBack(s, "rejected", None) PROVE Inv'
  <2>1. /\ \A r \in Submitters : r # s => sub'[r] = sub[r]
        /\ sub'[s].pc \in {"compile", "compiling", "index"} /\ sub'[s].fp \in Fingerprints
        /\ sub'[s].uid = 0
        /\ sub'[s].stale => artifacts[labelOf[sub'[s].fp]] # {}
    <3>1. CASE \E f \in Fingerprints : MovedBack(s, "compile", f) BY <3>1 DEF MovedBack, Moved
    <3>2. CASE MovedOn(s, "compiling") /\ sub[s].pc = "compile"
      BY <3>2 DEF MovedOn, Moved, IInv, Inv, CallInv, StaleInv, OwnerInv, Dir, Working
    <3>3. CASE \E f \in Fingerprints : /\ Moved(s, "index", f) /\ sub'[s].uid = 0
                                       /\ sub'[s].stale => artifacts[labelOf[f]] # {}
      BY <3>3 DEF Moved
    <3> QED BY <1>2, <1>4, <3>1, <3>2, <3>3
  <2> USE DEF IInv, Inv, world
  <2>2. CallInv' BY <2>1 DEF CallInv
  <2>3. ManifestInv' BY <1>1, <2>1 DEF ManifestInv, ManagedJob, Dir, Calling
  <2>4. IndexInv' BY <1>1, <2>1 DEF IndexInv, Calling
  <2>5. StaleInv' BY <1>1, <2>1 DEF StaleInv, Dir
  <2>6. OwnerInv' BY <1>1, <2>1 DEF OwnerInv, ManagedJob, Working, Persisting
  <2>7. OneSource' /\ NoStaleRerun' BY <1>1 DEF OneSource, NoStaleRerun
  <2>8. OneSpecification' BY <1>1, <2>1 DEF OneSpecification, Succeeded
  <2>9. ServiceOfRun' BY <1>1, <2>1 DEF ServiceOfRun
  <2> QED BY <2>2, <2>3, <2>4, <2>5, <2>6, <2>7, <2>8, <2>9
<1> QED BY <1>3, <1>4

\* The index entry: before it is made nothing of the run id can be there.
LEMMA IndexEntryInv ==
  ASSUME IInv, NEW s \in Submitters, PersistIndex(s)
  PROVE  Inv'
<1> USE DEF IInv, Inv
<1>1. sub[s].pc = "index" /\ sub[s].fp \in Fingerprints
  BY DEF PersistIndex, CreateIndexEntry, ValidateIndexEntry, CallInv, Working, Persisting
<1>2. CASE CreateIndexEntry(s)
  <2>1. MovedOn(s, "dir") /\ index = None /\ index' = sub[s].fp BY <1>2, Moves DEF CreateIndexEntry
  <2>2. UNCHANGED <<labelOf, dirManifest, artifacts, job, service, pods, lastUid, can, removed, overlaid>>
    BY <1>2 DEF CreateIndexEntry, cluster, history
  <2> USE DEF MovedOn, Moved
  <2>3. CallInv' BY <1>1, <2>1 DEF CallInv
  <2>4. ManifestInv' BY <2>1, <2>2 DEF ManifestInv, ManagedJob, Dir, Calling
  <2>5. IndexInv'
    <3>1. ~removed => \A r \in Submitters : sub[r].pc \notin {"dir"} \cup Calling
      BY <2>1, ControlPlaneAssumption DEF IndexInv, CallInv, Working, Persisting
    <3> QED BY <2>1, <2>2, <3>1 DEF IndexInv, Calling
  <2>6. StaleInv'
    <3>1. ~removed => ~sub[s].stale
      <4>1. ~removed => \A l \in Labels : dirManifest[l] = None BY <2>1 DEF OneSpecification
      <4>2. labelOf[sub[s].fp] \in Labels /\ artifacts[labelOf[sub[s].fp]] \subseteq Fingerprints
        BY <1>1 DEF TypeOK
      <4>3. ~removed => artifacts[Dir(s)] = {}
        BY <4>1, <4>2, ControlPlaneAssumption DEF OneSource, Dir
      <4> QED BY <1>1, <4>3 DEF StaleInv, Working, Persisting
    <3> QED BY <1>1, <2>1, <2>2, <3>1 DEF StaleInv, Dir, Working, Persisting
  <2>7. OwnerInv' BY <1>1, <2>1, <2>2 DEF OwnerInv, ManagedJob, Working, Persisting
  <2>8. OneSource' /\ NoStaleRerun' BY <2>2 DEF OneSource, NoStaleRerun
  <2>9. OneSpecification'
    <3>1. ~removed => \A r \in Submitters : sub[r].pc \notin Succeeded
      BY <2>1, ControlPlaneAssumption DEF OneSpecification, CallInv
    <3> QED BY <2>1, <2>2, <3>1 DEF OneSpecification, Succeeded
  <2>10. ServiceOfRun' BY <2>1, <2>2 DEF ServiceOfRun
  <2> QED BY <2>3, <2>4, <2>5, <2>6, <2>7, <2>8, <2>9, <2>10
<1>3. CASE ValidateIndexEntry(s)
  <2>1. UNCHANGED world BY <1>3 DEF ValidateIndexEntry, world, store, cluster, history
  <2>2. CASE index = sub[s].fp
    <3>1. /\ Moved(s, "dir", sub[s].fp) /\ sub'[s].existed = TRUE
          /\ sub'[s].uid = sub[s].uid /\ sub'[s].stale = sub[s].stale
      BY <1>3, <2>2, SettingMoves DEF ValidateIndexEntry
    <3> USE DEF Moved, world
    <3>2. CallInv' BY <1>1, <3>1 DEF CallInv
    <3>3. ManifestInv' BY <2>1, <3>1 DEF ManifestInv, ManagedJob, Dir, Calling
    <3>4. IndexInv' BY <2>1, <2>2, <3>1 DEF IndexInv, Calling
    <3>5. StaleInv' BY <1>1, <2>1, <3>1 DEF StaleInv, Dir, Working, Persisting
    <3>6. OwnerInv' BY <1>1, <2>1, <3>1 DEF OwnerInv, ManagedJob, Working, Persisting
    <3>7. OneSource' /\ NoStaleRerun' BY <2>1 DEF OneSource, NoStaleRerun
    <3>8. OneSpecification' BY <2>1, <3>1 DEF OneSpecification, Succeeded
    <3>9. ServiceOfRun' BY <2>1, <3>1 DEF ServiceOfRun
    <3> QED BY <3>2, <3>3, <3>4, <3>5, <3>6, <3>7, <3>8, <3>9
  <2>3. CASE index # sub[s].fp
    BY <1>3, <2>1, <2>3, Moves, EndedInv DEF ValidateIndexEntry
  <2> QED BY <2>2, <2>3
<1> QED BY <1>2, <1>3 DEF PersistIndex

\* The result directory: its manifest is made once and never replaced.
LEMMA DirectoryInv ==
  ASSUME IInv, NEW s \in Submitters, PersistDirectory(s) \/ StorageFails(s)
  PROVE  Inv'
<1> USE DEF IInv, Inv
<1>1. sub[s].pc \in {"index", "dir"} /\ sub[s].fp \in Fingerprints
  BY DEF PersistDirectory, StorageFails, CallInv, Working, Persisting
<1>2. UNCHANGED <<labelOf, artifacts, job, service, pods, lastUid, can, overlaid>>
  BY DEF PersistDirectory, StorageFails, cluster
<1>3. ASSUME NEW p \in {"error", "mismatch"}, GiveUpDirectory(s, p), UNCHANGED dirManifest PROVE Inv'
  <2>1. MovedBack(s, p, None) BY <1>3, Moves DEF GiveUpDirectory
  <2>2. CASE sub[s].existed
    BY <1>2, <1>3, <2>1, <2>2, EndedInv DEF GiveUpDirectory, TypeOK, world
  <2>3. CASE ~sub[s].existed
    <3>1. removed' BY <1>3, <2>3 DEF GiveUpDirectory
    <3> USE DEF MovedBack, Moved
    <3>2. CallInv' BY <2>1 DEF CallInv, Working, Persisting, Calling, Succeeded
    <3>3. ManifestInv' BY <1>2, <1>3, <2>1 DEF ManifestInv, ManagedJob, Dir, Calling
    <3>4. IndexInv' /\ OneSpecification' /\ NoStaleRerun' BY <3>1 DEF IndexInv, OneSpecification, NoStaleRerun
    <3>5. StaleInv' BY <1>2, <2>1, <3>1 DEF StaleInv, Dir
    <3>6. OwnerInv' BY <1>2, <2>1 DEF OwnerInv, ManagedJob, Working, Persisting, Calling
    <3>7. OneSource' BY <1>2, <1>3 DEF OneSource
    <3>8. ServiceOfRun' BY <1>2, <2>1 DEF ServiceOfRun
    <3> QED BY <3>2, <3>3, <3>4, <3>5, <3>6, <3>7, <3>8
  <2> QED BY <2>2, <2>3
<1>4. CASE StorageFails(s)
  <2>1. CASE sub[s].pc = "dir" BY <1>3, <1>4, <2>1 DEF StorageFails
  <2>2. CASE sub[s].pc # "dir"
    <3>1. MovedBack(s, "error", None) /\ UNCHANGED world BY <1>4, <2>2, Moves DEF StorageFails, world, cluster
    <3> QED BY <3>1, EndedInv
  <2> QED BY <2>1, <2>2
<1>5. CASE PersistDirectory(s) /\ dirManifest[Dir(s)] \notin {None, sub[s].fp}
  BY <1>3, <1>5 DEF PersistDirectory
<1>6. CASE PersistDirectory(s) /\ dirManifest[Dir(s)] \in {None, sub[s].fp}
  <2>1. MovedOn(s, "getjob") /\ UNCHANGED <<index, removed>> /\ sub[s].pc = "dir"
    BY <1>6, Moves DEF PersistDirectory
  <2>2. dirManifest' = [dirManifest EXCEPT ![Dir(s)] = sub[s].fp] BY <1>6 DEF PersistDirectory
  <2>3. Dir(s) \in Labels /\ dirManifest \in [Labels -> Fingerprints \cup {None}] BY <1>1 DEF Dir, TypeOK
  <2>4. dirManifest'[Dir(s)] = sub[s].fp /\ \A l \in Labels : dirManifest[l] # None => dirManifest'[l] = dirManifest[l]
    BY <1>6, <2>2, <2>3
  <2>5. \A f \in Fingerprints : dirManifest[labelOf[f]] = f => dirManifest'[labelOf[f]] = f
    BY <2>4, ControlPlaneAssumption DEF TypeOK
  <2> USE DEF MovedOn, Moved
  <2>6. CallInv' BY <1>1, <2>1 DEF CallInv
  <2>7. ManifestInv'
    <3>1. \A r \in Submitters : sub'[r].pc \in Calling => dirManifest'[labelOf[sub'[r].fp]] = sub'[r].fp
      <4> SUFFICES ASSUME NEW r \in Submitters, sub'[r].pc \in Calling PROVE dirManifest'[labelOf[sub'[r].fp]] = sub'[r].fp
        OBVIOUS
      <4>1. CASE r = s BY <2>1, <2>4, <4>1 DEF Dir
      <4>2. CASE r # s
        <5>1. sub'[r] = sub[r] BY <2>1, <4>2
        <5>2. sub[r].fp \in Fingerprints /\ dirManifest[labelOf[sub[r].fp]] = sub[r].fp
          BY <5>1 DEF ManifestInv, CallInv, Dir, Working
        <5> QED BY <2>5, <5>1, <5>2
      <4> QED BY <4>1, <4>2
    <3> QED BY <1>2, <2>5, <3>1 DEF ManifestInv, ManagedJob, Dir, TypeOK
  <2>8. IndexInv' BY <2>1 DEF IndexInv, Calling
  <2>9. StaleInv' BY <1>2, <2>1 DEF StaleInv, Dir, Working, Persisting
  <2>10. OwnerInv' BY <1>2, <2>1 DEF OwnerInv, ManagedJob, Working, Persisting, Calling
  <2>11. OneSource'
    <3>1. \A l \in Labels : dirManifest[l] = None => artifacts[l] = {}
      BY ControlPlaneAssumption DEF OneSource, TypeOK
    <3> QED BY <1>2, <2>4, <3>1 DEF OneSource
  <2>12. OneSpecification'
    <3>1. ~removed => sub[s].fp = index BY <2>1 DEF IndexInv
    <3>2. ~removed => \A l \in Labels : dirManifest'[l] \in {None, index} BY <2>2, <2>3, <3>1 DEF OneSpecification
    <3> QED BY <1>2, <2>1, <3>2 DEF OneSpecification, Succeeded
  <2>13. NoStaleRerun' /\ ServiceOfRun' BY <1>2, <2>1 DEF NoStaleRerun, ServiceOfRun
  <2> QED BY <2>6, <2>7, <2>8, <2>9, <2>10, <2>11, <2>12, <2>13
<1> QED BY <1>4, <1>5, <1>6

\* A submission that goes on with Service and Job.
LEMMA GoesOnInv ==
  ASSUME IInv, NEW s \in Submitters, NEW p \in {"artifacts", "upsert", "create", "attach"},
         sub[s].pc \in Calling, Moved(s, p, sub[s].fp), UNCHANGED <<labelOf, store, can, history, pods, artifacts>>,
         UNCHANGED <<job, lastUid>>, service'.fp \in {None, Foreign, sub[s].fp, service.fp},
         ServiceOfRun',
         sub'[s].stale => sub[s].stale,
         p = "upsert" /\ sub'[s].stale /\ ~removed => sub'[s].uid # 0,
         p = "create" => ~sub'[s].stale \/ removed,
         p \in {"artifacts", "create"} => sub'[s].uid = 0,
         p = "attach" => sub'[s].uid # 0,
         sub'[s].uid # 0 => sub'[s].uid = job.uid \/ sub'[s].uid = sub[s].uid,
         sub'[s].uid # 0 /\ sub'[s].uid = job.uid => sub[s].fp = job.fp
  PROVE  Inv'
<1> USE DEF IInv, Inv, Moved, store, history
<1>1. sub[s].fp \in Fingerprints BY DEF CallInv, Working
<1>2. CallInv' BY <1>1 DEF CallInv
<1>3. ManifestInv' BY DEF ManifestInv, ManagedJob, Dir
<1>4. IndexInv' BY DEF IndexInv
<1>5. StaleInv' BY DEF StaleInv, Dir, Working
<1>6. OwnerInv' BY DEF OwnerInv, ManagedJob, Working, Persisting, Calling
<1>7. OneSource' /\ NoStaleRerun' BY DEF OneSource, NoStaleRerun
<1>8. OneSpecification' BY DEF OneSpecification, Succeeded, IndexInv
<1> QED BY <1>2, <1>3, <1>4, <1>5, <1>6, <1>7, <1>8

LEMMA GetJobInv ==
  ASSUME IInv, NEW s \in Submitters, GetJob(s)
  PROVE  Inv'
<1> USE DEF IInv, Inv
<1>1. sub[s].pc = "getjob" /\ sub[s].fp \in Fingerprints /\ sub[s].uid = 0
  BY DEF GetJob, CallInv, OwnerInv, Working, Calling
<1>2. UNCHANGED world /\ UNCHANGED <<store, history>> BY DEF GetJob, world, store, cluster, history
<1>3. CASE job.fp = sub[s].fp /\ sub' = [sub EXCEPT ![s].pc = "upsert", ![s].uid = job.uid]
  <2>1. Moved(s, "upsert", sub[s].fp) /\ sub'[s].uid = job.uid /\ sub'[s].stale = sub[s].stale
    BY <1>3, SettingMoves
  <2>2. job.uid # 0 BY <1>1, <1>3 DEF OwnerInv, ManagedJob
  <2>3. ServiceOfRun' BY <1>2, <2>1 DEF ServiceOfRun, Moved, world
  <2> QED BY <1>1, <1>2, <1>3, <2>1, <2>2, <2>3, GoesOnInv DEF Calling, world
<1>4. CASE Fail(s, "mismatch") BY <1>2, <1>4, Moves, EndedInv
<1>5. CASE job = NoJob /\ Goto(s, IF sub[s].existed THEN "artifacts" ELSE "upsert")
  <2>1. PICK p \in {"artifacts", "upsert"} : MovedOn(s, p) /\ (p = "upsert" => ~sub[s].existed)
    BY <1>5, Moves
  <2>2. ServiceOfRun' BY <1>2, <2>1 DEF ServiceOfRun, MovedOn, Moved, world
  <2>3. p = "upsert" => ~sub'[s].stale \/ removed BY <1>1, <2>1 DEF StaleInv, MovedOn
  <2> QED BY <1>1, <1>2, <2>1, <2>2, <2>3, GoesOnInv DEF Calling, MovedOn, world
<1> QED BY <1>3, <1>4, <1>5 DEF GetJob

LEMMA ArtifactsInv ==
  ASSUME IInv, NEW s \in Submitters, HasBenchmarkArtifacts(s)
  PROVE  Inv'
<1> USE DEF IInv, Inv
<1>1. sub[s].pc = "artifacts" /\ sub[s].fp \in Fingerprints /\ sub[s].uid = 0
  BY DEF HasBenchmarkArtifacts, CallInv, OwnerInv, Working, Calling
<1>2. UNCHANGED world /\ UNCHANGED <<store, history>> BY DEF HasBenchmarkArtifacts, world, store, cluster, history
<1>3. CASE artifacts[Dir(s)] = {}
  <2>1. MovedOn(s, "upsert") BY <1>3, Moves DEF HasBenchmarkArtifacts
  <2>2. ServiceOfRun' BY <1>2, <2>1 DEF ServiceOfRun, MovedOn, Moved, world
  <2>3. ~sub'[s].stale BY <1>1, <1>3, <2>1 DEF StaleInv, MovedOn, Working, Calling
  <2> QED BY <1>1, <1>2, <2>1, <2>2, <2>3, GoesOnInv DEF Calling, MovedOn, world
<1>4. CASE artifacts[Dir(s)] # {}
  <2>1. Moved(s, "archived", sub[s].fp) /\ sub'[s].uid = sub[s].uid /\ sub'[s].stale = FALSE
    BY <1>4, Moves DEF HasBenchmarkArtifacts
  <2> USE DEF Moved, world
  <2>2. CallInv' BY <1>1, <2>1 DEF CallInv
  <2>3. ManifestInv' BY <1>2, <2>1 DEF ManifestInv, ManagedJob, Dir, Calling
  <2>4. IndexInv' BY <1>2, <2>1 DEF IndexInv, Calling
  <2>5. StaleInv' BY <1>2, <2>1 DEF StaleInv, Dir
  <2>6. OwnerInv' BY <1>1, <1>2, <2>1 DEF OwnerInv, ManagedJob, Working, Persisting, Calling
  <2>7. OneSource' /\ NoStaleRerun' BY <1>2 DEF OneSource, NoStaleRerun
  <2>8. OneSpecification' BY <1>1, <1>2, <2>1 DEF OneSpecification, IndexInv, Succeeded, Calling
  <2>9. ServiceOfRun' BY <1>2, <2>1 DEF ServiceOfRun
  <2> QED BY <2>2, <2>3, <2>4, <2>5, <2>6, <2>7, <2>8, <2>9
<1> QED BY <1>3, <1>4

\* The Service of a run that has been answered is there, so it is not made again.
LEMMA UpsertInv ==
  ASSUME IInv, NEW s \in Submitters, UpsertManagedService(s)
  PROVE  Inv'
<1> USE DEF IInv, Inv
<1>1. sub[s].pc = "upsert" /\ sub[s].fp \in Fingerprints
  BY DEF UpsertManagedService, CallInv, Working, Calling
<1>2. UNCHANGED <<labelOf, index, dirManifest, job, pods, lastUid, artifacts, can, removed, overlaid>>
  BY DEF UpsertManagedService, store, history
<1>3. /\ service = NoService => service' = [fp |-> sub[s].fp, owner |-> 0]
      /\ service # NoService => service' = service
  BY DEF UpsertManagedService
<1>4. ASSUME NEW p \in {"attach", "create", "mismatch"}, NEW f, Moved(s, p, f) PROVE ServiceOfRun'
  <2> SUFFICES ASSUME NEW r \in Submitters, sub'[r].pc \in {"created", "existing"},
                      sub'[r].uid = job'.uid, ~job'.contested
               PROVE  service' = [fp |-> job'.fp, owner |-> job'.uid]
    BY DEF ServiceOfRun
  <2>1. r # s /\ sub'[r] = sub[r] /\ job' = job BY <1>2, <1>4 DEF Moved
  <2>2. service = [fp |-> job.fp, owner |-> job.uid] /\ job.uid # 0 BY <2>1 DEF ServiceOfRun, OwnerInv
  <2>3. service # NoService BY <2>2 DEF NoService
  <2> QED BY <1>3, <2>1, <2>2, <2>3
<1>5. CASE service'.fp = sub[s].fp
  <2>1. PICK p \in {"attach", "create"} : MovedOn(s, p) /\ (p = "attach" <=> sub[s].uid # 0)
    BY <1>5, Moves DEF UpsertManagedService
  <2>2. ServiceOfRun' BY <1>4, <2>1 DEF MovedOn
  <2>3. p = "create" => ~sub'[s].stale \/ removed BY <1>1, <2>1 DEF StaleInv, MovedOn
  <2>4. sub'[s].uid # 0 /\ sub'[s].uid = job.uid => sub[s].fp = job.fp BY <2>1 DEF OwnerInv, MovedOn
  <2> QED BY <1>1, <1>2, <1>5, <2>1, <2>2, <2>3, <2>4, GoesOnInv DEF Calling, MovedOn, store, history
<1>6. CASE service'.fp # sub[s].fp
  <2>1. MovedBack(s, "mismatch", None) BY <1>6, Moves DEF UpsertManagedService
  <2>2. service' = service BY <1>3, <1>6
  <2> QED BY <1>2, <2>1, <2>2, EndedInv DEF world
<1> QED BY <1>5, <1>6

\* A new Job has a new UID, and is contested if anything is left of an old one.
LEMMA CreateInv ==
  ASSUME IInv, NEW s \in Submitters, CreateJob(s)
  PROVE  Inv'
<1> USE DEF IInv, Inv
<1>1. sub[s].pc = "create" /\ sub[s].fp \in Fingerprints BY DEF CreateJob, CallInv, Working, Calling
<1>2. UNCHANGED <<labelOf, index, dirManifest, service, pods, artifacts, can, removed>>
  BY DEF CreateJob, store
<1>3. CASE job = NoJob
  <2>1. lastUid' = lastUid + 1 /\ lastUid \in Nat /\ lastUid' # 0 BY <1>3 DEF CreateJob, TypeOK
  <2>2. job' = [fp |-> sub[s].fp, uid |-> lastUid', phase |-> "pending", contested |-> Lingering]
    BY <1>3 DEF CreateJob
  <2>3. job'.fp = sub[s].fp /\ job'.uid = lastUid' /\ job'.contested = Lingering BY <2>2
  <2>4. Moved(s, "attach", sub[s].fp) /\ sub'[s].uid = lastUid' /\ sub'[s].stale = sub[s].stale
    <3>1. sub' = [sub EXCEPT ![s].pc = "attach", ![s].uid = lastUid', ![s].created = TRUE]
      BY <1>3 DEF CreateJob
    <3> QED BY <3>1, SettingMoves
  <2>5. ~sub[s].stale \/ removed BY <1>1 DEF StaleInv
  <2>6. \A r \in Submitters : sub[r].uid # lastUid' BY <2>1 DEF TypeOK
  <2>7. ManagedJob' BY <1>1, <2>3 DEF ManagedJob
  <2> USE DEF Moved
  <2>8. CallInv' BY <1>1, <2>4 DEF CallInv
  <2>9. ManifestInv' BY <1>1, <1>2, <2>3, <2>4 DEF ManifestInv, ManagedJob, Dir, Calling
  <2>10. IndexInv' BY <1>1, <1>2, <2>4 DEF IndexInv, Calling
  <2>11. StaleInv' BY <1>1, <1>2, <2>4, <2>5 DEF StaleInv, Dir, Working, Calling
  <2>12. OwnerInv'
    <3>1. \A r \in Submitters :
            /\ sub'[r].pc \in Working \ {"upsert", "attach"} => sub'[r].uid = 0
            /\ sub'[r].pc \in {"attach", "created", "existing"} => sub'[r].uid # 0
            /\ sub'[r].uid # 0 /\ sub'[r].uid = job'.uid => sub'[r].fp = job'.fp
      BY <2>1, <2>3, <2>4, <2>6 DEF OwnerInv
    <3>2. ASSUME ~job'.contested
          PROVE  /\ \A c \in Cancellers : can'[c].pc \notin {"getservice", "deleteservice"}
                 /\ \A r \in Submitters : sub'[r].pc \in {"upsert", "attach"} /\ sub'[r].uid # 0
                                            => sub'[r].uid = job'.uid
      <4>1. ~Lingering BY <2>3, <3>2
      <4> QED BY <1>2, <2>3, <2>4, <4>1 DEF Lingering
    <3> QED BY <2>1, <2>3, <2>7, <3>1, <3>2 DEF OwnerInv
  <2>13. OneSource' BY <1>2 DEF OneSource
  <2>14. NoStaleRerun'
    <3>1. overlaid' = (overlaid \/ sub[s].stale) BY <1>3 DEF CreateJob
    <3> QED BY <1>2, <2>5, <3>1 DEF NoStaleRerun
  <2>15. OneSpecification'
    <3>1. ~removed => job'.fp = index BY <1>1, <2>3 DEF IndexInv, Calling
    <3> QED BY <1>2, <2>4, <3>1 DEF OneSpecification, Succeeded
  <2>16. ServiceOfRun' BY <2>3, <2>4, <2>6 DEF ServiceOfRun
  <2> QED BY <2>8, <2>9, <2>10, <2>11, <2>12, <2>13, <2>14, <2>15, <2>16
<1>4. CASE job # NoJob
  <2>1. UNCHANGED <<job, lastUid, overlaid>> BY <1>4 DEF CreateJob
  <2>2. CASE job.fp = sub[s].fp
    <3>1. Moved(s, "attach", sub[s].fp) /\ sub'[s].uid = job.uid /\ sub'[s].stale = sub[s].stale
      <4>1. sub' = [sub EXCEPT ![s].pc = "attach", ![s].uid = job.uid] BY <1>4, <2>2 DEF CreateJob
      <4> QED BY <4>1, SettingMoves
    <3>2. job.uid # 0 BY <1>1, <2>2 DEF OwnerInv, ManagedJob
    <3>3. ServiceOfRun' BY <1>2, <2>1, <3>1 DEF ServiceOfRun, Moved
    <3> QED BY <1>1, <1>2, <2>1, <2>2, <3>1, <3>2, <3>3, GoesOnInv DEF Calling, store, history
  <2>3. CASE job.fp # sub[s].fp
    BY <1>2, <1>4, <2>1, <2>3, Moves, EndedInv DEF CreateJob, world
  <2> QED BY <2>2, <2>3
<1> QED BY <1>3, <1>4

\* Only calls for the Job at hand set the owner of an uncontested Job's Service.
LEMMA AttachInv ==
  ASSUME IInv, NEW s \in Submitters, AttachServiceOwner(s)
  PROVE  Inv'
<1> USE DEF IInv, Inv
<1>1. sub[s].pc = "attach" /\ sub[s].fp \in Fingerprints /\ sub[s].uid # 0
  BY DEF AttachServiceOwner, CallInv, OwnerInv, Working, Calling
<1>2. UNCHANGED <<labelOf, index, dirManifest, job, pods, lastUid, artifacts, can, removed, overlaid>>
  BY DEF AttachServiceOwner, store, history
<1>3. CASE service.fp # sub[s].fp
  BY <1>2, <1>3, Moves, EndedInv DEF AttachServiceOwner, world
<1>4. CASE service.fp = sub[s].fp
  <2>1. PICK p \in {"created", "existing"} :
          Moved(s, p, sub[s].fp) /\ sub'[s].uid = sub[s].uid /\ sub'[s].stale = FALSE
    BY <1>4, Moves DEF AttachServiceOwner
  <2>2. service' = [fp |-> sub[s].fp, owner |-> sub[s].uid]
    BY <1>4 DEF AttachServiceOwner, TypeOK
  <2> USE DEF Moved
  <2>3. CallInv' BY <1>1, <2>1 DEF CallInv
  <2>4. ManifestInv' BY <1>2, <2>1 DEF ManifestInv, ManagedJob, Dir, Calling
  <2>5. IndexInv' BY <1>2, <2>1 DEF IndexInv, Calling
  <2>6. StaleInv' BY <1>2, <2>1 DEF StaleInv, Dir
  <2>7. OwnerInv' BY <1>1, <1>2, <2>1 DEF OwnerInv, ManagedJob, Working, Persisting, Calling
  <2>8. OneSource' /\ NoStaleRerun' BY <1>2 DEF OneSource, NoStaleRerun
  <2>9. OneSpecification'
    <3>1. ~removed => sub[s].fp = index BY <1>1 DEF IndexInv, Calling
    <3>2. service'.fp = sub[s].fp BY <2>2
    <3> QED BY <1>2, <2>1, <3>1, <3>2 DEF OneSpecification
  <2>10. ServiceOfRun'
    <3> SUFFICES ASSUME NEW r \in Submitters, sub'[r].pc \in {"created", "existing"},
                        sub'[r].uid = job'.uid, ~job'.contested
                 PROVE  service' = [fp |-> job'.fp, owner |-> job'.uid]
      BY DEF ServiceOfRun
    <3>1. job.uid # 0 /\ ~job.contested /\ job' = job BY <1>1, <1>2, <2>1 DEF OwnerInv
    <3>2. sub[s].uid = job.uid BY <1>1, <3>1 DEF OwnerInv
    <3>3. sub[s].fp = job.fp BY <3>1, <3>2 DEF OwnerInv
    <3> QED BY <2>2, <3>1, <3>2, <3>3
  <2> QED BY <2>3, <2>4, <2>5, <2>6, <2>7, <2>8, <2>9, <2>10
<1> QED BY <1>3, <1>4

LEMMA SubmitterInv ==
  ASSUME IInv, NEW s \in Submitters, SubmitterStep(s) \/ StorageFails(s) \/ CallFails(s)
  PROVE  Inv'
<1>1. CASE CallFails(s)
  <2>1. MovedBack(s, "error", None) /\ UNCHANGED world
    BY <1>1, Moves DEF CallFails, IInv, world, store, cluster, history
  <2> QED BY <2>1, EndedInv
<1> QED
  BY <1>1, PlanInv, IndexEntryInv, DirectoryInv, GetJobInv, ArtifactsInv, UpsertInv, CreateInv, AttachInv
     DEF SubmitterStep

\* A cancel: it has deleted the Job before it touches the Service.
LEMMA CancelInv ==
  ASSUME IInv, NEW c \in Cancellers, CancelStep(c) \/ CancelFails(c)
  PROVE  Inv'
<1> USE DEF IInv, Inv
<1>1. UNCHANGED <<labelOf, index, dirManifest, pods, lastUid, artifacts, sub, removed, overlaid>>
  BY DEF CancelStep, CancelGetJob, CancelDeleteJob, CancelGetService, CancelDeleteService, CancelFails,
         store, cluster, history
<1>2. can \in [Cancellers -> [pc : {"idle", "over"} \cup Cancelling,
                              fp : Fingerprints \cup {None}, uid : 0..lastUid]]
  BY DEF TypeOK
<1>3. /\ CallInv' /\ IndexInv' /\ StaleInv' /\ OneSource' /\ NoStaleRerun'
  BY <1>1 DEF CallInv, IndexInv, StaleInv, OneSource, NoStaleRerun, Dir
<1>4. NoJob.fp \notin Fingerprints /\ NoJob.uid = 0 /\ NoJob.fp = None /\ NoService.fp = None
  BY ControlPlaneAssumption DEF NoJob, NoService
<1>5. CASE CancelGetJob(c) \/ CancelGetService(c) \/ CancelFails(c)
  <2>1. UNCHANGED <<job, service>> BY <1>5 DEF CancelGetJob, CancelGetService, CancelFails, cluster
  <2>2. \A b \in Cancellers : can'[b].pc \in {"getservice", "deleteservice"} => can[b].pc \in {"getservice", "deleteservice"}
    BY <1>2, <1>5 DEF CancelGetJob, CancelGetService, CancelFails
  <2>3. OwnerInv' BY <1>1, <2>1, <2>2 DEF OwnerInv, ManagedJob
  <2>4. ManifestInv' /\ OneSpecification' /\ ServiceOfRun'
    BY <1>1, <2>1 DEF ManifestInv, ManagedJob, Dir, OneSpecification, ServiceOfRun
  <2> QED BY <1>3, <2>3, <2>4
<1>6. CASE CancelDeleteJob(c)
  <2>1. job' = NoJob /\ service' = service BY <1>6 DEF CancelDeleteJob
  <2>2. OwnerInv' BY <1>1, <1>4, <2>1 DEF OwnerInv, ManagedJob
  <2>3. ServiceOfRun' BY <1>1, <1>4, <2>1 DEF ServiceOfRun, OwnerInv
  <2>4. ManifestInv' /\ OneSpecification' BY <1>1, <1>4, <2>1 DEF ManifestInv, ManagedJob, Dir, OneSpecification
  <2> QED BY <1>3, <2>2, <2>3, <2>4
<1>7. CASE CancelDeleteService(c)
  <2>1. job' = job /\ service' = NoService /\ can[c].pc = "deleteservice" BY <1>7 DEF CancelDeleteService
  <2>2. ~(ManagedJob /\ ~job.contested) BY <2>1 DEF OwnerInv
  <2>3. OwnerInv' BY <1>1, <2>1, <2>2 DEF OwnerInv, ManagedJob
  <2>4. ServiceOfRun' BY <1>1, <2>1, <2>2 DEF ServiceOfRun, OwnerInv
  <2>5. ManifestInv' /\ OneSpecification' BY <1>1, <1>4, <2>1 DEF ManifestInv, ManagedJob, Dir, OneSpecification
  <2> QED BY <1>3, <2>3, <2>4, <2>5
<1> QED BY <1>5, <1>6, <1>7 DEF CancelStep

LEMMA KubernetesInv ==
  ASSUME IInv, Kubernetes
  PROVE  Inv'
<1> USE DEF IInv, Inv
<1>1. UNCHANGED <<labelOf, index, dirManifest, lastUid, sub, can, removed, overlaid>>
  BY DEF Kubernetes, StartPods, JobEnds, Expire, CollectService, WriteArtifacts, StopPods, store, history
<1>2. CallInv' /\ IndexInv' /\ NoStaleRerun' BY <1>1 DEF CallInv, IndexInv, NoStaleRerun
<1>3. NoJob.fp \notin Fingerprints /\ NoJob.uid = 0 /\ NoJob.fp = None /\ NoService.fp = None
  BY ControlPlaneAssumption DEF NoJob, NoService
<1>4. CASE StartPods \/ JobEnds
  <2>1. UNCHANGED <<service, artifacts>> BY <1>4 DEF StartPods, JobEnds
  <2>2. job'.fp = job.fp /\ job'.uid = job.uid /\ job'.contested = job.contested
    BY <1>4 DEF StartPods, JobEnds, TypeOK
  <2>3. ManifestInv' BY <1>1, <1>4, <2>2 DEF ManifestInv, ManagedJob, Dir, StartPods, JobEnds
  <2>4. StaleInv' /\ OneSource' BY <1>1, <2>1 DEF StaleInv, OneSource, Dir
  <2>5. OwnerInv' BY <1>1, <2>2 DEF OwnerInv, ManagedJob
  <2>6. OneSpecification' /\ ServiceOfRun' BY <1>1, <2>1, <2>2 DEF OneSpecification, ServiceOfRun
  <2> QED BY <1>2, <2>3, <2>4, <2>5, <2>6
<1>5. CASE Expire
  <2>1. job' = NoJob /\ UNCHANGED <<service, pods, artifacts>> BY <1>5 DEF Expire
  <2>2. OwnerInv' BY <1>1, <1>3, <2>1 DEF OwnerInv, ManagedJob
  <2>3. ServiceOfRun' BY <1>1, <1>3, <2>1 DEF ServiceOfRun, OwnerInv
  <2>4. ManifestInv' /\ OneSpecification' BY <1>1, <1>3, <2>1 DEF ManifestInv, ManagedJob, Dir, OneSpecification
  <2>5. StaleInv' /\ OneSource' BY <1>1, <2>1 DEF StaleInv, OneSource, Dir
  <2> QED BY <1>2, <2>2, <2>3, <2>4, <2>5
<1>6. CASE CollectService
  <2>1. service' = NoService /\ service.owner # job.uid /\ UNCHANGED <<job, pods, artifacts>>
    BY <1>6 DEF CollectService
  <2>2. OwnerInv' BY <1>1, <2>1 DEF OwnerInv, ManagedJob
  <2>3. ServiceOfRun' BY <1>1, <2>1 DEF ServiceOfRun
  <2>4. ManifestInv' /\ OneSpecification' BY <1>1, <1>3, <2>1 DEF ManifestInv, ManagedJob, Dir, OneSpecification
  <2>5. StaleInv' /\ OneSource' BY <1>1, <2>1 DEF StaleInv, OneSource, Dir
  <2> QED BY <1>2, <2>2, <2>3, <2>4, <2>5
<1>7. ASSUME NEW f \in Fingerprints, WriteArtifacts(f) PROVE Inv'
  <2>1. /\ f \in pods /\ UNCHANGED <<job, service, pods>>
        /\ artifacts' = [artifacts EXCEPT ![labelOf[f]] = @ \cup {f}]
    BY <1>7 DEF WriteArtifacts
  <2>2. dirManifest[labelOf[f]] = f BY <2>1 DEF ManifestInv
  <2>3. OneSource' BY <1>1, <2>1, <2>2 DEF OneSource, TypeOK
  <2>4. \A l \in Labels : artifacts[l] # {} => artifacts'[l] # {} BY <2>1 DEF TypeOK
  <2>5. StaleInv'
    <3>1. \A s \in Submitters : sub[s].pc \in Working => labelOf[sub[s].fp] \in Labels
      BY DEF CallInv, TypeOK
    <3> QED BY <1>1, <2>4, <3>1 DEF StaleInv, Dir
  <2>6. ManifestInv' /\ OwnerInv' /\ OneSpecification' /\ ServiceOfRun'
    BY <1>1, <2>1 DEF ManifestInv, ManagedJob, Dir, OwnerInv, OneSpecification, ServiceOfRun
  <2> QED BY <1>2, <2>3, <2>5, <2>6
<1>8. ASSUME NEW f \in Fingerprints, StopPods(f) PROVE Inv'
  <2>1. pods' \subseteq pods /\ UNCHANGED <<job, service, artifacts>> BY <1>8 DEF StopPods
  <2>2. /\ ManifestInv' /\ OwnerInv' /\ StaleInv' /\ OneSource'
        /\ OneSpecification' /\ ServiceOfRun'
    BY <1>1, <2>1 DEF ManifestInv, ManagedJob, Dir, OwnerInv, StaleInv, OneSource, OneSpecification, ServiceOfRun
  <2> QED BY <1>2, <2>2
<1> QED BY <1>4, <1>5, <1>6, <1>7, <1>8 DEF Kubernetes

\* A restart cuts the calls, and leaves what they have written.
LEMMA RestartInv ==
  ASSUME IInv, Restart
  PROVE  Inv'
<1> USE DEF IInv, Inv
<1>1. UNCHANGED <<labelOf, index, dirManifest, job, service, pods, lastUid, artifacts, removed, overlaid>>
  BY DEF Restart, store, cluster, history
<1>2. \A s \in Submitters :
        \/ sub'[s] = sub[s] /\ sub[s].pc \notin Working
        \/ sub'[s].pc = "error" /\ sub'[s].uid = 0 /\ ~sub'[s].stale
  BY DEF Restart, Fresh
<1>3. \A c \in Cancellers : can'[c].pc \in {"getservice", "deleteservice"} => can[c].pc \in {"getservice", "deleteservice"}
  BY DEF Restart, TypeOK, Cancelling
<1>4. CallInv' BY <1>2 DEF CallInv, Working, Persisting, Calling, Succeeded
<1>5. ManifestInv' BY <1>1, <1>2 DEF ManifestInv, ManagedJob, Dir, Working, Calling
<1>6. IndexInv' BY <1>1, <1>2 DEF IndexInv, Working, Calling
<1>7. StaleInv' BY <1>1, <1>2 DEF StaleInv, Dir
<1>8. OwnerInv' BY <1>1, <1>2, <1>3 DEF OwnerInv, ManagedJob, Working, Persisting, Calling
<1>9. OneSource' /\ NoStaleRerun' BY <1>1 DEF OneSource, NoStaleRerun
<1>10. OneSpecification' BY <1>1, <1>2 DEF OneSpecification, Succeeded
<1>11. ServiceOfRun' BY <1>1, <1>2 DEF ServiceOfRun
<1> QED BY <1>4, <1>5, <1>6, <1>7, <1>8, <1>9, <1>10, <1>11

LEMMA InitInv == Init => IInv
<1> SUFFICES ASSUME Init PROVE IInv OBVIOUS
<1>1. TypeOK BY TypeInit
<1>2. \A s \in Submitters : sub[s].pc = "idle" /\ sub[s].uid = 0 /\ ~sub[s].stale BY DEF Init, Fresh
<1>3. job.fp \in {None, Foreign} /\ job.uid = 0 BY DEF Init, NoJob, ForeignJob
<1>4. service.fp \in {None, Foreign} BY DEF Init, NoService
<1>5. CallInv BY <1>2 DEF CallInv, Working, Persisting, Calling, Succeeded
<1>6. ManifestInv BY <1>2, <1>3, ControlPlaneAssumption DEF Init, ManifestInv, ManagedJob, Calling
<1>7. IndexInv BY <1>2 DEF IndexInv, Calling
<1>8. StaleInv BY <1>2 DEF StaleInv
<1>9. OwnerInv BY <1>2, <1>3, ControlPlaneAssumption DEF OwnerInv, ManagedJob, Working, Persisting, Calling
<1>10. OneSource /\ NoStaleRerun BY DEF Init, OneSource, NoStaleRerun
<1>11. OneSpecification BY <1>2, <1>3, <1>4 DEF Init, OneSpecification, Succeeded
<1>12. ServiceOfRun BY <1>2 DEF ServiceOfRun
<1> QED
  BY <1>1, <1>5, <1>6, <1>7, <1>8, <1>9, <1>10, <1>11, <1>12 DEF IInv, Inv

LEMMA StepInv == IInv /\ [Next]_vars => IInv'
<1> SUFFICES ASSUME IInv, [Next]_vars PROVE IInv' OBVIOUS
<1>1. TypeOK /\ CallInv BY DEF IInv, Inv
<1>2. ASSUME NEW s \in Submitters, SubmitterStep(s) \/ StorageFails(s) \/ CallFails(s) PROVE IInv'
  BY <1>1, <1>2, TypeSubmitter, SubmitterInv DEF IInv
<1>3. ASSUME NEW c \in Cancellers, CancelStep(c) \/ CancelFails(c) PROVE IInv'
  BY <1>1, <1>3, TypeOther, CancelInv DEF IInv
<1>4. CASE Kubernetes BY <1>1, <1>4, TypeOther, KubernetesInv DEF IInv
<1>5. CASE Restart BY <1>1, <1>5, TypeOther, RestartInv DEF IInv
<1>6. CASE Done \/ UNCHANGED vars
  <2>1. UNCHANGED <<labelOf, index, dirManifest, artifacts, job, service, pods, lastUid, slot, sub, can,
                    faults, removed, overlaid>>
    BY <1>6 DEF Done, vars, store, cluster, history
  <2>2. TypeOK' BY <1>1, <2>1 DEF TypeOK
  <2>3. Inv'
    BY <2>1 DEF IInv, Inv, CallInv, ManifestInv, IndexInv, StaleInv, OwnerInv, OneSource,
                OneSpecification, NoStaleRerun, ServiceOfRun, ManagedJob, Dir
  <2> QED BY <2>2, <2>3 DEF IInv
<1> QED BY <1>2, <1>3, <1>4, <1>5, <1>6 DEF Next

LEMMA Invariance == Spec => []IInv
BY InitInv, StepInv, PTL DEF Spec

\* Every store, resource and call of the control API holds a value it can have
\* (mcp_runs.go, server.go).
THEOREM TypeCorrect == Spec => []TypeOK
<1>1. IInv => TypeOK BY DEF IInv
<1> QED BY <1>1, Invariance, PTL

\* A run id stands for one specification, as long as no failed submission has taken
\* its index entry back (persistRunManifest, upsertManagedService, submitBenchmark).
THEOREM RunIdHasOneSpecification == Spec => []OneSpecification
<1>1. IInv => OneSpecification BY DEF IInv, Inv
<1> QED BY <1>1, Invariance, PTL

\* A result directory only ever holds the artifacts of the specification in its
\* manifest, also after an index entry was taken back (persistRunManifest).
THEOREM DirectoryHasOneSource == Spec => []OneSource
<1>1. IInv => OneSource BY DEF IInv, Inv
<1> QED BY <1>1, Invariance, PTL

\* An uncontested Job whose submission has returned keeps its Service
\* (attachServiceOwner, deleteServiceIfFingerprint).
THEOREM JobKeepsService == Spec => []ServiceOfRun
<1>1. IInv => ServiceOfRun BY DEF IInv, Inv
<1> QED BY <1>1, Invariance, PTL

\* A run with artifacts is not run over them, unless its index entry was taken back
\* (submitBenchmark's artifact check).
THEOREM FinishedRunsStay == Spec => []NoStaleRerun
<1>1. IInv => NoStaleRerun BY DEF IInv, Inv
<1> QED BY <1>1, Invariance, PTL
=============================================================================

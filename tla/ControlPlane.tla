---------------------------- MODULE ControlPlane ----------------------------
(***************************************************************************)
(* The control API (pkg/controlapi) and one run id. A submission plans the *)
(* run, persists its durable manifest (an index entry, then a copy in the  *)
(* result directory), and then gets or creates a Service and an Indexed    *)
(* Job of that name in Kubernetes (mcp_runs.go, submitBenchmark); a cancel *)
(* deletes both. (Getting and listing runs only reads; reports are in      *)
(* Results.) Requests are served concurrently, any call to Kubernetes or   *)
(* to the result volume may fail, and the server may stop between two.     *)
(* A specification is its fingerprint: what planBenchmark hashes.          *)
(*                                                                         *)
(* Every call to Kubernetes or to the file system is one step. Two calls   *)
(* that act as one are one step: create-else-read (upsertManagedService,   *)
(* createOrValidateManifest) takes effect at its last call, which counts   *)
(* as a failed call when what was in the way has just gone; and the        *)
(* read-then-update of attachServiceOwner is retried until nothing came    *)
(* between.                                                                *)
(***************************************************************************)
EXTENDS Integers, FiniteSets

CONSTANTS
  Submitters,    \* clients calling submit_benchmark, retrying what failed
  Cancellers,    \* calls of cancel_benchmark
  Fingerprints,  \* the specifications submitted under the run id
  Labels,        \* the result labels: each names one result directory
  Labellings,    \* the ways the specifications are labelled
  None,          \* no specification, no client
  Foreign,       \* what a resource the server does not manage says it is
  MaxFaults      \* bound: calls that fail, stops of the server, finished Jobs
                 \* that Kubernetes removes

ASSUME ControlPlaneAssumption ==
  /\ None \notin Fingerprints \cup Submitters \cup {Foreign} /\ Foreign \notin Fingerprints
  /\ Labellings \subseteq [Fingerprints -> Labels]
  /\ MaxFaults \in Nat

VARIABLES
  labelOf,       \* the result label in each specification
  index,         \* fingerprint in .nyann-bench/runs/<id>.json, None if absent
  dirManifest,   \* fingerprint in each result directory's run-manifest.json
  artifacts,     \* whose Jobs have written request files to each directory
  job,           \* the Job of that name; contested (observation only): calls for an
                 \* earlier one were still at work when it was created
  service,       \* the Service of that name
  pods,          \* whose pods are running
  lastUid,       \* the UIDs given to Jobs so far
  slot,          \* who holds starlarkCompileSlots
  sub,           \* each client's submission
  can,           \* each cancel
  faults,        \* what has failed or stopped so far
  \* Observation only.
  removed,       \* a failed submission has removed the index entry it had made
  overlaid       \* a Job was created by a submission that began on old artifacts

store == <<index, dirManifest>>
cluster == <<job, service, pods, lastUid, artifacts>>
history == <<removed, overlaid>>
vars == <<labelOf, store, cluster, slot, sub, can, faults, history>>

NoJob == [fp |-> None, uid |-> 0, phase |-> "none", contested |-> FALSE]
ForeignJob == [fp |-> Foreign, uid |-> 0, phase |-> "running", contested |-> FALSE]
NoService == [fp |-> None, owner |-> 0]

\* The Job is there and is one of this server's (getManagedJob).
ManagedJob == job.fp \in Fingerprints

Dir(s) == labelOf[sub[s].fp]

Persisting == {"index", "dir"}
Calling == {"getjob", "artifacts", "upsert", "create", "attach"}
Working == {"compile", "compiling"} \cup Persisting \cup Calling
Succeeded == {"created", "existing", "archived"}
Answered == Succeeded \cup {"rejected", "mismatch"}
Cancelling == {"delete", "getservice", "deleteservice"}

\* A submission in state p that has done nothing yet for specification f.
Fresh(p, f) == [pc |-> p, fp |-> f, existed |-> FALSE, uid |-> 0, created |-> FALSE, stale |-> FALSE]

Goto(s, p) == sub' = [sub EXCEPT ![s].pc = p]

\* The call returns: without the run, or with it.
Fail(s, p) == sub' = [sub EXCEPT ![s] = Fresh(p, None)]
Return(s, p) == sub' = [sub EXCEPT ![s] = [Fresh(p, @.fp) EXCEPT !.uid = sub[s].uid]]

\* Calls that still work for a deleted Job: a cancel about to delete the Service, a
\* submission that found that Job.
Lingering ==
  \/ \E c \in Cancellers : can[c].pc \in {"getservice", "deleteservice"}
  \/ \E s \in Submitters : sub[s].pc \in {"upsert", "attach"} /\ sub[s].uid # 0

-----------------------------------------------------------------------------
(* Planning: nothing is written before it ends.                            *)

\* planBenchmark validates the input, renders the resources and has Kubernetes
\* dry-run them under another name; nothing is written, so it is one step with the
\* call. What the client sees of plan_benchmark alone is a call that ends here.
PlanBenchmark(s, f) ==
  \/ Fail(s, "rejected")
  \/ sub' = [sub EXCEPT ![s] = [Fresh("index", f) EXCEPT !.stale = artifacts[labelOf[f]] # {}]]

\* A client calls, again if the last call failed; a Starlark source is compiled
\* in a helper process first.
Submit(s) ==
  /\ sub[s].pc \in {"idle", "error"}
  /\ \E f \in Fingerprints : PlanBenchmark(s, f) \/ sub' = [sub EXCEPT ![s] = Fresh("compile", f)]
  /\ UNCHANGED <<labelOf, store, cluster, slot, can, faults, history>>

\* One compilation at a time.
AcquireSlot(s) ==
  /\ sub[s].pc = "compile" /\ slot = None
  /\ slot' = s
  /\ Goto(s, "compiling")
  /\ UNCHANGED <<labelOf, store, cluster, can, faults, history>>

\* Mutant: a failed compilation keeps the slot.
SlotLeaked(s) ==
  /\ sub[s].pc = "compiling"
  /\ PlanBenchmark(s, sub[s].fp)
  /\ slot' = IF sub'[s].pc = "index" THEN None ELSE slot
  /\ UNCHANGED <<labelOf, store, cluster, can, faults, history>>

\* The helper ends, fails, writes too much or is killed after its 3 s; each way
\* the slot is given back.
Compiled(s) ==
  /\ sub[s].pc = "compiling"
  /\ PlanBenchmark(s, sub[s].fp)
  /\ slot' = None
  /\ UNCHANGED <<labelOf, store, cluster, can, faults, history>>

-----------------------------------------------------------------------------
(* The durable manifest.                                                   *)

\* Mutant: an existing entry is taken for the submission's own.
IndexNotCompared(s) ==
  /\ sub[s].pc = "index"
  /\ index' = IF index = None THEN sub[s].fp ELSE index
  /\ sub' = [sub EXCEPT ![s].pc = "dir", ![s].existed = index # None]
  /\ UNCHANGED <<labelOf, dirManifest, cluster, slot, can, faults, history>>

\* The index entry is linked into place, or the one that is there must be the same.
CreateIndexEntry(s) ==
  /\ sub[s].pc = "index" /\ index = None
  /\ index' = sub[s].fp
  /\ Goto(s, "dir")
  /\ UNCHANGED <<labelOf, dirManifest, cluster, slot, can, faults, history>>

ValidateIndexEntry(s) ==
  /\ sub[s].pc = "index" /\ index # None
  /\ IF index = sub[s].fp THEN sub' = [sub EXCEPT ![s].pc = "dir", ![s].existed = TRUE]
                          ELSE Fail(s, "mismatch")
  /\ UNCHANGED <<labelOf, store, cluster, slot, can, faults, history>>

PersistIndex(s) == CreateIndexEntry(s) \/ ValidateIndexEntry(s)

\* A submission gives up in the result directory; the index entry goes with it if
\* this submission made it, whoever has relied on it since.
GiveUpDirectory(s, p) ==
  /\ index' = IF sub[s].existed THEN index ELSE None
  /\ removed' = (removed \/ ~sub[s].existed)
  /\ Fail(s, p)

\* Mutant: an existing copy is left as it is and not compared.
CopyNotCompared(s) ==
  /\ sub[s].pc = "dir"
  /\ dirManifest' = [dirManifest EXCEPT ![Dir(s)] = IF @ = None THEN sub[s].fp ELSE @]
  /\ Goto(s, "getjob")
  /\ UNCHANGED <<labelOf, index, cluster, slot, can, faults, history>>

\* The result directory and the manifest's copy in it.
PersistDirectory(s) ==
  /\ sub[s].pc = "dir"
  /\ IF dirManifest[Dir(s)] \in {None, sub[s].fp}
     THEN /\ dirManifest' = [dirManifest EXCEPT ![Dir(s)] = sub[s].fp]
          /\ Goto(s, "getjob")
          /\ UNCHANGED <<index, removed>>
     ELSE GiveUpDirectory(s, "mismatch") /\ UNCHANGED dirManifest
  /\ UNCHANGED <<labelOf, cluster, slot, can, faults, overlaid>>

\* A call on the result volume fails.
StorageFails(s) ==
  /\ sub[s].pc \in Persisting /\ faults < MaxFaults
  /\ IF sub[s].pc = "dir" THEN GiveUpDirectory(s, "error")
                          ELSE Fail(s, "error") /\ UNCHANGED <<index, removed>>
  /\ faults' = faults + 1
  /\ UNCHANGED <<labelOf, dirManifest, cluster, slot, can, overlaid>>

-----------------------------------------------------------------------------
(* Service and Job.                                                        *)

\* The Job of that name: the same run's, another's, or none. A run that has a
\* manifest already may have artifacts.
GetJob(s) ==
  /\ sub[s].pc = "getjob"
  /\ \/ job.fp = sub[s].fp /\ sub' = [sub EXCEPT ![s].pc = "upsert", ![s].uid = job.uid]
     \/ job.fp \notin {None, sub[s].fp} /\ Fail(s, "mismatch")
     \/ job = NoJob /\ Goto(s, IF sub[s].existed THEN "artifacts" ELSE "upsert")
  /\ UNCHANGED <<labelOf, store, cluster, slot, can, faults, history>>

\* Mutant: a manifest without its Job is always run again.
RunAgain(s) ==
  /\ sub[s].pc = "artifacts"
  /\ Goto(s, "upsert")
  /\ UNCHANGED <<labelOf, store, cluster, slot, can, faults, history>>

\* What is there but has no Job any more is archived, and not run again.
HasBenchmarkArtifacts(s) ==
  /\ sub[s].pc = "artifacts"
  /\ IF artifacts[Dir(s)] # {} THEN Return(s, "archived") ELSE Goto(s, "upsert")
  /\ UNCHANGED <<labelOf, store, cluster, slot, can, faults, history>>

\* Create the Service, or accept the one that has the same fingerprint. With a Job
\* in hand the owner is next, else the Job.
UpsertManagedService(s) ==
  /\ sub[s].pc = "upsert"
  /\ service' = IF service = NoService THEN [fp |-> sub[s].fp, owner |-> 0] ELSE service
  /\ IF service'.fp = sub[s].fp THEN Goto(s, IF sub[s].uid # 0 THEN "attach" ELSE "create")
                                ELSE Fail(s, "mismatch")
  /\ UNCHANGED <<labelOf, store, job, pods, lastUid, artifacts, slot, can, faults, history>>

\* Create the Job, or accept the one that another submission has just created.
CreateJob(s) ==
  /\ sub[s].pc = "create"
  /\ IF job = NoJob
     THEN /\ lastUid' = lastUid + 1
          /\ job' = [fp |-> sub[s].fp, uid |-> lastUid', phase |-> "pending", contested |-> Lingering]
          /\ sub' = [sub EXCEPT ![s].pc = "attach", ![s].uid = lastUid', ![s].created = TRUE]
          /\ overlaid' = (overlaid \/ sub[s].stale)
     ELSE /\ IF job.fp = sub[s].fp THEN sub' = [sub EXCEPT ![s].pc = "attach", ![s].uid = job.uid]
                                   ELSE Fail(s, "mismatch")
          /\ UNCHANGED <<job, lastUid, overlaid>>
  /\ UNCHANGED <<labelOf, store, service, pods, artifacts, slot, can, faults, removed>>

\* Mutant: the owner is only set by the submission that created the Job.
OwnerByCreator(s) ==
  /\ sub[s].pc = "attach"
  /\ service' = IF sub[s].created /\ service # NoService THEN [service EXCEPT !.owner = sub[s].uid] ELSE service
  /\ Return(s, IF sub[s].created THEN "created" ELSE "existing")
  /\ UNCHANGED <<labelOf, store, job, pods, lastUid, artifacts, slot, can, faults, history>>

\* The Job becomes the Service's owner, so that Kubernetes removes both.
AttachServiceOwner(s) ==
  /\ sub[s].pc = "attach"
  /\ IF service.fp = sub[s].fp
     THEN /\ service' = [service EXCEPT !.owner = sub[s].uid]
          /\ Return(s, IF sub[s].created THEN "created" ELSE "existing")
     ELSE Fail(s, "error") /\ UNCHANGED service
  /\ UNCHANGED <<labelOf, store, job, pods, lastUid, artifacts, slot, can, faults, history>>

\* A call to Kubernetes fails, or the client goes away while its call waits for the
\* compiler or for Kubernetes.
CallFails(s) ==
  /\ sub[s].pc \in Calling \cup {"compile"} /\ faults < MaxFaults
  /\ Fail(s, "error")
  /\ faults' = faults + 1
  /\ UNCHANGED <<labelOf, store, cluster, slot, can, history>>

-----------------------------------------------------------------------------
(* Cancelling.                                                             *)

\* Mutant: getManagedJob takes any Job of that name for the server's own.
CancelAnyJob(c) ==
  /\ can[c].pc = "idle"
  /\ can' = [can EXCEPT ![c] =
       IF job # NoJob /\ job.phase # "ended" THEN [pc |-> "delete", fp |-> job.fp, uid |-> job.uid]
                                             ELSE [pc |-> "over", fp |-> None, uid |-> 0]]
  /\ UNCHANGED <<labelOf, store, cluster, slot, sub, faults, history>>

\* A run that is there and has not ended can be cancelled; nothing happens to
\* another.
CancelGetJob(c) ==
  /\ can[c].pc = "idle"
  /\ can' = [can EXCEPT ![c] =
       IF ManagedJob /\ job.phase # "ended" THEN [pc |-> "delete", fp |-> job.fp, uid |-> job.uid]
                                           ELSE [pc |-> "over", fp |-> None, uid |-> 0]]
  /\ UNCHANGED <<labelOf, store, cluster, slot, sub, faults, history>>

\* The Job of that name is deleted, whichever it is by now; its pods stop later.
CancelDeleteJob(c) ==
  /\ can[c].pc = "delete"
  /\ job' = NoJob
  /\ can' = [can EXCEPT ![c].pc = "getservice"]
  /\ UNCHANGED <<labelOf, store, service, pods, lastUid, artifacts, slot, sub, faults, history>>

\* deleteServiceIfFingerprint reads the Service and compares its fingerprint.
CancelGetService(c) ==
  /\ can[c].pc = "getservice"
  /\ can' = [can EXCEPT ![c].pc = IF service.fp = can[c].fp THEN "deleteservice" ELSE "over"]
  /\ UNCHANGED <<labelOf, store, cluster, slot, sub, faults, history>>

\* Then it deletes the Service of that name.
CancelDeleteService(c) ==
  /\ can[c].pc = "deleteservice"
  /\ service' = NoService
  /\ can' = [can EXCEPT ![c].pc = "over"]
  /\ UNCHANGED <<labelOf, store, job, pods, lastUid, artifacts, slot, sub, faults, history>>

\* A call to Kubernetes fails, or the client goes away: the cancel stops half way.
CancelFails(c) ==
  /\ can[c].pc \in Cancelling /\ faults < MaxFaults
  /\ can' = [can EXCEPT ![c].pc = "over"]
  /\ faults' = faults + 1
  /\ UNCHANGED <<labelOf, store, cluster, slot, sub, history>>

-----------------------------------------------------------------------------
(* Kubernetes and the server's process.                                    *)

\* The Job's pods start, and end.
StartPods ==
  /\ ManagedJob /\ job.phase = "pending"
  /\ job' = [job EXCEPT !.phase = "running"]
  /\ pods' = pods \cup {job.fp}
  /\ UNCHANGED <<labelOf, store, service, lastUid, artifacts, slot, sub, can, faults, history>>

WriteArtifacts(f) ==
  /\ f \in pods /\ f \notin artifacts[labelOf[f]]
  /\ artifacts' = [artifacts EXCEPT ![labelOf[f]] = @ \cup {f}]
  /\ UNCHANGED <<labelOf, store, job, service, pods, lastUid, slot, sub, can, faults, history>>

JobEnds ==
  /\ ManagedJob /\ job.phase = "running"
  /\ job' = [job EXCEPT !.phase = "ended"]
  /\ pods' = pods \ {job.fp}
  /\ UNCHANGED <<labelOf, store, service, lastUid, artifacts, slot, sub, can, faults, history>>

\* The pods of a deleted Job are stopped.
StopPods(f) ==
  /\ f \in pods /\ job.fp # f
  /\ pods' = pods \ {f}
  /\ UNCHANGED <<labelOf, store, job, service, lastUid, artifacts, slot, sub, can, faults, history>>

\* The retention time of a finished Job is over.
Expire ==
  /\ job.phase = "ended" /\ faults < MaxFaults
  /\ job' = NoJob
  /\ faults' = faults + 1
  /\ UNCHANGED <<labelOf, store, service, pods, lastUid, artifacts, slot, sub, can, history>>

\* A Service whose owner no longer exists is collected.
CollectService ==
  /\ service.owner # 0 /\ service.owner # job.uid
  /\ service' = NoService
  /\ UNCHANGED <<labelOf, store, job, pods, lastUid, artifacts, slot, sub, can, faults, history>>

\* The server stops and is started again: every call it served is cut.
Restart ==
  /\ faults < MaxFaults /\ faults' = faults + 1
  /\ sub' = [s \in Submitters |-> IF sub[s].pc \in Working THEN Fresh("error", None) ELSE sub[s]]
  /\ can' = [c \in Cancellers |-> IF can[c].pc \in Cancelling THEN [can[c] EXCEPT !.pc = "over"] ELSE can[c]]
  /\ slot' = None
  /\ UNCHANGED <<labelOf, store, cluster, history>>

-----------------------------------------------------------------------------
Init ==
  /\ labelOf \in Labellings
  /\ index = None /\ dirManifest = [l \in Labels |-> None] /\ artifacts = [l \in Labels |-> {}]
  /\ job \in {NoJob, ForeignJob}
  /\ service \in {NoService, [fp |-> Foreign, owner |-> 0]}
  /\ pods = {} /\ lastUid = 0 /\ slot = None
  /\ sub = [s \in Submitters |-> Fresh("idle", None)]
  /\ can = [c \in Cancellers |-> [pc |-> "idle", fp |-> None, uid |-> 0]]
  /\ faults = 0
  /\ removed = FALSE /\ overlaid = FALSE

SubmitterStep(s) ==
  \/ Submit(s) \/ AcquireSlot(s) \/ Compiled(s)
  \/ PersistIndex(s) \/ PersistDirectory(s)
  \/ GetJob(s) \/ HasBenchmarkArtifacts(s) \/ UpsertManagedService(s) \/ CreateJob(s) \/ AttachServiceOwner(s)

CancelStep(c) == CancelGetJob(c) \/ CancelDeleteJob(c) \/ CancelGetService(c) \/ CancelDeleteService(c)
Kubernetes == \/ StartPods \/ JobEnds \/ Expire \/ CollectService
              \/ \E f \in Fingerprints : WriteArtifacts(f) \/ StopPods(f)

\* Everything has been answered and has come to rest.
Done ==
  /\ \A s \in Submitters : sub[s].pc \in Answered
  /\ \A c \in Cancellers : can[c].pc \notin Cancelling
  /\ UNCHANGED vars

Next ==
  \/ \E s \in Submitters : SubmitterStep(s) \/ StorageFails(s) \/ CallFails(s)
  \/ \E c \in Cancellers : CancelStep(c) \/ CancelFails(c)
  \/ Kubernetes
  \/ Restart
  \/ Done

Spec == Init /\ [][Next]_vars

\* A client calls and calls again; the server works off what it has accepted, and
\* so does Kubernetes' garbage collector. Jobs need not end, nobody need cancel.
Fairness ==
  /\ \A s \in Submitters : WF_vars(SubmitterStep(s))
  /\ \A c \in Cancellers : WF_vars(can[c].pc # "idle" /\ CancelStep(c))
  /\ WF_vars(CollectService)

FairSpec == Spec /\ Fairness

-----------------------------------------------------------------------------
(* Properties.                                                             *)

\* Type invariant: every store, resource and call of the control API holds a value
\* it can have; what is being cancelled is always a run of this server, never a
\* Job that somebody else made under its name (getManagedJob).
TypeOK ==
  /\ labelOf \in [Fingerprints -> Labels]
  /\ index \in Fingerprints \cup {None}
  /\ dirManifest \in [Labels -> Fingerprints \cup {None}]
  /\ artifacts \in [Labels -> SUBSET Fingerprints]
  /\ job \in [fp : Fingerprints \cup {None, Foreign}, uid : 0..lastUid,
              phase : {"none", "pending", "running", "ended"}, contested : BOOLEAN]
  /\ service \in [fp : Fingerprints \cup {None, Foreign}, owner : 0..lastUid]
  /\ pods \subseteq Fingerprints /\ lastUid \in Nat
  /\ slot \in Submitters \cup {None}
  /\ sub \in [Submitters -> [pc : {"idle", "error"} \cup Working \cup Answered,
                             fp : Fingerprints \cup {None}, existed : BOOLEAN, uid : 0..lastUid,
                             created : BOOLEAN, stale : BOOLEAN]]
  /\ can \in [Cancellers -> [pc : {"idle", "over"} \cup Cancelling,
                             fp : Fingerprints \cup {None}, uid : 0..lastUid]]
  /\ faults \in 0..MaxFaults
  /\ removed \in BOOLEAN /\ overlaid \in BOOLEAN

\* A run id stands for one specification (createOrValidateManifest, and the comment
\* in upsertManagedService): the index entry, the manifest in the directory, the
\* Service, the Job and every submission answered with the run agree, whatever
\* submissions, cancels, failures and restarts came between, as long as no failed
\* submission has taken its index entry back (persistRunManifest).
OneSpecification ==
  ~removed =>
    /\ {service.fp, job.fp} \subseteq {None, Foreign, index}
    /\ \A s \in Submitters : sub[s].pc \in Succeeded => sub[s].fp = index
    /\ \A l \in Labels : dirManifest[l] \in {None, index}

\* The artifacts of one directory all come from the specification of the manifest
\* in it, even when an index entry has been taken back: a report never mixes the
\* requests of two specifications (persistRunManifest's second manifest).
OneSource == \A l \in Labels : artifacts[l] \subseteq {dirManifest[l]}

\* A Job whose submission has returned keeps the Service it owns, which its pods
\* find each other by, as long as the Job is there (submitBenchmark), unless calls
\* for an earlier Job of that name were still at work when it was created.
ServiceOfRun ==
  \A s \in Submitters :
    (sub[s].pc \in {"created", "existing"} /\ sub[s].uid = job.uid /\ ~job.contested)
      => service = [fp |-> job.fp, owner |-> job.uid]

\* A run that has artifacts when it is submitted is not run over them, unless its
\* index entry was taken back in between (submitBenchmark's artifact check).
NoStaleRerun == overlaid => removed

\* A cancel only deletes a Service that no later Job owns
\* (TestServiceOwnerAndFingerprintSafeCancellation).
OwnershipRespected ==
  [][\A c \in Cancellers : CancelDeleteService(c) => service.owner \in {0, can[c].uid}]_vars

\* Every client is answered in the end, by a run or by a final refusal: retries get
\* past whatever a failed or cut submission left behind, and the compiler is free
\* again after every use.
EveryClientAnswered == \A s \in Submitters : <>(sub[s].pc \in Answered)
=============================================================================

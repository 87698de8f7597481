---------------------- MODULE ClusterSummaryReconciler ----------------------
(***************************************************************************)
(* The ClusterSummary reconciler (controllers/clustersummary_controller.go)*)
(* together with the parts of its environment it depends on: the          *)
(* controller work queue, the API server holding ClusterSummaries,         *)
(* WorkloadRoles and ConfigMaps, the event handlers that map a changed     *)
(* WorkloadRole or ConfigMap to the ClusterSummaries referencing it, and   *)
(* the workload clusters features are deployed to.                         *)
(*                                                                         *)
(* A pass of Reconcile is split into the steps between which another       *)
(* worker, an event handler or the user can act: Get, addFinalizer (an API *)
(* write), the in-memory prefix generation and updatesMaps (under Mux),    *)
(* per feature the hash comparison and the deploy call, the undeploy calls *)
(* and the deferred scope Close (the status write-back).                   *)
(***************************************************************************)
EXTENDS Naturals, Sequences, FiniteSets, Functions

CONSTANTS
    CS,              \* ClusterSummary names
    Refs,            \* referenced objects: "<kind>-<namespace>-<name>" keys
    Workers,         \* MaxConcurrentReconciles workers
    Data,            \* contents a WorkloadRole or ConfigMap may hold
    SpecChoices,     \* ClusterFeatureSpec values a ClusterSummary may have
    PolicyPrefixes,  \* values "cs" + util.RandomString(10) may produce
    Broken,          \* features whose deploy always fails (misconfigured)
    Absent,          \* content of an object that does not exist
    NotConfigured,   \* a nil KyvernoConfiguration / PrometheusConfiguration
    NoSummary,       \* no FeatureSummary entry for a feature
    NoHash,          \* a FeatureSummary that never recorded a hash
    NotDeployed,     \* nothing of a feature is on the workload cluster
    NoPrefix,        \* Status.PolicyPrefix == ""
    MaxFaults,       \* API / workload-cluster call failures
    MaxChanges,      \* WorkloadRole / ConfigMap content changes
    MaxEdits,        \* ClusterSummary spec edits
    MaxCreates,      \* ClusterSummary re-creations after removal
    MaxDeletes,      \* ClusterSummary delete requests
    MaxClusterDeletes, \* CAPI Cluster deletions
    MaxCrashes,      \* controller restarts
    MaxOwnerDeletes  \* owner ClusterFeature removals

\* deploy() and undeploy() handle the features in this order.
Features == <<"Role", "Kyverno", "Prometheus">>
FeatureIds == Range(Features)

ASSUME Broken \subseteq FeatureIds
ASSUME \A s \in SpecChoices :
          /\ DOMAIN s = FeatureIds
          /\ s["Role"] # NotConfigured

VARIABLES
    content,            \* [Refs -> Data \cup {Absent}]: API server objects
    clusterSummary,     \* [CS -> object]: the ClusterSummaries as persisted
    clusterExists,      \* [CS -> BOOLEAN]: the CAPI Cluster of each summary
    ownerExists,        \* [CS -> BOOLEAN]: the owner ClusterFeature of each summary
    deployed,           \* [CS -> [FeatureIds -> ...]]: on the workload cluster
    referenceMap,       \* ReferenceMap: entry -> ClusterSummaries
    clusterSummaryMap,  \* ClusterSummaryMap: ClusterSummary -> entries
    queue,              \* work queue: keys waiting for a worker
    dirty,              \* keys added while being processed
    worker,             \* [Workers -> record]: one Reconcile call each
    usedPrefix,         \* history: prefix the deploys of a summary used
    spent               \* how much of each bound is used

vars == <<content, clusterSummary, clusterExists, ownerExists, deployed, referenceMap,
          clusterSummaryMap, queue, dirty, worker, usedPrefix, spent>>

-----------------------------------------------------------------------------
(* Values                                                                  *)

Hash == Seq(Data)
Summary == [st : {"Provisioning", "Provisioned", "Failed"},
            hash : Hash \cup {NoHash}]
EmptyStatus == [f \in FeatureIds |-> NoSummary]
Object == [exists : BOOLEAN, deleting : BOOLEAN, finalizer : BOOLEAN,
           spec : SpecChoices, prefix : PolicyPrefixes \cup {NoPrefix},
           status : [FeatureIds -> Summary \cup {NoSummary}]]
NewObject(s) == [exists |-> TRUE, deleting |-> FALSE, finalizer |-> FALSE,
                 spec |-> s, prefix |-> NoPrefix, status |-> EmptyStatus]
Removed(o) == [o EXCEPT !.exists = FALSE, !.deleting = FALSE,
                        !.finalizer = FALSE, !.prefix = NoPrefix,
                        !.status = EmptyStatus]
Pcs == {"idle", "get", "finalizer", "prepare", "feature", "call",
        "undeploy", "undeployF", "close"}

-----------------------------------------------------------------------------
(* Helpers translated from the source                                      *)

\* getWorkloadRoleRefs / getKyvernoRefs / getPrometheusRefs
RefsOf(s, f) == IF s[f] = NotConfigured THEN <<>> ELSE s[f]

\* deployRoles always runs; deployKyverno and deployPrometheus return nil
\* when their configuration is nil.
Configured(s, f) == f = "Role" \/ s[f] # NotConfigured

\* getCurrentReferences: every WorkloadRole, and the ConfigMaps of the
\* non-nil Kyverno and Prometheus configurations.
CurrentReferences(s) == UNION {Range(RefsOf(s, f)) : f \in FeatureIds}

\* prometheusHash (and its siblings): the contents of the referenced objects
\* that exist, in reference order, concatenated; a missing object adds
\* nothing and a nil configuration yields the hash of the empty input.
\* sha256 is taken as injective, so the hash is the concatenated sequence.
\* Mutant of prometheusHash: a NotFound object is not skipped (the
\* "continue" dropped) and its missing content goes into the hash.
FeatureHashWithMissing(s, f) == [i \in 1..Len(RefsOf(s, f)) |-> content[RefsOf(s, f)[i]]]

FeatureHash(s, f) ==
    LET present == SelectSeq(RefsOf(s, f), LAMBDA r : content[r] # Absent)
    IN  [i \in 1..Len(present) |-> content[present[i]]]

\* What one deploy call of feature f puts on the workload cluster for spec s.
\* deployPrometheus reads no ConfigMap: it installs the same charts whatever
\* the referenced ConfigMaps hold, written here as the empty content.  The
\* Role and Kyverno deploy functions are not under src/; spec section 6 has
\* them read the referenced objects themselves, through their payload
\* reference, at the time of the call.
Deploys(s, f) == IF f = "Prometheus" THEN <<>> ELSE FeatureHash(s, f)

\* getReferenceMapForEntry(e).insert(c) / .erase(c) over a set of entries.
InsertConsumer(m, S, c) == [e \in DOMAIN m |-> IF e \in S THEN m[e] \cup {c} ELSE m[e]]
EraseConsumer(m, S, c)  == [e \in DOMAIN m |-> IF e \in S THEN m[e] \ {c} ELSE m[e]]

\* Mutants of updatesMaps: the difference taken the wrong way round, the
\* erase loop dropped, the ClusterSummaryMap assignment dropped.
UpdatesMapsSwappedDifference(c, s) ==
    LET current == CurrentReferences(s)
    IN  /\ referenceMap' = EraseConsumer(InsertConsumer(referenceMap, current, c),
                                         current \ clusterSummaryMap[c], c)
        /\ clusterSummaryMap' = [clusterSummaryMap EXCEPT ![c] = current]
UpdatesMapsNoErase(c, s) ==
    /\ referenceMap' = InsertConsumer(referenceMap, CurrentReferences(s), c)
    /\ clusterSummaryMap' = [clusterSummaryMap EXCEPT ![c] = CurrentReferences(s)]
UpdatesMapsNoSummaryMap(c, s) ==
    /\ referenceMap' = EraseConsumer(InsertConsumer(referenceMap, CurrentReferences(s), c),
                                     clusterSummaryMap[c] \ CurrentReferences(s), c)
    /\ UNCHANGED clusterSummaryMap

\* updatesMaps, run with Mux held: add c as consumer of every current
\* reference, remove it from those no longer referenced, then record the
\* current references in ClusterSummaryMap.
UpdatesMaps(c, s) ==
    LET current   == CurrentReferences(s)
        toBeRemoved == clusterSummaryMap[c] \ current
    IN  /\ referenceMap' = EraseConsumer(InsertConsumer(referenceMap, current, c),
                                         toBeRemoved, c)
        /\ clusterSummaryMap' = [clusterSummaryMap EXCEPT ![c] = current]

\* The work queue: a key added while a worker processes it is marked dirty
\* and handed out again only after that worker is done with it.
Processing == {worker[w].c : w \in {v \in Workers : worker[v].pc # "idle"}}
Add(S) == /\ queue' = queue \cup (S \ Processing)
          /\ dirty' = dirty \cup (S \cap Processing)

IdleWorker == [pc |-> "idle", c |-> CHOOSE c \in CS : TRUE,
               obj |-> NewObject(CHOOSE s \in SpecChoices : TRUE),
               fi |-> 1, hash |-> <<>>, failed |-> FALSE]

\* A fault of an API or workload-cluster call, out of a bounded budget.
Fault == /\ spent.faults < MaxFaults
         /\ spent' = [spent EXCEPT !.faults = @ + 1]

-----------------------------------------------------------------------------
(* Initial state: every ClusterSummary has just been created and queued.   *)

Init ==
    /\ \E d \in Data : content = [r \in Refs |-> d]
    /\ \E s \in [CS -> SpecChoices] : clusterSummary = [c \in CS |-> NewObject(s[c])]
    /\ clusterExists = [c \in CS |-> TRUE]
    /\ ownerExists = [c \in CS |-> TRUE]
    /\ deployed = [c \in CS |-> [f \in FeatureIds |-> NotDeployed]]
    /\ referenceMap = [e \in Refs |-> {}]
    /\ clusterSummaryMap = [c \in CS |-> {}]
    /\ queue = CS
    /\ dirty = {}
    /\ worker = [w \in Workers |-> IdleWorker]
    /\ usedPrefix = [c \in CS |-> NoPrefix]
    /\ spent = [faults |-> 0, changes |-> 0, edits |-> 0, creates |-> 0,
                deletes |-> 0, clusterDeletes |-> 0, crashes |-> 0, ownerDeletes |-> 0]

-----------------------------------------------------------------------------
(* The Reconcile call of one worker                                        *)

\* Return from Reconcile; the work queue's Done, plus AddAfter /
\* AddRateLimited when the result asks for a requeue or returns an error.
Finish(w, requeue) ==
    LET c == worker[w].c
    IN  /\ worker' = [worker EXCEPT ![w] = IdleWorker]
        /\ queue' = IF requeue \/ c \in dirty THEN queue \cup {c} ELSE queue
        /\ dirty' = dirty \ {c}

\* An API write of the ClusterSummary: NotFound once it is gone, or a fault.
PatchSucceeds(c) == clusterSummary[c].exists /\ UNCHANGED spent
PatchFails(c) == \/ ~clusterSummary[c].exists /\ UNCHANGED spent
                 \/ clusterSummary[c].exists /\ Fault

\* A worker takes a key no other worker is processing.
Dequeue(w, c) ==
    /\ worker[w].pc = "idle"
    /\ c \in queue
    /\ queue' = queue \ {c}
    /\ worker' = [worker EXCEPT ![w] = [IdleWorker EXCEPT !.pc = "get", !.c = c]]
    /\ UNCHANGED <<content, clusterSummary, clusterExists, ownerExists, deployed, referenceMap,
                   clusterSummaryMap, dirty, usedPrefix, spent>>

\* Reconcile: fetch the ClusterSummary (NotFound ends the pass quietly), its
\* owner and the scope, any failure of which (a missing owner included)
\* returns an error; then branch on DeletionTimestamp.
Get(w) ==
    LET c == worker[w].c
        o == clusterSummary[c]
    IN  /\ worker[w].pc = "get"
        /\ \/ /\ ~o.exists
              /\ Finish(w, FALSE)
              /\ UNCHANGED spent
           \/ /\ o.exists
              /\ \/ ~ownerExists[c] /\ UNCHANGED spent
                 \/ Fault
              /\ Finish(w, TRUE)
           \/ /\ o.exists /\ ownerExists[c]
              /\ worker' = [worker EXCEPT ![w].obj = o,
                              ![w].pc = IF o.deleting THEN "undeploy" ELSE "finalizer"]
              /\ UNCHANGED <<queue, dirty, spent>>
        /\ UNCHANGED <<content, clusterSummary, clusterExists, ownerExists, deployed, referenceMap,
                       clusterSummaryMap, usedPrefix>>

\* Mutant of addFinalizer: the finalizer is only set in memory and reaches
\* the API server with the deferred Close.
AddFinalizerDeferred(w) ==
    /\ worker[w].pc = "finalizer"
    /\ worker' = [worker EXCEPT ![w].obj.finalizer = TRUE, ![w].pc = "prepare"]
    /\ UNCHANGED <<content, clusterSummary, clusterExists, ownerExists, deployed, referenceMap,
                   clusterSummaryMap, queue, dirty, usedPrefix, spent>>

\* reconcileNormal / addFinalizer: add the finalizer and patch it at once;
\* if the patch fails, return the error (the deferred Close still runs).
AddFinalizer(w) ==
    LET c == worker[w].c
    IN  /\ worker[w].pc = "finalizer"
        /\ \/ /\ worker[w].obj.finalizer
              /\ worker' = [worker EXCEPT ![w].pc = "prepare"]
              /\ UNCHANGED <<clusterSummary, queue, dirty, spent>>
           \/ /\ ~worker[w].obj.finalizer
              /\ PatchSucceeds(c)
              /\ clusterSummary' = [clusterSummary EXCEPT ![c].finalizer = TRUE]
              /\ worker' = [worker EXCEPT ![w].obj.finalizer = TRUE, ![w].pc = "prepare"]
              /\ Add({c})
           \/ /\ ~worker[w].obj.finalizer
              /\ PatchFails(c)
              /\ worker' = [worker EXCEPT ![w].obj.finalizer = TRUE, ![w].pc = "close",
                                          ![w].failed = TRUE]
              /\ UNCHANGED <<clusterSummary, queue, dirty>>
        /\ UNCHANGED <<content, clusterExists, ownerExists, deployed, referenceMap,
                       clusterSummaryMap, usedPrefix>>

\* generatePolicyNamePrefix: a fresh random prefix while Status has none.
GeneratePolicyNamePrefix(o, p) ==
    IF o.prefix = NoPrefix THEN [o EXCEPT !.prefix = p] ELSE o

\* reconcileNormal: generatePolicyNamePrefix, then updatesMaps under Mux.
Prepare(w) ==
    LET c == worker[w].c
    IN  /\ worker[w].pc = "prepare"
        /\ \E p \in PolicyPrefixes :
              worker' = [worker EXCEPT ![w].obj = GeneratePolicyNamePrefix(@, p),
                                       ![w].pc = "feature", ![w].fi = 1]
        /\ UpdatesMaps(c, worker[w].obj.spec)
        /\ UNCHANGED <<content, clusterSummary, clusterExists, ownerExists, deployed, queue,
                       dirty, usedPrefix, spent>>

\* deploy(): every feature is handled, whatever the outcome of the previous.
NextFeature(wr) ==
    IF wr.fi = Len(Features) THEN [wr EXCEPT !.pc = "close"]
                             ELSE [wr EXCEPT !.pc = "feature", !.fi = @ + 1]

\* Mutant of deploy(): return at the first failed feature.
AfterFailedDeployReturn(wr) == [wr EXCEPT !.pc = "close", !.failed = TRUE]

\* deploy(): a failed feature records its error and the next one still runs;
\* the first error is returned once all are done.
AfterFailedDeploy(wr) == NextFeature([wr EXCEPT !.failed = TRUE])

PrevHash(sum) == IF sum = NoSummary THEN NoHash ELSE sum.hash

\* prometheusHash (and its siblings) Gets every referenced object: NotFound
\* is skipped, any other error is returned, and deployFeature returns it
\* before touching the FeatureSummary.
HashGetFails(s, f) == Configured(s, f) /\ RefsOf(s, f) # <<>>

\* deployRoles / deployKyverno / deployPrometheus, and the hash comparison
\* of deployFeature: a nil configuration or an unchanged hash of a
\* Provisioned feature skips the deploy call; a failed hash fails the
\* feature and deploy() goes on with the next one.
FeatureStep(w) ==
    LET wr  == worker[w]
        f   == Features[wr.fi]
        h   == FeatureHash(wr.obj.spec, f)
        sum == wr.obj.status[f]
        unchanged == sum # NoSummary /\ sum.st = "Provisioned" /\ sum.hash = h
    IN  /\ wr.pc = "feature"
        /\ \/ /\ ~Configured(wr.obj.spec, f) \/ unchanged
              /\ worker' = [worker EXCEPT ![w] = NextFeature(wr)]
              /\ UNCHANGED spent
           \/ /\ Configured(wr.obj.spec, f) /\ ~unchanged
              /\ worker' = [worker EXCEPT ![w].pc = "call", ![w].hash = h]
              /\ UNCHANGED spent
           \/ /\ HashGetFails(wr.obj.spec, f)
              /\ Fault
              /\ worker' = [worker EXCEPT ![w] = AfterFailedDeploy(wr)]
        /\ UNCHANGED <<content, clusterSummary, clusterExists, ownerExists, deployed, referenceMap,
                       clusterSummaryMap, queue, dirty, usedPrefix>>

\* The deploy call of deployFeature: it Gets the ClusterSummary again
\* (deployPrometheus, set_test.go 106), so it deploys what the current spec
\* asks for (Deploys) under the policy prefix; with the configuration
\* removed meanwhile it deploys nothing.
\* (During a normal pass the summary holds its finalizer, so it exists.)
\* Success records Provisioned and
\* the hash; failure records Failed with the previous hash, possibly after
\* part of the feature reached the cluster.
DeployCall(w) ==
    LET wr  == worker[w]
        c   == wr.c
        f   == Features[wr.fi]
        cur == clusterSummary[c].spec
        now == IF Configured(cur, f) THEN Deploys(cur, f) ELSE deployed[c][f]
        sum == wr.obj.status[f]
    IN  /\ wr.pc = "call"
        /\ \/ /\ clusterExists[c] /\ f \notin Broken
              /\ UNCHANGED spent
              /\ deployed' = [deployed EXCEPT ![c][f] = now]
              /\ usedPrefix' = [usedPrefix EXCEPT ![c] = wr.obj.prefix]
              /\ worker' = [worker EXCEPT ![w] = NextFeature([wr EXCEPT
                               !.obj.status[f] = [st |-> "Provisioned", hash |-> wr.hash]])]
           \/ /\ \/ (~clusterExists[c] \/ f \in Broken) /\ UNCHANGED spent
                 \/ clusterExists[c] /\ f \notin Broken /\ Fault
              /\ \E d \in IF clusterExists[c] THEN {deployed[c][f], now} ELSE {deployed[c][f]} :
                   /\ deployed' = [deployed EXCEPT ![c][f] = d]
                   /\ usedPrefix' = IF d = deployed[c][f] THEN usedPrefix
                                    ELSE [usedPrefix EXCEPT ![c] = wr.obj.prefix]
              /\ worker' = [worker EXCEPT ![w] =
                               AfterFailedDeploy([wr EXCEPT
                               !.obj.status[f] = [st |-> "Failed", hash |-> PrevHash(sum)]])]
        /\ UNCHANGED <<content, clusterSummary, clusterExists, ownerExists, referenceMap,
                       clusterSummaryMap, queue, dirty>>

\* Mutant of reconcileDelete: an undeploy error returns Result{} and nil.
DeleteNoRequeue(wr) == [wr EXCEPT !.pc = "close", !.failed = FALSE]

\* reconcileDelete: an undeploy error asks for a requeue after
\* deleteRequeueAfter and keeps the finalizer.
DeleteRequeue(wr) == [wr EXCEPT !.pc = "close", !.failed = TRUE]

\* reconcileDelete / undeploy: a CAPI Cluster that is gone leaves nothing to
\* clean up, so the finalizer goes; a failed Get of it is an error.
UndeployStart(w) ==
    LET c == worker[w].c
    IN  /\ worker[w].pc = "undeploy"
        /\ \/ /\ ~clusterExists[c]
              /\ worker' = [worker EXCEPT ![w].obj.finalizer = FALSE, ![w].pc = "close"]
              /\ UNCHANGED spent
           \/ /\ clusterExists[c]
              /\ Fault
              /\ worker' = [worker EXCEPT ![w] = DeleteRequeue(@)]
           \/ /\ clusterExists[c]
              /\ worker' = [worker EXCEPT ![w].pc = "undeployF", ![w].fi = 1]
              /\ UNCHANGED spent
        /\ UNCHANGED <<content, clusterSummary, clusterExists, ownerExists, deployed, referenceMap,
                       clusterSummaryMap, queue, dirty, usedPrefix>>

\* undeployRoles / undeployKyverno / undeployPrometheus (undeployFeature):
\* all three run; after the last, reconcileDelete removes the finalizer
\* only if none failed, and otherwise asks for a requeue.
AfterUndeploy(wr) ==
    IF wr.fi < Len(Features) THEN [wr EXCEPT !.fi = @ + 1]
    ELSE IF wr.failed THEN DeleteRequeue(wr)
    ELSE [wr EXCEPT !.pc = "close", !.obj.finalizer = FALSE]

\* What an undeploy function leaves of a feature on the cluster:
\* unDeployPrometheus has "nothing specific to do" and returns nil.
Undeployed(f, d) == IF f = "Prometheus" THEN d ELSE NotDeployed

UndeployFeature(w) ==
    LET wr == worker[w]
        c  == wr.c
        f  == Features[wr.fi]
    IN  /\ wr.pc = "undeployF"
        /\ \/ /\ UNCHANGED spent
              /\ deployed' = [deployed EXCEPT ![c][f] = Undeployed(f, @)]
              /\ worker' = [worker EXCEPT ![w] =
                               AfterUndeploy([wr EXCEPT !.obj.status[f] = NoSummary])]
           \/ /\ Fault
              /\ worker' = [worker EXCEPT ![w] = AfterUndeploy([wr EXCEPT !.failed = TRUE])]
              /\ UNCHANGED deployed
        /\ UNCHANGED <<content, clusterSummary, clusterExists, ownerExists, referenceMap,
                       clusterSummaryMap, queue, dirty, usedPrefix>>

\* The deferred clusterSummaryScope.Close: patch finalizers and status
\* (PolicyPrefix included) from the in-memory copy.  A deleting summary
\* without finalizers is then removed by the API server.  A changed object
\* raises a watch event that queues the summary again.
Close(w) ==
    LET wr  == worker[w]
        c   == wr.c
        old == clusterSummary[c]
        new == [old EXCEPT !.finalizer = wr.obj.finalizer, !.prefix = wr.obj.prefix,
                           !.status = wr.obj.status]
        gone == old.deleting /\ ~wr.obj.finalizer
    IN  /\ wr.pc = "close"
        /\ \/ /\ PatchSucceeds(c)
              /\ clusterSummary' = [clusterSummary EXCEPT ![c] = IF gone THEN Removed(new) ELSE new]
              /\ usedPrefix' = IF gone THEN [usedPrefix EXCEPT ![c] = NoPrefix] ELSE usedPrefix
              /\ Finish(w, wr.failed \/ clusterSummary'[c] # old)
           \/ /\ PatchFails(c)
              /\ Finish(w, TRUE)
              /\ UNCHANGED <<clusterSummary, usedPrefix>>
        /\ UNCHANGED <<content, clusterExists, ownerExists, deployed, referenceMap, clusterSummaryMap>>

WorkerStep(w) ==
    \/ Get(w) \/ AddFinalizer(w) \/ Prepare(w) \/ FeatureStep(w) \/ DeployCall(w)
    \/ UndeployStart(w) \/ UndeployFeature(w) \/ Close(w)

-----------------------------------------------------------------------------
(* The environment                                                         *)

\* A ClusterSummary that is gone is created again (by its ClusterFeature).
CreateClusterSummary(c, s) ==
    /\ ~clusterSummary[c].exists
    /\ spent.creates < MaxCreates
    /\ spent' = [spent EXCEPT !.creates = @ + 1]
    /\ clusterSummary' = [clusterSummary EXCEPT ![c] = NewObject(s)]
    /\ Add({c})
    /\ UNCHANGED <<content, clusterExists, ownerExists, deployed, referenceMap, clusterSummaryMap,
                   worker, usedPrefix>>

\* The ClusterFeatureSpec of a ClusterSummary changes; the watch For()
\* ClusterSummary queues it.
EditSpec(c, s) ==
    /\ clusterSummary[c].exists
    /\ s # clusterSummary[c].spec
    /\ spent.edits < MaxEdits
    /\ spent' = [spent EXCEPT !.edits = @ + 1]
    /\ clusterSummary' = [clusterSummary EXCEPT ![c].spec = s]
    /\ Add({c})
    /\ UNCHANGED <<content, clusterExists, ownerExists, deployed, referenceMap, clusterSummaryMap,
                   worker, usedPrefix>>

\* A delete request: with the finalizer the summary only gets a
\* DeletionTimestamp, without it the API server removes it at once.
DeleteClusterSummary(c) ==
    LET o == clusterSummary[c]
    IN  /\ o.exists /\ ~o.deleting
        /\ spent.deletes < MaxDeletes
        /\ spent' = [spent EXCEPT !.deletes = @ + 1]
        /\ clusterSummary' = [clusterSummary EXCEPT ![c] =
                                 IF o.finalizer THEN [o EXCEPT !.deleting = TRUE]
                                                ELSE Removed(o)]
        /\ usedPrefix' = IF o.finalizer THEN usedPrefix
                         ELSE [usedPrefix EXCEPT ![c] = NoPrefix]
        /\ Add({c})
        /\ UNCHANGED <<content, clusterExists, ownerExists, deployed, referenceMap, clusterSummaryMap,
                       worker>>

\* A WorkloadRole or ConfigMap is created, updated or deleted.  The handlers
\* registered in SetupWithManager queue, without I/O, the ClusterSummaries
\* ReferenceMap lists for it (requeueClusterSummaryFor*, under Mux).
ChangeContent(r, d) ==
    /\ d # content[r]
    /\ spent.changes < MaxChanges
    /\ spent' = [spent EXCEPT !.changes = @ + 1]
    /\ content' = [content EXCEPT ![r] = d]
    /\ Add(referenceMap[r])
    /\ UNCHANGED <<clusterSummary, clusterExists, ownerExists, deployed, referenceMap,
                   clusterSummaryMap, worker, usedPrefix>>

\* The CAPI Cluster is deleted, and with it what was deployed to it.
DeleteCluster(c) ==
    /\ clusterExists[c]
    /\ spent.clusterDeletes < MaxClusterDeletes
    /\ spent' = [spent EXCEPT !.clusterDeletes = @ + 1]
    /\ clusterExists' = [clusterExists EXCEPT ![c] = FALSE]
    /\ deployed' = [deployed EXCEPT ![c] = [f \in FeatureIds |-> NotDeployed]]
    /\ UNCHANGED <<content, clusterSummary, ownerExists, referenceMap, clusterSummaryMap,
                   queue, dirty, worker, usedPrefix>>

\* The controller process restarts: in-flight passes stop without running
\* their deferred Close, both maps start empty, and the informers' initial
\* list queues every existing ClusterSummary.
Restart ==
    /\ spent.crashes < MaxCrashes
    /\ spent' = [spent EXCEPT !.crashes = @ + 1]
    /\ worker' = [w \in Workers |-> IdleWorker]
    /\ queue' = {c \in CS : clusterSummary[c].exists}
    /\ dirty' = {}
    /\ referenceMap' = [e \in Refs |-> {}]
    /\ clusterSummaryMap' = [c \in CS |-> {}]
    /\ UNCHANGED <<content, clusterSummary, clusterExists, ownerExists, deployed, usedPrefix>>

\* The owner ClusterFeature is removed while the ClusterSummary remains.
DeleteOwner(c) ==
    /\ ownerExists[c]
    /\ spent.ownerDeletes < MaxOwnerDeletes
    /\ spent' = [spent EXCEPT !.ownerDeletes = @ + 1]
    /\ ownerExists' = [ownerExists EXCEPT ![c] = FALSE]
    /\ UNCHANGED <<content, clusterSummary, clusterExists, deployed, referenceMap,
                   clusterSummaryMap, queue, dirty, worker, usedPrefix>>

Environment ==
    \/ \E c \in CS, s \in SpecChoices : CreateClusterSummary(c, s) \/ EditSpec(c, s)
    \/ \E c \in CS : DeleteClusterSummary(c) \/ DeleteCluster(c) \/ DeleteOwner(c)
    \/ \E r \in Refs, d \in Data \cup {Absent} : ChangeContent(r, d)
    \/ Restart

Next ==
    \/ \E w \in Workers, c \in CS : Dequeue(w, c)
    \/ \E w \in Workers : WorkerStep(w)
    \/ Environment

\* Workers keep running their pass.  The work queue is FIFO and a failed
\* pass comes back only after RequeueAfter (20s) or the rate limiter's
\* delay, so a queued key cannot be overtaken forever by others: a key
\* that a worker is free to take again and again is eventually taken
\* (strong fairness, as workers are only intermittently idle).  The
\* environment owes nothing.
Fairness ==
    /\ \A w \in Workers : WF_vars(WorkerStep(w))
    /\ \A c \in CS : SF_vars(\E w \in Workers : Dequeue(w, c))

Spec == Init /\ [][Next]_vars /\ Fairness

-----------------------------------------------------------------------------
(* Properties                                                              *)

TypeOK ==
    /\ content \in [Refs -> Data \cup {Absent}]
    /\ clusterSummary \in [CS -> Object]
    /\ clusterExists \in [CS -> BOOLEAN]
    /\ ownerExists \in [CS -> BOOLEAN]
    /\ deployed \in [CS -> [FeatureIds -> Hash \cup {NotDeployed}]]
    /\ referenceMap \in [Refs -> SUBSET CS]
    /\ clusterSummaryMap \in [CS -> SUBSET Refs]
    /\ queue \subseteq CS /\ dirty \subseteq CS
    /\ worker \in [Workers -> [pc : Pcs, c : CS, obj : Object, fi : 1..Len(Features),
                               hash : Hash, failed : BOOLEAN]]
    /\ usedPrefix \in [CS -> PolicyPrefixes \cup {NoPrefix}]

\* The two maps updatesMaps keeps under Mux agree: an entry lists a
\* ClusterSummary as consumer exactly when that summary's recorded
\* references contain the entry, whatever order the workers' passes,
\* spec edits and restarts happen in.
IndexConsistent ==
    \A c \in CS, e \in Refs : e \in clusterSummaryMap[c] <=> c \in referenceMap[e]

\* ReferenceMap, the map the event handlers read, evolves as the abstract
\* reference index: each updatesMaps replaces the whole row of one summary
\* by the references of one of its specs (no entry of an older spec is
\* left behind), a restart empties it, and nothing else changes it.
Index == INSTANCE ReferenceIndex
            WITH Consumers <- CS, Entries <- Refs,
                 Rows <- {CurrentReferences(s) : s \in SpecChoices},
                 index <- {p \in CS \X Refs : p[1] \in referenceMap[p[2]]}
IndexRefinement == Index!Spec

\* A summary no worker holds and the queue does not hold.
Quiescent(c) == c \notin queue \cup dirty \cup Processing

\* No stale status: a live ClusterSummary that nothing is going to reconcile
\* again records, for every configured feature, Provisioned with the hash
\* of the current content of the objects it references.  This is what the
\* ReferenceMap scheme (no I/O in the map functions, updatesMaps before
\* deploy) and the dirty-key rule of the work queue must jointly guarantee
\* when a WorkloadRole or ConfigMap changes while its consumer is queued,
\* half way through a pass, or not yet indexed, and across restarts.
NoStaleStatus ==
    \A c \in CS :
        LET o == clusterSummary[c]
        IN  (Quiescent(c) /\ o.exists /\ ~o.deleting /\ clusterExists[c]) =>
               \A f \in FeatureIds : Configured(o.spec, f) =>
                  /\ o.status[f] # NoSummary
                  /\ o.status[f].st = "Provisioned"
                  /\ o.status[f].hash = FeatureHash(o.spec, f)

\* No change is lost (spec, purpose: decide per feature whether what is
\* deployed is still correct): a live ClusterSummary that nothing is going
\* to reconcile again has, for every configured feature, what its current
\* spec and the current content of its objects ask for deployed.  The hash
\* deployFeature records is computed before the deploy call reads the
\* objects again, so this can fail where NoStaleStatus holds.
NoLostChange ==
    \A c \in CS :
        LET o == clusterSummary[c]
        IN  (Quiescent(c) /\ o.exists /\ ~o.deleting /\ clusterExists[c]) =>
               \A f \in FeatureIds : Configured(o.spec, f) =>
                  deployed[c][f] = Deploys(o.spec, f)

\* The finalizer protocol ("register the finalizer immediately to avoid
\* orphaning clusterfeature resources on delete", addFinalizer): once a
\* ClusterSummary is gone from the API server, nothing deployed for it is
\* left on its (still existing) workload cluster, whatever crashes or
\* failed writes came in between.
NoOrphan ==
    \A c \in CS :
        (~clusterSummary[c].exists /\ clusterExists[c]) =>
            \A f \in FeatureIds : deployed[c][f] = NotDeployed

\* A feature is settled when what its current spec asks for is deployed and
\* recorded as Provisioned, or when nothing is asked of it.
FeatureSettled(c, f) ==
    LET o == clusterSummary[c]
    IN  \/ ~o.exists \/ o.deleting \/ ~clusterExists[c]
        \/ ~Configured(o.spec, f) \/ f \in Broken
        \/ /\ deployed[c][f] = Deploys(o.spec, f)
           /\ o.status[f] # NoSummary
           /\ o.status[f].st = "Provisioned"

\* Blast radius: a feature whose deploy can succeed ends up deployed and
\* Provisioned, even when a sibling feature fails on every pass.
Converges == \A c \in CS, f \in FeatureIds : <>[]FeatureSettled(c, f)

\* A ClusterSummary marked for deletion is eventually removed: the undeploy
\* retries after a failure and the finalizer is then removed.
DeletionCompletes ==
    \A c \in CS : clusterSummary[c].deleting ~> ~clusterSummary[c].exists

OwnerGoneQuiesces ==
    \A c \in CS : (clusterSummary[c].exists /\ ~ownerExists[c]) ~> Quiescent(c)
=============================================================================

----------------------------- MODULE NodeUpgrade -----------------------------
(***************************************************************************)
(* The rolling upgrade of upgrade-cluster.yml: Docker batch by batch, then *)
(* the masters one at a time, then the workers in batches, each batch      *)
(* cordoned, drained, upgraded and uncordoned by roles/upgrade and         *)
(* roles/kubernetes, with runs that stop half-way and are started again.   *)
(*                                                                         *)
(* Abstractions:                                                           *)
(*  - A task runs on the hosts of the batch in any order and the next task *)
(*    begins when all are through (the linear strategy); only the tasks    *)
(*    that change what is modelled here are kept.                          *)
(*  - A version is a number; kube_version, docker_version and the network  *)
(*    plugin's move together.                                              *)
(*  - docker is the version of the packages: the handler that restarts the *)
(*    daemon after they are installed is left out.                         *)
(*  - drained is the set of nodes without workloads: only nodes that are   *)
(*    cordoned are in it, since the scheduler fills the others.            *)
(*  - kubelet_deployment_type is docker, kubeadm_enabled is false, and the *)
(*    etcd plays (modelled by EtcdCerts) are left out.                     *)
(***************************************************************************)
EXTENDS Naturals, FiniteSets

CONSTANTS
  Masters,      \* group kube-master
  Workers,      \* kube-node:!kube-master
  BatchSize,    \* "serial" of the plays that are not one at a time
  MaxVersion,   \* bound: versions
  MaxFailures,  \* bound: runs that stop half-way
  MaxMishaps,   \* bound: kubelets that die, kubectl calls without an answer
  MaxEdits      \* bound: nodes the administrator cordons or uncordons

ASSUME NodesAssumption ==
  Masters # {} /\ IsFiniteSet(Masters) /\ IsFiniteSet(Workers) /\ Masters \cap Workers = {}
ASSUME BatchAssumption == BatchSize \in Nat \ {0}
ASSUME BoundsAssumption ==
  MaxVersion \in Nat \ {0} /\ MaxFailures \in Nat /\ MaxMishaps \in Nat /\ MaxEdits \in Nat

VARIABLES
  docker,     \* version of Docker running on a node
  file,       \* version in the kubelet's launch script on a node
  kubelet,    \* version of the kubelet running, or that ran last
  api,        \* version of the apiserver running on a master
  plugin,     \* version of the network plugin's files on a node
  up,         \* nodes whose kubelet is running
  cordoned,   \* nodes with spec.unschedulable
  drained,    \* cordoned nodes without workloads
  admin,      \* nodes the administrator cordoned and wants left so
  target,     \* the version the current or last run upgrades to
  play,       \* the play under way
  queue,      \* hosts of the play in later batches
  batch,      \* hosts of the play in this batch
  task,       \* the task the batch is at
  todo,       \* hosts of the batch that have not run it
  cordoning,  \* hosts whose fact needs_cordoning is true
  notified,   \* hosts with handler "restart kubelet" pending
  overlooked, \* nodes whose cordon or uncordon by the administrator is not seen
  failures, mishaps, edits

software == <<docker, file, kubelet, api, plugin, up>>
api_objects == <<cordoned, drained, admin>>
facts    == <<cordoning, notified, overlooked>>
progress == <<play, queue, batch, task, todo>>
counters == <<failures, mishaps, edits>>
vars     == <<software, api_objects, target, progress, facts, counters>>

Nodes    == Masters \cup Workers
Versions == 1 .. MaxVersion
AtRest   == play \in {"none", "done"}

TypeOK ==
  /\ docker \in [Nodes -> Versions] /\ file \in [Nodes -> Versions]
  /\ kubelet \in [Nodes -> Versions] /\ plugin \in [Nodes -> Versions]
  /\ api \in [Masters -> Versions] /\ target \in Versions
  /\ up \in SUBSET Nodes /\ cordoned \in SUBSET Nodes
  /\ drained \in SUBSET cordoned /\ admin \in SUBSET Nodes
  /\ play \in {"none", "docker", "masters", "workers", "done"}
  /\ queue \in SUBSET Nodes /\ batch \in SUBSET Nodes /\ todo \in SUBSET batch
  /\ task \in {"docker", "ready", "schedulable", "cordon", "drain", "files", "flush",
               "apiserver", "network", "uncordon"}
  /\ cordoning \in SUBSET batch /\ notified \in SUBSET batch /\ overlooked \in SUBSET Nodes
  /\ failures \in 0 .. MaxFailures /\ mishaps \in 0 .. MaxMishaps
  /\ edits \in 0 .. MaxEdits

\* A cluster deployed at version 1, with some nodes cordoned on purpose.
Init ==
  /\ docker = [n \in Nodes |-> 1] /\ file = [n \in Nodes |-> 1]
  /\ kubelet = [n \in Nodes |-> 1] /\ plugin = [n \in Nodes |-> 1]
  /\ api = [m \in Masters |-> 1] /\ target = 1
  /\ up = Nodes /\ cordoned \in SUBSET Nodes /\ admin = cordoned /\ drained = {}
  /\ play = "none" /\ queue = {} /\ batch = {} /\ todo = {} /\ task = "docker"
  /\ cordoning = {} /\ notified = {} /\ overlooked = {}
  /\ failures = 0 /\ mishaps = 0 /\ edits = 0

-----------------------------------------------------------------------------
(***************************************************************************)
(* The plays and their batches.                                            *)
(***************************************************************************)
Hosts(p) == CASE p = "docker"  -> Nodes
              [] p = "masters" -> Masters
              [] p = "workers" -> Workers

SizeAndOne(p) == BatchSize + 1
Size(p) == IF p = "masters" THEN 1 ELSE BatchSize

FirstTask(p) == IF p = "docker" THEN "docker" ELSE "ready"
LastTask(p)  == IF p = "docker" THEN "docker" ELSE "uncordon"

\* What a batch overlooked is settled with it, unless it took a node from the
\* administrator.
Forget == overlooked' = overlooked \cap (admin \ cordoned)

\* The next batch of play p, of those of its hosts that are left.
TakeBatch(p, left) ==
  /\ \E b \in SUBSET left :
       /\ Cardinality(b) <= Size(p)
       /\ Cardinality(b) = Size(p) \/ b = left
       /\ batch' = b /\ todo' = b /\ queue' = left \ b
  /\ play' = p /\ task' = FirstTask(p)
  /\ cordoning' = {} /\ notified' = {} /\ Forget

\* Facts and pending handlers die with the run.
Stop(p) ==
  /\ play' = p /\ task' = "docker"
  /\ queue' = {} /\ batch' = {} /\ todo' = {}
  /\ cordoning' = {} /\ notified' = {} /\ Forget

\* The operator runs the playbook for a version that is not older than the
\* last run's.
StartRun ==
  /\ AtRest
  /\ target' \in target .. MaxVersion
  /\ TakeBatch("docker", Nodes)
  /\ UNCHANGED <<software, api_objects, counters>>

\* any_errors_fatal, without force_handlers.
Fail ==
  /\ ~AtRest /\ failures < MaxFailures
  /\ failures' = failures + 1
  /\ Stop("none")
  /\ UNCHANGED <<software, api_objects, target, mishaps, edits>>

TaskAfterDrainLate ==
  CASE task = "ready"       -> "schedulable"
    [] task = "schedulable" -> "cordon"
    [] task = "cordon"      -> "files"
    [] task = "files"       -> "flush"
    [] task = "flush"       -> "drain"
    [] task = "drain"       -> IF play = "masters" THEN "apiserver" ELSE "network"
    [] task = "apiserver"   -> "network"
    [] task = "network"     -> "uncordon"

TaskAfter ==
  CASE task = "ready"       -> "schedulable"
    [] task = "schedulable" -> "cordon"
    [] task = "cordon"      -> "drain"
    [] task = "drain"       -> "files"
    [] task = "files"       -> "flush"
    [] task = "flush"       -> IF play = "masters" THEN "apiserver" ELSE "network"
    [] task = "apiserver"   -> "network"
    [] task = "network"     -> "uncordon"

NextTask ==
  /\ ~AtRest /\ todo = {} /\ task # LastTask(play)
  /\ task' = TaskAfter /\ todo' = batch
  /\ UNCHANGED <<software, api_objects, target, play, queue, batch, facts, counters>>

BatchDone == ~AtRest /\ todo = {} /\ task = LastTask(play)

NextBatch ==
  /\ BatchDone /\ queue # {}
  /\ TakeBatch(play, queue)
  /\ UNCHANGED <<software, api_objects, target, counters>>

NextPlayWorkersFirst ==
  /\ BatchDone /\ queue = {}
  /\ \/ play = "docker" /\ TakeBatch("workers", Workers)
     \/ play = "workers" /\ TakeBatch("masters", Masters)
     \/ play = "masters" /\ Stop("done")
  /\ UNCHANGED <<software, api_objects, target, counters>>

NextPlay ==
  /\ BatchDone /\ queue = {}
  /\ \/ play = "docker" /\ TakeBatch("masters", Masters)
     \/ play = "masters" /\ TakeBatch("workers", Workers)
     \/ play = "workers" /\ Stop("done")
  /\ UNCHANGED <<software, api_objects, target, counters>>

-----------------------------------------------------------------------------
(***************************************************************************)
(* The tasks.                                                              *)
(***************************************************************************)
Does(t, h) ==
  /\ ~AtRest /\ task = t /\ h \in todo
  /\ todo' = todo \ {h}
  /\ UNCHANGED <<play, queue, batch, task, target, failures, edits>>

UpgradeDocker(h) ==
  /\ Does("docker", h)
  /\ docker' = [docker EXCEPT ![h] = target]
  /\ UNCHANGED <<file, kubelet, api, plugin, up, api_objects, facts, mishaps>>

\* needs_cordoning: of two calls of kubectl, one after the other on every host
\* of the batch, the first says that the node is Ready ...
CheckReady(h) ==
  /\ Does("ready", h)
  /\ cordoning' = cordoning \cup ({h} \cap up)
  /\ UNCHANGED <<software, api_objects, notified, overlooked, mishaps>>

\* ... and the second does not say that it is unschedulable.
CheckSchedulableIgnored(h) ==
  /\ Does("schedulable", h)
  /\ UNCHANGED <<software, api_objects, facts, mishaps>>

CheckSchedulable(h) ==
  /\ Does("schedulable", h)
  /\ cordoning' = cordoning \ ({h} \cap cordoned)
  /\ UNCHANGED <<software, api_objects, notified, overlooked, mishaps>>

\* Both carry failed_when: false. Without an answer the first reads as a node
\* that is not Ready, the second as one that is schedulable.
ReadySilent(h) ==
  /\ mishaps < MaxMishaps /\ mishaps' = mishaps + 1
  /\ Does("ready", h)
  /\ UNCHANGED <<software, api_objects, facts>>

SchedulableSilent(h) ==
  /\ mishaps < MaxMishaps /\ mishaps' = mishaps + 1
  /\ Does("schedulable", h)
  /\ overlooked' = overlooked \cup ({h} \cap cordoning \cap admin)
  /\ UNCHANGED <<software, api_objects, cordoning, notified>>

Cordon(h) ==
  /\ Does("cordon", h)
  /\ cordoned' = cordoned \cup ({h} \cap cordoning)
  /\ UNCHANGED <<software, drained, admin, facts, mishaps>>

\* kubectl drain cordons the node itself; a drain that times out is a Fail.
Drain(h) ==
  /\ Does("drain", h)
  /\ cordoned' = cordoned \cup ({h} \cap cordoning)
  /\ drained' = drained \cup ({h} \cap cordoning)
  /\ UNCHANGED <<software, admin, facts, mishaps>>

\* The launch script of the kubelet; the handler is notified if it changed.
NotifyNever(h) == {}
Notify(h) == {h} \ {n \in Nodes : file[n] = target}

WriteFilesIfCordoning(h) ==
  /\ Does("files", h)
  /\ notified' = notified \cup Notify(h)
  /\ file' = [file EXCEPT ![h] = IF h \in cordoning THEN target ELSE @]
  /\ UNCHANGED <<docker, kubelet, api, plugin, up, api_objects, cordoning, overlooked, mishaps>>

WriteFiles(h) ==
  /\ Does("files", h)
  /\ notified' = notified \cup Notify(h)
  /\ file' = [file EXCEPT ![h] = target]
  /\ UNCHANGED <<docker, kubelet, api, plugin, up, api_objects, cordoning, overlooked, mishaps>>

\* flush_handlers, then "Enable kubelet" starts one that is not running.
Flush(h) ==
  /\ Does("flush", h)
  /\ kubelet' = [kubelet EXCEPT ![h] = IF h \in notified \/ h \notin up THEN file[h] ELSE @]
  /\ notified' = notified \ {h}
  /\ up' = up \cup {h}
  /\ UNCHANGED <<docker, file, api, plugin, api_objects, cordoning, overlooked, mishaps>>

\* The manifest is written, the container removed, and healthz awaited.
UpgradeApiserver(h) ==
  /\ Does("apiserver", h)
  /\ api' = [api EXCEPT ![h] = target]
  /\ UNCHANGED <<docker, file, kubelet, plugin, up, api_objects, facts, mishaps>>

UpgradePlugin(h) ==
  /\ Does("network", h)
  /\ plugin' = [plugin EXCEPT ![h] = target]
  /\ UNCHANGED <<docker, file, kubelet, api, up, api_objects, facts, mishaps>>

Uncordon(h) ==
  /\ Does("uncordon", h)
  /\ cordoned' = cordoned \ ({h} \cap cordoning)
  /\ drained' = drained \ ({h} \cap cordoning)
  /\ UNCHANGED <<software, admin, facts, mishaps>>

-----------------------------------------------------------------------------
(***************************************************************************)
(* The nodes and the administrator, at any time.                           *)
(***************************************************************************)
KubeletDies(n) ==
  /\ n \in up /\ mishaps < MaxMishaps
  /\ up' = up \ {n} /\ mishaps' = mishaps + 1
  /\ UNCHANGED <<docker, file, kubelet, api, plugin, api_objects, target, progress,
                 facts, failures, edits>>

\* systemd starts the script it finds (Restart=always).
KubeletStarts(n) ==
  /\ n \in Nodes \ up
  /\ up' = up \cup {n}
  /\ kubelet' = [kubelet EXCEPT ![n] = file[n]]
  /\ UNCHANGED <<docker, file, api, plugin, api_objects, target, progress, facts, counters>>

\* The hosts the batch will uncordon, as far as it has decided it.
Decided ==
  CASE task \in {"docker", "ready"} -> {}
    [] task = "schedulable"         -> cordoning \ todo
    [] task = "uncordon"            -> cordoning \cap todo
    [] OTHER                        -> cordoning

\* The run asks once: it does not see what becomes of a node it has decided on.
Change(n) ==
  /\ edits < MaxEdits /\ edits' = edits + 1
  /\ overlooked' = IF n \in Decided THEN overlooked \cup {n} ELSE overlooked \ {n}
  /\ UNCHANGED <<software, target, progress, cordoning, notified, failures, mishaps>>

AdminCordon(n) ==
  /\ n \notin admin \cap cordoned
  /\ Change(n)
  /\ cordoned' = cordoned \cup {n} /\ admin' = admin \cup {n} /\ UNCHANGED drained

AdminUncordon(n) ==
  /\ n \in cordoned
  /\ Change(n)
  /\ cordoned' = cordoned \ {n} /\ admin' = admin \ {n} /\ drained' = drained \ {n}

Environment ==
  \E n \in Nodes : KubeletDies(n) \/ KubeletStarts(n) \/ AdminCordon(n) \/ AdminUncordon(n)

Run ==
  \/ NextTask \/ NextBatch \/ NextPlay
  \/ \E h \in Nodes :
       \/ UpgradeDocker(h)
       \/ CheckReady(h) \/ ReadySilent(h) \/ CheckSchedulable(h) \/ SchedulableSilent(h)
       \/ Cordon(h) \/ Drain(h) \/ WriteFiles(h) \/ Flush(h)
       \/ UpgradeApiserver(h) \/ UpgradePlugin(h) \/ Uncordon(h)

Next == StartRun \/ Run \/ Fail \/ Environment

Spec == Init /\ [][Next]_vars

\* Ansible goes on with a run, and the operator starts another.
FairSpec == Spec /\ WF_vars(Run) /\ WF_vars(StartRun)

-----------------------------------------------------------------------------
(***************************************************************************)
(* Properties.                                                             *)
(***************************************************************************)

\* No worker's kubelet is ever newer than any apiserver, whatever runs failed
\* and whatever version the next one was for: masters are upgraded "first to
\* maintain backwards compat." (upgrade-cluster.yml:70).
WorkersNotAhead == \A w \in Workers, m \in Masters : kubelet[w] <= api[m]

\* A node the administrator cordoned stays cordoned through every upgrade,
\* failed run and rerun, whenever he cordoned it, with two exceptions: the
\* batch had read it as schedulable before (needs_cordoning is not asked for
\* again), or kubectl gave no answer when it was asked.
AdminRespected == admin \ overlooked \subseteq cordoned

\* At most one batch is out of service at a time: each failed run leaves no
\* more than one batch cordoned behind it, and a run that goes on adds one.
StrandedBound ==
  Cardinality(cordoned \ admin)
    <= (IF AtRest THEN failures ELSE failures + 1) * BatchSize

\* The kubelet of a node the run takes out of service is restarted only when
\* its workloads are gone, unless the administrator uncordoned it meanwhile.
RestartsDrained ==
  [][\A n \in cordoning \ overlooked :
       n \in up /\ kubelet'[n] # kubelet[n] => n \in drained]_vars

\* A run that completes has upgraded every file and every apiserver, after
\* whatever failed runs; the kubelets too if none failed.
UpgradeComplete ==
  play = "done" =>
    /\ \A n \in Nodes : docker[n] = target /\ file[n] = target /\ plugin[n] = target
    /\ \A m \in Masters : api[m] = target
    /\ failures = 0 => \A n \in Nodes : kubelet[n] = target

\* Runs are repeated until the cluster is at the last version asked for.
EventuallyUpgraded ==
  <>[](/\ \A m \in Masters : api[m] = target
       /\ \A n \in Nodes : file[n] = target)
=============================================================================

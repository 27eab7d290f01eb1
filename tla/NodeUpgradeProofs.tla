-------------------------- MODULE NodeUpgradeProofs --------------------------
(***************************************************************************)
(* Proofs about NodeUpgrade, for any finite sets of masters and workers,   *)
(* any batch size and any bounds.                                          *)
(***************************************************************************)
EXTENDS NodeUpgrade, FiniteSetTheorems, TLAPS

-----------------------------------------------------------------------------
(* How play, batch and task fit together. *)

Shape ==
  /\ AtRest => batch = {}
  /\ ~AtRest => batch \subseteq Hosts(play) /\ queue \subseteq Hosts(play)
  /\ ~AtRest => (play = "docker" <=> task = "docker")
  /\ task = "apiserver" => play = "masters"
  /\ Cardinality(batch) <= BatchSize

-----------------------------------------------------------------------------
(* What a task does to the progress of the run. *)

AllTasks == {"docker", "ready", "schedulable", "cordon", "drain", "files", "flush",
             "apiserver", "network", "uncordon"}

\* Every step of the hosts of a batch, in one formula.
TaskOf(h) ==
  \/ UpgradeDocker(h) \/ CheckReady(h) \/ ReadySilent(h) \/ CheckSchedulable(h) \/ SchedulableSilent(h) \/ Cordon(h) \/ Drain(h)
  \/ WriteFiles(h) \/ Flush(h) \/ UpgradeApiserver(h) \/ UpgradePlugin(h)
  \/ Uncordon(h)

ChangeOf(n) ==
  KubeletDies(n) \/ KubeletStarts(n) \/ AdminCordon(n) \/ AdminUncordon(n)

LEMMA TakeBatchShape ==
  ASSUME NEW p, NEW left, TakeBatch(p, left)
  PROVE  /\ batch' \subseteq left /\ todo' = batch' /\ queue' = left \ batch'
         /\ play' = p /\ task' = FirstTask(p) /\ cordoning' = {} /\ notified' = {} /\ Forget
         /\ Cardinality(batch') <= Size(p)
BY DEF TakeBatch

LEMMA HostsAreNodes ==
  ASSUME TypeOK, ~AtRest PROVE Hosts(play) \subseteq Nodes
BY DEF TypeOK, AtRest, Hosts, Nodes

LEMMA CountersType ==
  ASSUME TypeOK, [Next]_vars
  PROVE  /\ failures' \in 0 .. MaxFailures /\ mishaps' \in 0 .. MaxMishaps
         /\ edits' \in 0 .. MaxEdits
<1>1. /\ failures' = failures \/ (failures < MaxFailures /\ failures' = failures + 1)
      /\ mishaps' = mishaps \/ (mishaps < MaxMishaps /\ mishaps' = mishaps + 1)
      /\ edits' = edits \/ (edits < MaxEdits /\ edits' = edits + 1)
  BY DEF Next, Run, Environment, vars, counters, StartRun, Fail, NextTask, NextBatch,
         NextPlay, Does, UpgradeDocker, CheckReady, ReadySilent, CheckSchedulable, SchedulableSilent, Cordon, Drain, WriteFiles,
         Flush, UpgradeApiserver, UpgradePlugin, Uncordon, KubeletDies, KubeletStarts,
         Change, AdminCordon, AdminUncordon
<1>2. /\ failures \in 0 .. MaxFailures /\ mishaps \in 0 .. MaxMishaps
      /\ edits \in 0 .. MaxEdits
  BY DEF TypeOK
<1> QED BY <1>1, <1>2, BoundsAssumption

LEMMA VersionFacts ==
  /\ 1 \in Versions
  /\ \A v \in Versions : v .. MaxVersion \subseteq Versions
BY BoundsAssumption DEF Versions

-----------------------------------------------------------------------------
(* Type correctness. *)

LEMMA InitType == Init => TypeOK
<1> SUFFICES ASSUME Init PROVE TypeOK OBVIOUS
<1>1. failures \in 0 .. MaxFailures /\ mishaps \in 0 .. MaxMishaps /\ edits \in 0 .. MaxEdits
  BY BoundsAssumption DEF Init
<1> QED BY <1>1, VersionFacts DEF Init, TypeOK

LEMMA TargetType ==
  ASSUME TypeOK, [Next]_vars PROVE target' \in Versions
BY VersionFacts DEF TypeOK, Next, Run, Environment, vars, StartRun, Fail, NextTask,
   NextBatch, NextPlay, Does, UpgradeDocker, CheckReady, ReadySilent, CheckSchedulable, SchedulableSilent, Cordon, Drain,
   WriteFiles, Flush, UpgradeApiserver, UpgradePlugin, Uncordon, KubeletDies,
   KubeletStarts, Change, AdminCordon, AdminUncordon

LEMMA TaskType ==
  ASSUME TypeOK, NEW h \in Nodes, TaskOf(h)
  PROVE  /\ docker' \in [Nodes -> Versions] /\ file' \in [Nodes -> Versions]
         /\ kubelet' \in [Nodes -> Versions] /\ plugin' \in [Nodes -> Versions]
         /\ api' \in [Masters -> Versions]
         /\ up' \in SUBSET Nodes /\ cordoned' \in SUBSET Nodes
         /\ drained' \in SUBSET cordoned' /\ admin' \in SUBSET Nodes
         /\ play' = play /\ queue' = queue /\ batch' = batch /\ task' = task
         /\ todo' = todo \ {h}
         /\ cordoning' \in SUBSET batch /\ notified' \in SUBSET batch
         /\ overlooked' \in SUBSET Nodes
BY DEF TypeOK, TaskOf, Does, software, api_objects, facts, UpgradeDocker, CheckReady, ReadySilent, CheckSchedulable,
   SchedulableSilent, Cordon, Drain, WriteFiles, Notify, Flush, UpgradeApiserver,
   UpgradePlugin, Uncordon

LEMMA NextType == TypeOK /\ Shape /\ [Next]_vars => TypeOK'
<1> SUFFICES ASSUME TypeOK, Shape, [Next]_vars PROVE TypeOK' OBVIOUS
<1>0. /\ failures' \in 0 .. MaxFailures /\ mishaps' \in 0 .. MaxMishaps
      /\ edits' \in 0 .. MaxEdits /\ target' \in Versions
  BY CountersType, TargetType
<1> USE <1>0 DEF software, api_objects, progress, facts
<1>1. CASE StartRun
  BY <1>1, TakeBatchShape DEF StartRun, TypeOK, FirstTask, Forget
<1>2. CASE Fail
  BY <1>2 DEF Fail, Stop, TypeOK, Forget
<1>3. CASE NextTask
  <2>1. task' \in AllTasks
    BY <1>3 DEF NextTask, TaskAfter, LastTask, TypeOK, AllTasks, Shape
  <2> QED BY <1>3, <2>1 DEF NextTask, TypeOK, AllTasks
<1>4. CASE NextBatch
  BY <1>4, TakeBatchShape DEF NextBatch, TypeOK, FirstTask, Forget
<1>5. CASE NextPlay
  <2>1. CASE play = "docker" /\ TakeBatch("masters", Masters)
    BY <1>5, <2>1, TakeBatchShape DEF NextPlay, TypeOK, FirstTask, Nodes, Forget
  <2>2. CASE play = "masters" /\ TakeBatch("workers", Workers)
    BY <1>5, <2>2, TakeBatchShape DEF NextPlay, TypeOK, FirstTask, Nodes, Forget
  <2>3. CASE play = "workers" /\ Stop("done")
    BY <1>5, <2>3 DEF NextPlay, Stop, TypeOK, Forget
  <2> QED BY <1>5, <2>1, <2>2, <2>3 DEF NextPlay
<1>6. ASSUME NEW h \in Nodes, TaskOf(h) PROVE TypeOK'
  BY <1>6, TaskType DEF TypeOK
<1>7. ASSUME NEW n \in Nodes, ChangeOf(n) PROVE TypeOK'
  BY <1>7 DEF ChangeOf, KubeletDies, KubeletStarts, Change, AdminCordon, AdminUncordon, TypeOK
<1>8. CASE UNCHANGED vars
  BY <1>8 DEF vars, TypeOK
<1> QED BY <1>1, <1>2, <1>3, <1>4, <1>5, <1>6, <1>7, <1>8
        DEF Next, Run, Environment, TaskOf, ChangeOf

LEMMA BatchBound ==
  ASSUME NEW p, NEW left, left \subseteq Nodes, TakeBatch(p, left)
  PROVE  Cardinality(batch') <= BatchSize
<1>1. IsFiniteSet(Nodes) BY NodesAssumption, FS_Union DEF Nodes
<1>2. batch' \subseteq Nodes /\ Cardinality(batch') <= Size(p) BY TakeBatchShape
<1>3. Cardinality(batch') \in Nat BY <1>1, <1>2, FS_Subset, FS_CardinalityType
<1>4. Size(p) \in Nat /\ Size(p) <= BatchSize BY BatchAssumption DEF Size
<1> QED BY <1>2, <1>3, <1>4, BatchAssumption

LEMMA InitShape == Init => Shape
<1>1. Cardinality({}) = 0 BY FS_EmptySet
<1> QED BY <1>1, BatchAssumption DEF Init, Shape, AtRest

LEMMA NextShape == TypeOK /\ Shape /\ [Next]_vars => Shape'
<1> SUFFICES ASSUME TypeOK, Shape, [Next]_vars PROVE Shape' OBVIOUS
<1> USE DEF progress
<1>0. Cardinality({}) = 0 /\ 0 <= BatchSize BY FS_EmptySet, BatchAssumption
<1>1. CASE StartRun
  BY <1>1, TakeBatchShape, BatchBound DEF StartRun, Shape, AtRest, Hosts, FirstTask
<1>2. CASE Fail
  BY <1>0, <1>2 DEF Fail, Stop, Shape, AtRest
<1>3. CASE NextTask
  <2>1. /\ UNCHANGED <<play, queue, batch>> /\ ~AtRest
        /\ task' = "apiserver" => play = "masters"
        /\ task' = "docker" <=> task = "docker"
    BY <1>3 DEF NextTask, TaskAfter, LastTask, TypeOK, Shape, AtRest
  <2> QED BY <2>1 DEF Shape, AtRest, Hosts
<1>4. CASE NextBatch
  <2>1. queue \subseteq Nodes /\ play \in {"docker", "masters", "workers"}
    BY <1>4 DEF NextBatch, BatchDone, AtRest, TypeOK
  <2> QED BY <1>4, <2>1, TakeBatchShape, BatchBound
          DEF NextBatch, BatchDone, Shape, AtRest, Hosts, FirstTask
<1>5. CASE NextPlay
  <2>1. CASE play = "docker" /\ TakeBatch("masters", Masters)
    BY <1>5, <2>1, TakeBatchShape, BatchBound DEF Shape, AtRest, FirstTask, Hosts, Nodes
  <2>2. CASE play = "masters" /\ TakeBatch("workers", Workers)
    BY <1>5, <2>2, TakeBatchShape, BatchBound DEF Shape, AtRest, FirstTask, Hosts, Nodes
  <2>3. CASE play = "workers" /\ Stop("done")
    BY <1>0, <1>5, <2>3 DEF Stop, Shape, AtRest
  <2> QED BY <1>5, <2>1, <2>2, <2>3 DEF NextPlay
<1>6. ASSUME NEW h \in Nodes, TaskOf(h) PROVE Shape'
  BY <1>6, TaskType DEF Shape, AtRest, Hosts
<1>7. ASSUME NEW n \in Nodes, ChangeOf(n) PROVE Shape'
  BY <1>7 DEF ChangeOf, KubeletDies, KubeletStarts, Change, AdminCordon, AdminUncordon, Shape, AtRest, Hosts
<1>8. CASE UNCHANGED vars
  BY <1>8 DEF vars, Shape, AtRest, Hosts
<1> QED BY <1>1, <1>2, <1>3, <1>4, <1>5, <1>6, <1>7, <1>8
        DEF Next, Run, Environment, TaskOf, ChangeOf

LEMMA TypingHolds == Spec => [](TypeOK /\ Shape)
<1>1. Init => TypeOK /\ Shape BY InitType, InitShape
<1>2. TypeOK /\ Shape /\ [Next]_vars => (TypeOK /\ Shape)' BY NextType, NextShape
<1> QED BY <1>1, <1>2, PTL DEF Spec

\* Type correctness.
THEOREM TypeCorrect == Spec => []TypeOK
BY TypingHolds, PTL

-----------------------------------------------------------------------------
(* Masters first: what the workers' play may rely on. *)

\* Master m is through the apiserver task of this run.
ApiserverRan(m) ==
  \/ m \notin queue \cup batch
  \/ m \in batch /\ task \in {"network", "uncordon"}
  \/ m \in batch /\ task = "apiserver" /\ m \notin todo

MastersFirst ==
  /\ play = "masters" => \A m \in Masters : ApiserverRan(m) => api[m] = target
  /\ play \in {"workers", "done"} => \A m \in Masters : api[m] = target

\* Nothing is ahead of the version asked for, and no worker's files are
\* ahead of an apiserver.
Behind ==
  /\ \A m \in Masters : api[m] <= target
  /\ \A n \in Nodes : kubelet[n] <= file[n] /\ file[n] <= target
  /\ \A w \in Workers, m \in Masters : file[w] <= api[m]

VersionInv == MastersFirst /\ Behind

LEMMA InitVersions == Init => VersionInv
BY DEF Init, VersionInv, MastersFirst, Behind, Nodes

LEMMA VersionsAreNumbers == ASSUME NEW v \in Versions PROVE v \in Nat
BY DEF Versions

\* A step that leaves the versions alone keeps Behind.
LEMMA SameVersions ==
  ASSUME Behind, UNCHANGED <<file, kubelet, api, target>> PROVE Behind'
BY DEF Behind

LEMMA NextMastersFirst ==
  ASSUME TypeOK, Shape, MastersFirst, [Next]_vars PROVE MastersFirst'
<1> USE DEF software, progress
<1>1. CASE StartRun
  BY <1>1, TakeBatchShape DEF StartRun, MastersFirst
<1>2. CASE Fail
  BY <1>2 DEF Fail, Stop, MastersFirst
<1>3. CASE NextTask
  <2>1. /\ UNCHANGED <<api, target, play, queue, batch>> /\ todo = {} /\ todo' = batch
        /\ task' = "network" => task \in {"flush", "apiserver"} /\ (play = "masters" => task = "apiserver")
        /\ task' = "uncordon" => task = "network"
    BY <1>3 DEF NextTask, TaskAfter, LastTask, TypeOK, Shape, AtRest
  <2> QED BY <2>1 DEF MastersFirst, ApiserverRan
<1>4. CASE NextBatch
  <2>1. CASE play = "masters"
    <3>1. task = "uncordon" /\ UNCHANGED <<api, target>>
      BY <1>4, <2>1 DEF NextBatch, BatchDone, LastTask
    <3>2. \A m \in Masters : m \notin queue => api[m] = target
      BY <2>1, <3>1 DEF MastersFirst, ApiserverRan
    <3>3. /\ play' = "masters" /\ task' = "ready" /\ batch' \cup queue' = queue
      BY <1>4, <2>1, TakeBatchShape DEF NextBatch, FirstTask
    <3> QED BY <3>1, <3>2, <3>3 DEF MastersFirst, ApiserverRan
  <2>2. CASE play # "masters"
    BY <1>4, <2>2, TakeBatchShape DEF NextBatch, MastersFirst
  <2> QED BY <2>1, <2>2
<1>5. CASE NextPlay
  <2>1. CASE play = "docker" /\ TakeBatch("masters", Masters)
    <3>1. /\ play' = "masters" /\ task' = "ready" /\ batch' \cup queue' = Masters
      BY <2>1, TakeBatchShape DEF FirstTask
    <3> QED BY <3>1 DEF MastersFirst, ApiserverRan
  <2>2. CASE play = "masters" /\ TakeBatch("workers", Workers)
    <3>1. task = "uncordon" /\ queue = {} /\ UNCHANGED <<api, target>>
      BY <1>5, <2>2 DEF NextPlay, BatchDone, LastTask
    <3>2. \A m \in Masters : api[m] = target
      BY <2>2, <3>1 DEF MastersFirst, ApiserverRan
    <3>3. play' = "workers" BY <2>2, TakeBatchShape
    <3> QED BY <3>1, <3>2, <3>3 DEF MastersFirst
  <2>3. CASE play = "workers" /\ Stop("done")
    BY <1>5, <2>3 DEF NextPlay, Stop, MastersFirst
  <2> QED BY <1>5, <2>1, <2>2, <2>3 DEF NextPlay
<1>6. ASSUME NEW h \in Nodes, TaskOf(h) PROVE MastersFirst'
  <2>1. UNCHANGED <<play, queue, batch, task, target>> /\ todo' = todo \ {h}
    BY <1>6 DEF TaskOf, Does, UpgradeDocker, CheckReady, ReadySilent, CheckSchedulable, SchedulableSilent, Cordon, Drain,
       WriteFiles, Flush, UpgradeApiserver, UpgradePlugin, Uncordon
  <2>2. CASE UpgradeApiserver(h)
    BY <2>1, <2>2 DEF UpgradeApiserver, Does, MastersFirst, ApiserverRan, TypeOK
  <2>3. CASE ~UpgradeApiserver(h)
    <3>1. api' = api /\ task # "apiserver"
      BY <1>6, <2>3 DEF TaskOf, Does, UpgradeDocker, CheckReady, ReadySilent, CheckSchedulable, SchedulableSilent, Cordon,
         Drain, WriteFiles, Flush, UpgradePlugin, Uncordon
    <3> QED BY <2>1, <3>1 DEF MastersFirst, ApiserverRan
  <2> QED BY <2>2, <2>3
<1>7. ASSUME NEW n \in Nodes, ChangeOf(n) PROVE MastersFirst'
  BY <1>7 DEF ChangeOf, KubeletDies, KubeletStarts, Change, AdminCordon, AdminUncordon,
     MastersFirst, ApiserverRan
<1>8. CASE UNCHANGED vars
  BY <1>8 DEF vars, MastersFirst, ApiserverRan
<1> QED BY <1>1, <1>2, <1>3, <1>4, <1>5, <1>6, <1>7, <1>8
        DEF Next, Run, Environment, TaskOf, ChangeOf

LEMMA NextBehind ==
  ASSUME TypeOK, Shape, VersionInv, [Next]_vars PROVE Behind'
<1> USE DEF software, progress, VersionInv
<1>0. /\ target \in Nat /\ \A n \in Nodes : file[n] \in Nat /\ kubelet[n] \in Nat
      /\ \A m \in Masters : api[m] \in Nat
      /\ Workers \subseteq Nodes
  BY VersionsAreNumbers DEF TypeOK, Nodes
<1>1. CASE StartRun
  <2>1. target' \in Nat /\ target <= target' /\ UNCHANGED <<file, kubelet, api>>
    BY <1>0, <1>1, BoundsAssumption DEF StartRun
  <2> QED BY <1>0, <2>1 DEF Behind
<1>2. ASSUME NEW h \in Nodes, WriteFiles(h) PROVE Behind'
  <2>1. /\ UNCHANGED <<kubelet, api, target>>
        /\ file' = [file EXCEPT ![h] = target] /\ h \in batch /\ task = "files" /\ ~AtRest
    BY <1>2 DEF WriteFiles, Does, TypeOK
  <2>2. h \in Workers => play = "workers"
    BY <2>1, NodesAssumption DEF Shape, AtRest, TypeOK, Hosts
  <2>3. \A w \in Workers, m \in Masters : file'[w] <= api[m]
    BY <1>0, <2>1, <2>2 DEF Behind, MastersFirst, TypeOK
  <2>4. \A n \in Nodes : file'[n] \in Nat /\ kubelet[n] <= file'[n] /\ file'[n] <= target
    BY <1>0, <2>1 DEF Behind, TypeOK
  <2> QED BY <1>0, <2>1, <2>3, <2>4 DEF Behind
<1>3. ASSUME NEW h \in Nodes, Flush(h) \/ KubeletStarts(h) PROVE Behind'
  <2>1. /\ UNCHANGED <<file, api, target>>
        /\ \A n \in Nodes : kubelet'[n] = kubelet[n] \/ kubelet'[n] = file[n]
    BY <1>3 DEF Flush, KubeletStarts, Does, TypeOK
  <2> QED BY <1>0, <2>1 DEF Behind
<1>4. ASSUME NEW h \in Nodes, UpgradeApiserver(h) PROVE Behind'
  <2>1. /\ UNCHANGED <<file, kubelet, target>>
        /\ \A m \in Masters : api'[m] = api[m] \/ api'[m] = target
    BY <1>4 DEF UpgradeApiserver, Does, TypeOK
  <2> QED BY <1>0, <2>1 DEF Behind
<1>5. ASSUME NEW h \in Nodes,
             \/ UpgradeDocker(h) \/ CheckReady(h) \/ ReadySilent(h) \/ CheckSchedulable(h) \/ SchedulableSilent(h) \/ Cordon(h) \/ Drain(h)
             \/ UpgradePlugin(h) \/ Uncordon(h) \/ KubeletDies(h) \/ AdminCordon(h)
             \/ AdminUncordon(h)
      PROVE  Behind'
  BY <1>5, SameVersions DEF Does, UpgradeDocker, CheckReady, ReadySilent, CheckSchedulable, SchedulableSilent, Cordon, Drain,
     UpgradePlugin, Uncordon, KubeletDies, Change, AdminCordon, AdminUncordon
<1>6. CASE Fail \/ NextTask \/ NextBatch \/ NextPlay \/ UNCHANGED vars
  BY <1>6, SameVersions DEF Fail, NextTask, NextBatch, NextPlay, vars
<1> QED BY <1>1, <1>2, <1>3, <1>4, <1>5, <1>6 DEF Next, Run, Environment

LEMMA VersionsHold == Spec => [](TypeOK /\ Shape /\ VersionInv)
<1>1. Init => TypeOK /\ Shape /\ VersionInv BY InitType, InitShape, InitVersions
<1>2. TypeOK /\ Shape /\ VersionInv /\ [Next]_vars => (TypeOK /\ Shape /\ VersionInv)'
  BY NextType, NextShape, NextMastersFirst, NextBehind DEF VersionInv
<1> QED BY <1>1, <1>2, PTL DEF Spec

\* No worker's kubelet is ever newer than an apiserver.
THEOREM WorkersNotAheadHolds == Spec => []WorkersNotAhead
<1>1. TypeOK /\ VersionInv => WorkersNotAhead
  <2> SUFFICES ASSUME TypeOK, VersionInv, NEW w \in Workers, NEW m \in Masters
               PROVE  kubelet[w] <= api[m]
    BY DEF WorkersNotAhead
  <2>1. w \in Nodes /\ kubelet[w] \in Nat /\ file[w] \in Nat /\ api[m] \in Nat
    BY VersionsAreNumbers DEF TypeOK, Nodes
  <2>2. kubelet[w] <= file[w] /\ file[w] <= api[m]
    BY <2>1 DEF VersionInv, Behind
  <2> QED BY <2>1, <2>2
<1> QED BY <1>1, VersionsHold, PTL

-----------------------------------------------------------------------------
(* What a run that completes has done: every play has taken every one of   *)
(* its hosts through every task.                                           *)

AfterFiles   == {"flush", "apiserver", "network", "uncordon"}
AfterNetwork == {"uncordon"}

\* The tasks that write what UpgradeComplete is about, with those after them.
Writes == {<<"docker", "docker", {}>>,
           <<"masters", "files", AfterFiles>>, <<"masters", "network", AfterNetwork>>,
           <<"workers", "files", AfterFiles>>, <<"workers", "network", AfterNetwork>>}

Past(p) ==
  \/ p = "docker"  /\ play \in {"masters", "workers", "done"}
  \/ p = "masters" /\ play \in {"workers", "done"}
  \/ p = "workers" /\ play = "done"

\* Host n of play p has run task t in this run, or the play is over.
HasRun(n, p, t, later) ==
  \/ Past(p)
  \/ /\ play = p
     /\ \/ n \notin queue \cup batch
        \/ n \in batch /\ task \in later
        \/ n \in batch /\ task = t /\ n \notin todo

Written ==
  /\ \A n \in Nodes : HasRun(n, "docker", "docker", {}) => docker[n] = target
  /\ \A m \in Masters : HasRun(m, "masters", "files", AfterFiles) => file[m] = target
  /\ \A m \in Masters : HasRun(m, "masters", "network", AfterNetwork) => plugin[m] = target
  /\ \A w \in Workers : HasRun(w, "workers", "files", AfterFiles) => file[w] = target
  /\ \A w \in Workers : HasRun(w, "workers", "network", AfterNetwork) => plugin[w] = target

\* Until a run fails, a kubelet runs what its launch script says, or its
\* handler is still to come.
Awaits(n) ==
  /\ n \in notified
  /\ task = "files" \/ (task = "flush" /\ n \in todo)

KubeletsFollow == failures = 0 => \A n \in Nodes : kubelet[n] = file[n] \/ Awaits(n)

\* A host comes to have run a task by running it.
LEMMA HasRunStep ==
  ASSUME TypeOK, Shape, [Next]_vars,
         NEW p, NEW t, NEW later, <<p, t, later>> \in Writes,
         NEW n \in Hosts(p), HasRun(n, p, t, later)'
  PROVE  /\ target' = target
         /\ HasRun(n, p, t, later) \/ (task = t /\ TaskOf(n))
<1> USE DEF software, progress
<1>0. /\ p \in {"docker", "masters", "workers"}
      /\ t # "uncordon"
      /\ p # "docker" => t # "docker"
      /\ p = "docker" => (t = "docker" /\ later = {})
      /\ p # "docker" => "uncordon" \in later
      /\ later \subseteq {"flush", "apiserver", "network", "uncordon"}
      /\ t = "network" => later = {"uncordon"}
      /\ t = "files" => later = {"flush", "apiserver", "network", "uncordon"}
      /\ t \in {"docker", "files", "network"}
  BY DEF Writes, AfterFiles, AfterNetwork
<1>00. \/ Past(p)'
       \/ /\ play' = p
          /\ \/ n \notin queue' \cup batch'
             \/ n \in batch' /\ task' \in later
             \/ n \in batch' /\ task' = t /\ n \notin todo'
  BY DEF HasRun
<1>1. CASE StartRun
  <2>1. play' = "docker" /\ task' = "docker" /\ todo' = batch' /\ batch' \cup queue' = Nodes
    BY <1>1, TakeBatchShape DEF StartRun, FirstTask
  <2>2. ~Past(p)' BY <1>0, <2>1 DEF Past
  <2> QED BY <1>0, <1>00, <2>1, <2>2 DEF Hosts
<1>2. CASE Fail
  <2>1. play' = "none" BY <1>2 DEF Fail, Stop
  <2>2. ~Past(p)' /\ play' # p BY <1>0, <2>1 DEF Past
  <2>3. FALSE BY <1>00, <2>2 DEF Past
  <2> QED BY <2>3
<1>3. CASE NextTask
  <2>1. /\ UNCHANGED <<target, play, queue, batch>> /\ todo = {} /\ todo' = batch
        /\ task' \notin {"docker", "ready"}
        /\ task' = "flush" => task = "files"
        /\ task' = "apiserver" => task = "flush"
        /\ task' = "network" => task \in {"flush", "apiserver"}
        /\ task' = "uncordon" => task = "network"
    BY <1>3 DEF NextTask, TaskAfter, LastTask, TypeOK, Shape, AtRest
  <2>2. Past(p)' => Past(p) BY <2>1 DEF Past
  <2>3. n \in batch /\ task' \in later => task \in later \/ task = t BY <1>0, <2>1
  <2>4. ~(n \in batch' /\ task' = t /\ n \notin todo') \/ HasRun(n, p, t, later) BY <2>1
  <2> QED BY <1>00, <2>1, <2>2, <2>3, <2>4 DEF HasRun
<1>4. CASE NextBatch
  <2>1. /\ play' = play /\ target' = target /\ todo = {} /\ task = LastTask(play)
        /\ todo' = batch' /\ batch' \cup queue' = queue
        /\ task' = FirstTask(play) /\ play \in {"docker", "masters", "workers"}
    BY <1>4, TakeBatchShape DEF NextBatch, BatchDone, AtRest, TypeOK
  <2>2. task' = "ready" \/ (task' = "docker" /\ play = "docker")
    BY <2>1 DEF FirstTask
  <2>3. Past(p)' <=> Past(p) BY <2>1 DEF Past
  <2> QED BY <1>0, <1>00, <2>1, <2>2, <2>3 DEF HasRun, FirstTask, LastTask
<1>5. CASE NextPlay
  <2>1. queue = {} /\ todo = {} /\ task = LastTask(play) /\ target' = target
    BY <1>5 DEF NextPlay, BatchDone
  <2>2. \/ play = "docker" /\ TakeBatch("masters", Masters)
        \/ play = "masters" /\ TakeBatch("workers", Workers)
        \/ play = "workers" /\ Stop("done")
    BY <1>5 DEF NextPlay
  <2>3. play = p => HasRun(n, p, t, later)
    BY <1>0, <2>1 DEF HasRun, LastTask
  <2>4. Past(p)' => Past(p) \/ play = p
    BY <1>0, <2>2, TakeBatchShape DEF Past, Stop
  <2>5. ASSUME play = "docker", TakeBatch("masters", Masters) PROVE Past(p)'
    <3>1. /\ play' = "masters" /\ batch' \cup queue' = Masters
          /\ task' = "ready" /\ todo' = batch'
      BY <2>5, TakeBatchShape DEF FirstTask
    <3> QED BY <1>0, <1>00, <3>1 DEF Hosts
  <2>6. ASSUME play = "masters", TakeBatch("workers", Workers) PROVE Past(p)'
    <3>1. /\ play' = "workers" /\ batch' \cup queue' = Workers
          /\ task' = "ready" /\ todo' = batch'
      BY <2>6, TakeBatchShape DEF FirstTask
    <3> QED BY <1>0, <1>00, <3>1 DEF Hosts
  <2>7. ASSUME play = "workers", Stop("done") PROVE Past(p)'
    BY <1>0, <2>7 DEF Stop, Past
  <2>8. Past(p)' BY <2>2, <2>5, <2>6, <2>7
  <2> QED BY <2>1, <2>3, <2>4, <2>8 DEF HasRun
<1>6. ASSUME NEW h \in Nodes, TaskOf(h)
      PROVE  /\ target' = target
             /\ HasRun(n, p, t, later) \/ (task = t /\ TaskOf(n))
  <2>1. UNCHANGED <<play, queue, batch, task, target>> /\ todo' = todo \ {h}
    BY <1>6 DEF TaskOf, Does, UpgradeDocker, CheckReady, ReadySilent, CheckSchedulable, SchedulableSilent, Cordon, Drain,
       WriteFiles, Flush, UpgradeApiserver, UpgradePlugin, Uncordon
  <2>2. Past(p)' <=> Past(p) BY <2>1 DEF Past
  <2>3. n # h => HasRun(n, p, t, later) BY <1>00, <2>1, <2>2 DEF HasRun
  <2>4. n = h /\ task # t => HasRun(n, p, t, later) BY <1>00, <2>1, <2>2 DEF HasRun
  <2> QED BY <1>6, <2>1, <2>3, <2>4
<1>7. ASSUME NEW h \in Nodes, ChangeOf(h)
      PROVE  target' = target /\ HasRun(n, p, t, later)
  BY <1>7 DEF ChangeOf, KubeletDies, KubeletStarts, Change, AdminCordon, AdminUncordon, HasRun, Past
<1>8. CASE UNCHANGED vars
  BY <1>8 DEF vars, HasRun, Past
<1> QED BY <1>1, <1>2, <1>3, <1>4, <1>5, <1>6, <1>7, <1>8
        DEF Next, Run, Environment, TaskOf, ChangeOf

\* Docker, the launch script and the plugin only ever change to the target,
\* on a host that runs their task.
LEMMA WritesOfStep ==
  ASSUME TypeOK, [Next]_vars, NEW n \in Nodes
  PROVE  /\ docker'[n] = docker[n] \/ docker'[n] = target
         /\ file'[n] = file[n] \/ file'[n] = target
         /\ plugin'[n] = plugin[n] \/ plugin'[n] = target
<1> USE DEF software, progress
<1>1. CASE StartRun \/ Fail \/ NextTask \/ NextBatch \/ NextPlay \/ UNCHANGED vars
  BY <1>1 DEF StartRun, Fail, NextTask, NextBatch, NextPlay, vars
<1>2. ASSUME NEW h \in Nodes, TaskOf(h)
      PROVE  /\ docker' = docker \/ docker' = [docker EXCEPT ![h] = target]
             /\ file' = file \/ file' = [file EXCEPT ![h] = target]
             /\ plugin' = plugin \/ plugin' = [plugin EXCEPT ![h] = target]
  BY <1>2 DEF TaskOf, UpgradeDocker, CheckReady, ReadySilent, CheckSchedulable, SchedulableSilent, Cordon, Drain, WriteFiles,
     Flush, UpgradeApiserver, UpgradePlugin, Uncordon
<1>3. ASSUME NEW h \in Nodes, ChangeOf(h) PROVE UNCHANGED <<docker, file, plugin>>
  BY <1>3 DEF ChangeOf, KubeletDies, KubeletStarts, Change, AdminCordon, AdminUncordon
<1> QED BY <1>1, <1>2, <1>3 DEF Next, Run, Environment, TaskOf, ChangeOf, TypeOK

LEMMA WritesOfTask ==
  ASSUME TypeOK, NEW n \in Nodes, TaskOf(n)
  PROVE  /\ task = "docker" => docker'[n] = target
         /\ task = "files" => file'[n] = target
         /\ task = "network" => plugin'[n] = target
BY DEF TypeOK, TaskOf, Does, UpgradeDocker, CheckReady, ReadySilent, CheckSchedulable, SchedulableSilent, Cordon, Drain, WriteFiles,
   Flush, UpgradeApiserver, UpgradePlugin, Uncordon

LEMMA NextWritten ==
  ASSUME TypeOK, Shape, Written, [Next]_vars PROVE Written'
<1>1. /\ <<"docker", "docker", {}>> \in Writes
      /\ <<"masters", "files", AfterFiles>> \in Writes
      /\ <<"masters", "network", AfterNetwork>> \in Writes
      /\ <<"workers", "files", AfterFiles>> \in Writes
      /\ <<"workers", "network", AfterNetwork>> \in Writes
  BY DEF Writes
<1>2. /\ Hosts("docker") = Nodes /\ Hosts("masters") = Masters /\ Hosts("workers") = Workers
      /\ Masters \subseteq Nodes /\ Workers \subseteq Nodes
  BY DEF Hosts, Nodes
<1>3. ASSUME NEW n \in Nodes, HasRun(n, "docker", "docker", {})' PROVE docker'[n] = target'
  <2>1. /\ target' = target
        /\ HasRun(n, "docker", "docker", {}) \/ (task = "docker" /\ TaskOf(n))
    BY <1>1, <1>2, <1>3, HasRunStep
  <2> QED BY <2>1, WritesOfStep, WritesOfTask DEF Written
<1>4. ASSUME NEW m \in Masters, HasRun(m, "masters", "files", AfterFiles)' PROVE file'[m] = target'
  <2>1. /\ target' = target
        /\ HasRun(m, "masters", "files", AfterFiles) \/ (task = "files" /\ TaskOf(m))
    BY <1>1, <1>2, <1>4, HasRunStep
  <2> QED BY <1>2, <2>1, WritesOfStep, WritesOfTask DEF Written
<1>5. ASSUME NEW m \in Masters, HasRun(m, "masters", "network", AfterNetwork)' PROVE plugin'[m] = target'
  <2>1. /\ target' = target
        /\ HasRun(m, "masters", "network", AfterNetwork) \/ (task = "network" /\ TaskOf(m))
    BY <1>1, <1>2, <1>5, HasRunStep
  <2> QED BY <1>2, <2>1, WritesOfStep, WritesOfTask DEF Written
<1>6. ASSUME NEW w \in Workers, HasRun(w, "workers", "files", AfterFiles)' PROVE file'[w] = target'
  <2>1. /\ target' = target
        /\ HasRun(w, "workers", "files", AfterFiles) \/ (task = "files" /\ TaskOf(w))
    BY <1>1, <1>2, <1>6, HasRunStep
  <2> QED BY <1>2, <2>1, WritesOfStep, WritesOfTask DEF Written
<1>7. ASSUME NEW w \in Workers, HasRun(w, "workers", "network", AfterNetwork)' PROVE plugin'[w] = target'
  <2>1. /\ target' = target
        /\ HasRun(w, "workers", "network", AfterNetwork) \/ (task = "network" /\ TaskOf(w))
    BY <1>1, <1>2, <1>7, HasRunStep
  <2> QED BY <1>2, <2>1, WritesOfStep, WritesOfTask DEF Written
<1> QED BY <1>3, <1>4, <1>5, <1>6, <1>7 DEF Written

LEMMA NextKubeletsFollow ==
  ASSUME TypeOK, Shape, KubeletsFollow, [Next]_vars PROVE KubeletsFollow'
<1> USE DEF software, progress, facts
<1>0. failures' = 0 => failures = 0
  BY BoundsAssumption DEF Next, Run, Environment, TypeOK, vars, counters, StartRun, Fail, NextTask,
     NextBatch, NextPlay, Does, UpgradeDocker, CheckReady, ReadySilent, CheckSchedulable, SchedulableSilent, Cordon, Drain, WriteFiles,
     Flush, UpgradeApiserver, UpgradePlugin, Uncordon, KubeletDies, KubeletStarts,
     Change, AdminCordon, AdminUncordon
<1> SUFFICES ASSUME failures' = 0, NEW n \in Nodes PROVE kubelet'[n] = file'[n] \/ Awaits(n)'
  BY DEF KubeletsFollow
<1>1. kubelet[n] = file[n] \/ Awaits(n) BY <1>0 DEF KubeletsFollow
<1>2. CASE Fail
  BY <1>2, BoundsAssumption DEF Fail, TypeOK
<1>3. CASE StartRun \/ NextBatch \/ NextPlay
  <2>1. UNCHANGED <<file, kubelet>> BY <1>3 DEF StartRun, NextBatch, NextPlay
  <2>2. ~Awaits(n)
    BY <1>3 DEF StartRun, NextBatch, NextPlay, BatchDone, LastTask, Awaits, TypeOK, Shape
  <2> QED BY <1>1, <2>1, <2>2
<1>4. CASE NextTask
  <2>1. /\ UNCHANGED <<file, kubelet, notified, batch>> /\ todo = {} /\ todo' = batch
        /\ task = "files" => task' = "flush"
    BY <1>4 DEF NextTask, TaskAfter
  <2> QED BY <1>1, <2>1 DEF Awaits, TypeOK
<1>5. ASSUME NEW h \in Nodes, WriteFiles(h) PROVE kubelet'[n] = file'[n] \/ Awaits(n)'
  <2>1. /\ kubelet' = kubelet /\ file' = [file EXCEPT ![h] = target] /\ task' = "files"
        /\ notified' = notified \cup Notify(h)
    BY <1>5 DEF WriteFiles, Does
  <2>2. file'[n] = file[n] \/ n \in notified'
    BY <2>1 DEF TypeOK, Notify
  <2> QED BY <1>1, <2>1, <2>2 DEF Awaits
<1>6. ASSUME NEW h \in Nodes, Flush(h) PROVE kubelet'[n] = file'[n] \/ Awaits(n)'
  <2>1. /\ file' = file /\ task = "flush" /\ task' = "flush" /\ todo' = todo \ {h}
        /\ notified' = notified \ {h}
        /\ kubelet' = [kubelet EXCEPT ![h] = IF h \in notified \/ h \notin up THEN file[h] ELSE @]
    BY <1>6 DEF Flush, Does
  <2>2. CASE n = h BY <1>1, <2>1, <2>2 DEF TypeOK, Awaits
  <2>3. CASE n # h BY <1>1, <2>1, <2>3 DEF TypeOK, Awaits
  <2> QED BY <2>2, <2>3
<1>7. ASSUME NEW h \in Nodes, TaskOf(h), ~WriteFiles(h), ~Flush(h)
      PROVE  kubelet'[n] = file'[n] \/ Awaits(n)'
  <2>1. /\ UNCHANGED <<file, kubelet, notified, task>> /\ task \notin {"files", "flush"}
    BY <1>7 DEF TaskOf, Does, UpgradeDocker, CheckReady, ReadySilent, CheckSchedulable, SchedulableSilent, Cordon, Drain,
       UpgradeApiserver, UpgradePlugin, Uncordon
  <2> QED BY <1>1, <2>1 DEF Awaits
<1>8. ASSUME NEW h \in Nodes, ChangeOf(h) PROVE kubelet'[n] = file'[n] \/ Awaits(n)'
  <2>1. /\ UNCHANGED <<file, notified, task, todo>>
        /\ kubelet' = kubelet \/ kubelet' = [kubelet EXCEPT ![h] = file[h]]
    BY <1>8 DEF ChangeOf, KubeletDies, KubeletStarts, Change, AdminCordon, AdminUncordon
  <2> QED BY <1>1, <2>1 DEF Awaits, TypeOK
<1>9. CASE UNCHANGED vars
  BY <1>1, <1>9 DEF vars, Awaits
<1> QED BY <1>2, <1>3, <1>4, <1>5, <1>6, <1>7, <1>8, <1>9
        DEF Next, Run, Environment, TaskOf, ChangeOf

CompleteInv == Written /\ KubeletsFollow /\ VersionInv

LEMMA InitComplete == Init => CompleteInv
<1> SUFFICES ASSUME Init PROVE CompleteInv OBVIOUS
<1>1. Written BY DEF Init, Written, HasRun, Past
<1>2. KubeletsFollow BY DEF Init, KubeletsFollow
<1> QED BY <1>1, <1>2, InitVersions DEF CompleteInv

\* A run that completes has upgraded Docker, every launch script, plugin and
\* apiserver, whatever runs failed before it, and every kubelet if none did.
THEOREM UpgradeCompleteHolds == Spec => []UpgradeComplete
<1>1. Init => TypeOK /\ Shape /\ CompleteInv BY InitType, InitShape, InitComplete
<1>2. TypeOK /\ Shape /\ CompleteInv /\ [Next]_vars => (TypeOK /\ Shape /\ CompleteInv)'
  BY NextType, NextShape, NextMastersFirst, NextBehind, NextWritten, NextKubeletsFollow
     DEF CompleteInv, VersionInv
<1>3. TypeOK /\ Shape /\ CompleteInv => UpgradeComplete
  <2> SUFFICES ASSUME TypeOK, Shape, CompleteInv, play = "done" PROVE UpgradeComplete!2
    BY DEF UpgradeComplete
  <2>1. Past("docker") /\ Past("masters") /\ Past("workers") BY DEF Past
  <2>2. \A n \in Nodes : docker[n] = target /\ file[n] = target /\ plugin[n] = target
    BY <2>1 DEF CompleteInv, Written, HasRun, Nodes
  <2>3. \A m \in Masters : api[m] = target BY DEF CompleteInv, VersionInv, MastersFirst
  <2>4. failures = 0 => \A n \in Nodes : kubelet[n] = file[n]
    <3>1. notified = {} BY DEF TypeOK, Shape, AtRest
    <3> QED BY <3>1 DEF CompleteInv, KubeletsFollow, Awaits
  <2> QED BY <2>2, <2>3, <2>4
<1> QED BY <1>1, <1>2, <1>3, PTL DEF Spec

-----------------------------------------------------------------------------
(* Nodes in and out of service. *)

\* The nodes the batch will uncordon are the run's own, but for those
\* overlooked.
Own == admin \ overlooked \subseteq cordoned /\ Decided \cap admin \subseteq overlooked

\* Between the drain and the uncordoning they are empty.
Emptied ==
  /\ task \in {"files", "flush", "apiserver", "network"} => cordoning \ overlooked \subseteq drained
  /\ task = "drain" => (cordoning \ todo) \ overlooked \subseteq drained

\* What failed runs left cordoned.
Stranded == (cordoned \ admin) \ Decided

StrandedFew == Cardinality(Stranded) <= failures * BatchSize

ServiceInv == Own /\ Emptied /\ StrandedFew

LEMMA SubsetBound ==
  ASSUME NEW S \in SUBSET Nodes, NEW T \in SUBSET S PROVE Cardinality(T) <= Cardinality(S)
<1>1. IsFiniteSet(Nodes) BY NodesAssumption, FS_Union DEF Nodes
<1>2. IsFiniteSet(S) BY <1>1, FS_Subset
<1> QED BY <1>2, FS_Subset

LEMMA CardType == ASSUME NEW S \in SUBSET Nodes PROVE IsFiniteSet(S) /\ Cardinality(S) \in Nat
<1>1. IsFiniteSet(Nodes) BY NodesAssumption, FS_Union DEF Nodes
<1> QED BY <1>1, FS_Subset, FS_CardinalityType

LEMMA UnionBound ==
  ASSUME NEW S \in SUBSET Nodes, NEW T \in SUBSET Nodes
  PROVE  Cardinality(S \cup T) <= Cardinality(S) + Cardinality(T)
<1>1. /\ IsFiniteSet(S) /\ IsFiniteSet(T)
      /\ Cardinality(S) \in Nat /\ Cardinality(T) \in Nat
  BY CardType
<1>2. Cardinality(S \cup T) = Cardinality(S) + Cardinality(T) - Cardinality(S \cap T)
  BY <1>1, FS_Union
<1>3. Cardinality(S \cap T) \in Nat BY CardType
<1> QED BY <1>1, <1>2, <1>3

LEMMA InitService == Init => ServiceInv
<1> SUFFICES ASSUME Init PROVE ServiceInv OBVIOUS
<1>1. Stranded = {} /\ failures = 0 BY DEF Init, Stranded, Decided
<1>2. 0 <= 0 * BatchSize BY BatchAssumption
<1> QED BY <1>1, <1>2, FS_EmptySet DEF Init, ServiceInv, Own, Emptied, StrandedFew, Decided

\* A batch that begins or ends has decided nothing.
LEMMA NothingDecided ==
  ASSUME task' \in {"docker", "ready"} PROVE Decided' = {}
BY DEF Decided

\* A task that begins decides no more than the one before it.
LEMMA DecidedByNextTask ==
  ASSUME TypeOK, Shape, NextTask
  PROVE  /\ Decided' = Decided
         /\ UNCHANGED <<cordoned, drained, admin, cordoning, overlooked, failures>>
         /\ todo = {}
         /\ task' \in {"files", "flush", "apiserver", "network"} =>
              task \in {"drain", "files", "flush", "apiserver"}
         /\ task' = "drain" => todo' = batch
<1>1. /\ UNCHANGED <<cordoned, drained, admin, cordoning, overlooked, failures, batch, play>>
      /\ todo = {} /\ todo' = batch /\ task # "uncordon" /\ ~AtRest
      /\ task' = TaskAfter /\ task # LastTask(play)
  BY DEF NextTask, LastTask, Shape, api_objects, facts, counters
<1>2. \/ task = "ready" /\ task' = "schedulable"
      \/ task = "schedulable" /\ task' = "cordon"
      \/ task = "cordon" /\ task' = "drain"
      \/ task = "drain" /\ task' = "files"
      \/ task = "files" /\ task' = "flush"
      \/ task = "flush" /\ task' \in {"apiserver", "network"}
      \/ task = "apiserver" /\ task' = "network"
      \/ task = "network" /\ task' = "uncordon"
  BY <1>1 DEF TaskAfter, LastTask, TypeOK, Shape
<1>3. cordoning \subseteq batch BY DEF TypeOK
<1> QED BY <1>1, <1>2, <1>3 DEF Decided

\* What a task of the batch does to the hosts decided on.
LEMMA DecidedByTask ==
  ASSUME TypeOK, NEW h \in Nodes, TaskOf(h)
  PROVE  /\ UNCHANGED <<admin, task, failures>>
         /\ CheckReady(h) \/ ReadySilent(h) => Decided' = {}
         /\ CheckSchedulable(h) => Decided' = Decided \cup (({h} \cap cordoning) \ cordoned)
         /\ SchedulableSilent(h) => Decided' = Decided \cup ({h} \cap cordoning)
         /\ Uncordon(h) => Decided' = Decided \ {h} /\ {h} \cap cordoning \subseteq Decided
         /\ \/ CheckReady(h) \/ ReadySilent(h) \/ CheckSchedulable(h) \/ SchedulableSilent(h)
            \/ Uncordon(h) \/ Decided' = Decided
<1> USE DEF Does, api_objects, facts
<1>1. CASE CheckReady(h) \/ ReadySilent(h)
  BY <1>1 DEF CheckReady, ReadySilent, CheckSchedulable, SchedulableSilent, Uncordon, Decided
<1>2. CASE CheckSchedulable(h)
  <2>1. /\ task = "schedulable" /\ UNCHANGED <<admin, task, failures>> /\ h \in todo
        /\ todo' = todo \ {h} /\ cordoning' = cordoning \ ({h} \cap cordoned)
    BY <1>2 DEF CheckSchedulable
  <2>2. Decided' = Decided \cup (({h} \cap cordoning) \ cordoned) BY <2>1 DEF Decided
  <2>3. ~CheckReady(h) /\ ~ReadySilent(h) /\ ~Uncordon(h)
    BY <2>1 DEF CheckReady, ReadySilent, Uncordon
  <2>4. SchedulableSilent(h) => cordoning' = cordoning BY DEF SchedulableSilent
  <2>5. SchedulableSilent(h) => Decided' = Decided \cup ({h} \cap cordoning)
    BY <2>1, <2>4 DEF Decided
  <2> QED BY <1>2, <2>1, <2>2, <2>3, <2>5
<1>3. CASE SchedulableSilent(h)
  <2>1. /\ task = "schedulable" /\ UNCHANGED <<admin, task, failures, cordoning>>
        /\ h \in todo /\ todo' = todo \ {h}
    BY <1>3 DEF SchedulableSilent
  <2>2. Decided' = Decided \cup ({h} \cap cordoning) BY <2>1 DEF Decided
  <2>3. ~CheckReady(h) /\ ~ReadySilent(h) /\ ~Uncordon(h)
    BY <2>1 DEF CheckReady, ReadySilent, Uncordon
  <2>4. CheckSchedulable(h) => cordoning' = cordoning \ ({h} \cap cordoned)
    BY DEF CheckSchedulable
  <2>5. CheckSchedulable(h) => Decided' = Decided \cup (({h} \cap cordoning) \ cordoned)
    BY <2>1, <2>4 DEF Decided
  <2> QED BY <1>3, <2>1, <2>2, <2>3, <2>5
<1>4. CASE Uncordon(h)
  BY <1>4 DEF CheckReady, ReadySilent, CheckSchedulable, SchedulableSilent, Uncordon, Decided
<1>5. CASE UpgradeDocker(h) \/ Cordon(h) \/ Drain(h) \/ WriteFiles(h) \/ Flush(h)
           \/ UpgradeApiserver(h) \/ UpgradePlugin(h)
  BY <1>5 DEF UpgradeDocker, Cordon, Drain, WriteFiles, Flush, UpgradeApiserver,
     UpgradePlugin, CheckReady, ReadySilent, CheckSchedulable, SchedulableSilent, Uncordon,
     Decided
<1> QED BY <1>1, <1>2, <1>3, <1>4, <1>5 DEF TaskOf

LEMMA NextOwn ==
  ASSUME TypeOK, Shape, ServiceInv, [Next]_vars PROVE Own' /\ Emptied'
<1> USE DEF software, api_objects, progress, facts, ServiceInv
<1>0. ASSUME UNCHANGED <<cordoned, drained, admin>>, task' \in {"docker", "ready"},
             cordoning' = {}, Forget
      PROVE  Own' /\ Emptied'
  BY <1>0, NothingDecided DEF Forget, Own, Emptied
<1>1. CASE StartRun
  BY <1>0, <1>1, TakeBatchShape DEF StartRun, FirstTask
<1>2. CASE Fail
  BY <1>0, <1>2 DEF Fail, Stop
<1>3. CASE NextTask
  BY <1>3, DecidedByNextTask DEF Own, Emptied, TypeOK
<1>4. CASE NextBatch
  BY <1>0, <1>4, TakeBatchShape DEF NextBatch, FirstTask
<1>5. CASE NextPlay
  BY <1>0, <1>5, TakeBatchShape DEF NextPlay, Stop, FirstTask
<1>6. ASSUME NEW h \in Nodes, TaskOf(h) PROVE Own' /\ Emptied'
  <2>0. /\ UNCHANGED <<admin, task>> /\ todo' = todo \ {h}
        /\ \/ CheckReady(h) \/ ReadySilent(h) \/ CheckSchedulable(h) \/ SchedulableSilent(h)
           \/ Uncordon(h) \/ Decided' = Decided
    BY <1>6, DecidedByTask, TaskType
  <2>1. CASE CheckReady(h) \/ ReadySilent(h)
    BY <1>6, <2>0, <2>1, DecidedByTask DEF CheckReady, ReadySilent, Does, Own, Emptied
  <2>2. CASE CheckSchedulable(h)
    BY <1>6, <2>0, <2>2, DecidedByTask DEF CheckSchedulable, Does, Own, Emptied
  <2>3. CASE SchedulableSilent(h)
    BY <1>6, <2>0, <2>3, DecidedByTask DEF SchedulableSilent, Does, Own, Emptied
  <2>4. CASE Uncordon(h)
    BY <1>6, <2>0, <2>4, DecidedByTask DEF Uncordon, Does, Own, Emptied, TypeOK
  <2>5. CASE Cordon(h)
    <3>1. Decided' = Decided
      BY <2>0, <2>5 DEF Cordon, CheckReady, ReadySilent, CheckSchedulable, SchedulableSilent,
         Uncordon, Does
    <3> QED BY <2>0, <2>5, <3>1 DEF Cordon, Does, Own, Emptied
  <2>6. CASE Drain(h)
    <3>1. Decided' = Decided
      BY <2>0, <2>6 DEF Drain, CheckReady, ReadySilent, CheckSchedulable, SchedulableSilent,
         Uncordon, Does
    <3> QED BY <2>0, <2>6, <3>1 DEF Drain, Does, Own, Emptied, TypeOK
  <2>7. CASE UpgradeDocker(h) \/ WriteFiles(h) \/ Flush(h) \/ UpgradeApiserver(h)
             \/ UpgradePlugin(h)
    <3>1. /\ UNCHANGED <<cordoned, drained, admin, task, cordoning, overlooked>>
          /\ task \notin {"ready", "schedulable", "drain", "uncordon"}
      BY <2>7 DEF UpgradeDocker, WriteFiles, Flush, UpgradeApiserver, UpgradePlugin, Does
    <3>2. Decided' = Decided BY <3>1 DEF Decided
    <3> QED BY <3>1, <3>2 DEF Own, Emptied
  <2> QED BY <1>6, <2>1, <2>2, <2>3, <2>4, <2>5, <2>6, <2>7 DEF TaskOf
<1>7. ASSUME NEW n \in Nodes, ChangeOf(n) PROVE Own' /\ Emptied'
  <2>0. UNCHANGED <<task, todo, cordoning>> /\ Decided' = Decided
    BY <1>7 DEF ChangeOf, KubeletDies, KubeletStarts, Change, AdminCordon, AdminUncordon, Decided
  <2>1. CASE KubeletDies(n) \/ KubeletStarts(n)
    BY <2>0, <2>1 DEF KubeletDies, KubeletStarts, Own, Emptied
  <2>2. CASE AdminCordon(n)
    <3>1. /\ UNCHANGED drained /\ cordoned' = cordoned \cup {n} /\ admin' = admin \cup {n}
          /\ overlooked' = IF n \in Decided THEN overlooked \cup {n} ELSE overlooked \ {n}
      BY <2>2 DEF AdminCordon, Change
    <3>2. Own' BY <2>0, <3>1 DEF Own
    <3>3. task \in {"files", "flush", "apiserver", "network", "drain"} => Decided = cordoning
      BY DEF Decided
    <3> QED BY <2>0, <3>1, <3>2, <3>3 DEF Emptied
  <2>3. CASE AdminUncordon(n)
    <3>1. /\ cordoned' = cordoned \ {n} /\ admin' = admin \ {n} /\ drained' = drained \ {n}
          /\ overlooked' = IF n \in Decided THEN overlooked \cup {n} ELSE overlooked \ {n}
      BY <2>3 DEF AdminUncordon, Change
    <3>2. Own' BY <2>0, <3>1 DEF Own
    <3>3. task \in {"files", "flush", "apiserver", "network", "drain"} => Decided = cordoning
      BY DEF Decided
    <3> QED BY <2>0, <3>1, <3>2, <3>3 DEF Emptied
  <2> QED BY <1>7, <2>1, <2>2, <2>3 DEF ChangeOf
<1>8. CASE UNCHANGED vars
  BY <1>8 DEF vars, Own, Emptied, Decided
<1> QED BY <1>1, <1>2, <1>3, <1>4, <1>5, <1>6, <1>7, <1>8
        DEF Next, Run, Environment, TaskOf, ChangeOf

\* The bound only grows, by a batch, when a run fails.
LEMMA NextStranded ==
  ASSUME TypeOK, Shape, ServiceInv, [Next]_vars PROVE StrandedFew'
<1> USE DEF software, api_objects, progress, facts, counters
<1>0. /\ Stranded \in SUBSET Nodes /\ cordoning \in SUBSET Nodes
      /\ Cardinality(Stranded) \in Nat /\ failures \in Nat /\ failures * BatchSize \in Nat
      /\ Cardinality(Stranded) <= failures * BatchSize
  <2>1. Stranded \in SUBSET Nodes /\ cordoning \in SUBSET Nodes /\ failures \in Nat
    BY BoundsAssumption DEF TypeOK, Stranded
  <2> QED BY <2>1, CardType, BatchAssumption DEF ServiceInv, StrandedFew
<1>1. CASE Fail
  <2>1. Stranded' \subseteq Stranded \cup cordoning /\ failures' = failures + 1
    BY <1>1 DEF Fail, Stop, Stranded, Decided
  <2>2. Cardinality(cordoning) \in Nat /\ Cardinality(cordoning) <= BatchSize
    <3>1. Cardinality(cordoning) <= Cardinality(batch) /\ Cardinality(batch) \in Nat
      BY SubsetBound, CardType DEF TypeOK
    <3> QED BY <1>0, <3>1, CardType, BatchAssumption DEF Shape
  <2>3. Cardinality(Stranded \cup cordoning) <= failures * BatchSize + BatchSize
    <3>1. /\ Cardinality(Stranded \cup cordoning) <= Cardinality(Stranded) + Cardinality(cordoning)
          /\ Cardinality(Stranded \cup cordoning) \in Nat
      BY <1>0, UnionBound, CardType
    <3> QED BY <1>0, <2>2, <3>1, BatchAssumption
  <2>4. Cardinality(Stranded') <= Cardinality(Stranded \cup cordoning) /\ Cardinality(Stranded') \in Nat
    BY <1>0, <2>1, SubsetBound, CardType
  <2>5. failures' * BatchSize = failures * BatchSize + BatchSize
    BY <1>0, <2>1, BatchAssumption
  <2>6. Cardinality(Stranded \cup cordoning) \in Nat BY <1>0, CardType
  <2>7. Cardinality(Stranded') <= failures' * BatchSize
    BY <1>0, <2>3, <2>4, <2>5, <2>6, BatchAssumption
  <2> QED BY <2>7 DEF StrandedFew
<1>2. ASSUME Stranded' \subseteq Stranded, failures' = failures PROVE StrandedFew'
  <2>1. Cardinality(Stranded') <= Cardinality(Stranded) /\ Cardinality(Stranded') \in Nat
    BY <1>0, <1>2, SubsetBound, CardType
  <2>2. Cardinality(Stranded') <= failures' * BatchSize BY <1>0, <1>2, <2>1
  <2> QED BY <2>2 DEF StrandedFew
<1>3. CASE StartRun
  <2>1. cordoning = {} BY <1>3 DEF StartRun, Shape, TypeOK
  <2> QED BY <1>2, <1>3, <2>1 DEF StartRun, Stranded, Decided
<1>4. CASE NextTask
  BY <1>2, <1>4, DecidedByNextTask DEF Stranded
<1>5. ASSUME BatchDone PROVE Decided = {}
  BY <1>5 DEF BatchDone, LastTask, Decided, TypeOK, Shape, AtRest, Hosts
<1>6. CASE NextBatch
  BY <1>2, <1>5, <1>6 DEF NextBatch, Stranded
<1>7. CASE NextPlay
  BY <1>2, <1>5, <1>7 DEF NextPlay, Stranded
<1>8. ASSUME NEW h \in Nodes, TaskOf(h) PROVE StrandedFew'
  <2>1. CASE CheckReady(h) \/ ReadySilent(h)
    <3>1. UNCHANGED <<cordoned, admin, failures>> /\ Decided = {}
      BY <2>1 DEF CheckReady, ReadySilent, Does, Decided
    <3> QED BY <1>2, <3>1 DEF Stranded
  <2>2. CASE CheckSchedulable(h) \/ SchedulableSilent(h)
    <3>1. UNCHANGED <<cordoned, admin, failures>> /\ Decided \subseteq Decided'
      BY <1>8, <2>2, DecidedByTask DEF CheckSchedulable, SchedulableSilent
    <3> QED BY <1>2, <3>1 DEF Stranded
  <2>3. CASE Uncordon(h)
    <3>1. /\ cordoned' = cordoned \ ({h} \cap cordoning) /\ UNCHANGED <<admin, failures>>
          /\ Decided' = Decided \ {h} /\ Decided \subseteq cordoning
      BY <1>8, <2>3, DecidedByTask DEF Uncordon, Decided
    <3> QED BY <1>2, <3>1 DEF Stranded
  <2>4. CASE Cordon(h) \/ Drain(h)
    <3>1. /\ cordoned' = cordoned \cup ({h} \cap cordoning) /\ UNCHANGED <<admin, failures>>
          /\ Decided = cordoning /\ Decided' = cordoning
      BY <2>4 DEF Cordon, Drain, Does, Decided
    <3> QED BY <1>2, <3>1 DEF Stranded
  <2>5. CASE UpgradeDocker(h) \/ WriteFiles(h) \/ Flush(h) \/ UpgradeApiserver(h)
             \/ UpgradePlugin(h)
    <3>1. UNCHANGED <<cordoned, admin, failures>> /\ Decided' = Decided
      BY <2>5 DEF UpgradeDocker, WriteFiles, Flush, UpgradeApiserver, UpgradePlugin, Does, Decided
    <3> QED BY <1>2, <3>1 DEF Stranded
  <2> QED BY <1>8, <2>1, <2>2, <2>3, <2>4, <2>5 DEF TaskOf
<1>9. ASSUME NEW n \in Nodes, ChangeOf(n) PROVE StrandedFew'
  <2>1. Stranded' \subseteq Stranded /\ failures' = failures
    BY <1>9 DEF ChangeOf, KubeletDies, KubeletStarts, Change, AdminCordon, AdminUncordon,
       Stranded, Decided
  <2> QED BY <1>2, <2>1
<1>10. CASE UNCHANGED vars
  BY <1>2, <1>10 DEF vars, Stranded, Decided
<1> QED BY <1>1, <1>3, <1>4, <1>6, <1>7, <1>8, <1>9, <1>10
        DEF Next, Run, Environment, TaskOf, ChangeOf

LEMMA ServiceHolds == Spec => [](TypeOK /\ Shape /\ ServiceInv)
<1>1. Init => TypeOK /\ Shape /\ ServiceInv BY InitType, InitShape, InitService
<1>2. TypeOK /\ Shape /\ ServiceInv /\ [Next]_vars => (TypeOK /\ Shape /\ ServiceInv)'
  BY NextType, NextShape, NextOwn, NextStranded DEF ServiceInv
<1> QED BY <1>1, <1>2, PTL DEF Spec

\* A node the administrator cordoned stays cordoned, through every run, unless
\* a batch overlooked it.
THEOREM AdminRespectedHolds == Spec => []AdminRespected
<1>1. ServiceInv => AdminRespected BY DEF ServiceInv, Own, AdminRespected
<1> QED BY <1>1, ServiceHolds, PTL

\* Each failed run leaves at most one batch cordoned, and the run under way
\* adds at most one.
THEOREM StrandedBoundHolds == Spec => []StrandedBound
<1>1. TypeOK /\ Shape /\ ServiceInv => StrandedBound
  <2> SUFFICES ASSUME TypeOK, Shape, ServiceInv PROVE StrandedBound OBVIOUS
  <2>1. /\ Stranded \in SUBSET Nodes /\ cordoning \in SUBSET Nodes /\ batch \in SUBSET Nodes
        /\ cordoned \ admin \in SUBSET Nodes /\ failures \in Nat
    BY BoundsAssumption DEF TypeOK, Stranded
  <2>2. /\ Cardinality(Stranded) \in Nat /\ failures * BatchSize \in Nat
        /\ Cardinality(Stranded) <= failures * BatchSize
    BY <2>1, CardType, BatchAssumption DEF ServiceInv, StrandedFew
  <2>3. CASE AtRest
    <3>1. cordoned \ admin = Stranded BY <2>3 DEF Shape, TypeOK, Stranded, Decided
    <3> QED BY <2>2, <2>3, <3>1 DEF StrandedBound
  <2>4. CASE ~AtRest
    <3>1. Cardinality(cordoning) \in Nat /\ Cardinality(cordoning) <= BatchSize
      <4>1. Cardinality(cordoning) <= Cardinality(batch) /\ Cardinality(batch) \in Nat
        BY SubsetBound, CardType DEF TypeOK
      <4> QED BY <2>1, <4>1, CardType, BatchAssumption DEF Shape
    <3>2. /\ Cardinality(cordoned \ admin) <= Cardinality(Stranded \cup cordoning)
          /\ Cardinality(Stranded \cup cordoning) <= Cardinality(Stranded) + Cardinality(cordoning)
          /\ Cardinality(cordoned \ admin) \in Nat /\ Cardinality(Stranded \cup cordoning) \in Nat
      <4>1. cordoned \ admin \subseteq Stranded \cup cordoning BY DEF Stranded, Decided
      <4> QED BY <2>1, <4>1, SubsetBound, UnionBound, CardType
    <3>3. (failures + 1) * BatchSize = failures * BatchSize + BatchSize
      BY <2>1, BatchAssumption
    <3>4. Cardinality(cordoned \ admin) <= (failures + 1) * BatchSize
      BY <2>2, <3>1, <3>2, <3>3, BatchAssumption
    <3> QED BY <2>4, <3>4 DEF StrandedBound
  <2> QED BY <2>3, <2>4
<1> QED BY <1>1, ServiceHolds, PTL

\* A kubelet the run restarts on a node it took out of service is restarted
\* without workloads, unless the administrator uncordoned the node meanwhile.
THEOREM RestartsDrainedHolds == Spec => RestartsDrained
<1>1. TypeOK /\ Shape /\ ServiceInv /\ [Next]_vars =>
        [\A n \in cordoning \ overlooked :
           n \in up /\ kubelet'[n] # kubelet[n] => n \in drained]_vars
  <2> SUFFICES ASSUME TypeOK, Shape, ServiceInv, [Next]_vars, NEW n \in cordoning \ overlooked,
                      n \in up, kubelet'[n] # kubelet[n]
               PROVE  n \in drained
    OBVIOUS
  <2>1. PICK h \in Nodes : Flush(h) \/ KubeletStarts(h)
    BY DEF Next, Run, Environment, vars, software, StartRun, Fail, NextTask, NextBatch,
       NextPlay, UpgradeDocker, CheckReady, ReadySilent, CheckSchedulable, SchedulableSilent, Cordon, Drain, WriteFiles,
       UpgradeApiserver, UpgradePlugin, Uncordon, KubeletDies, Change, AdminCordon, AdminUncordon
  <2>2. ~KubeletStarts(h) BY DEF KubeletStarts, TypeOK
  <2> QED BY <2>1, <2>2 DEF Flush, Does, ServiceInv, Emptied
<1> QED BY <1>1, ServiceHolds, PTL DEF Spec, RestartsDrained

=============================================================================

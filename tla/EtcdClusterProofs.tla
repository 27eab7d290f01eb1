-------------------------- MODULE EtcdClusterProofs --------------------------
(***************************************************************************)
(* Proofs about EtcdCluster, for any finite set of hosts, any first group  *)
(* and any bounds.                                                         *)
(***************************************************************************)
EXTENDS EtcdCluster, FiniteSetTheorems, TLAPS

-----------------------------------------------------------------------------
(* Type correctness. *)

\* Why a process never starts without a cluster: a configuration names peers.
PeersGiven ==
  /\ \A h \in Hosts : env[h].state # "none" => env[h].peers # {}
  /\ step = "addconf" => joining # {}

Typed == TypeOK /\ PeersGiven

ProcessStep(h) == StartMember(h) \/ MemberDies(h)

LEMMA CountersType ==
  ASSUME TypeOK, [Next]_vars
  PROVE  /\ failures' \in 0 .. MaxFailures /\ outages' \in 0 .. MaxOutages
         /\ edits' \in 0 .. MaxEdits /\ disturbed' \in BOOLEAN
<1>1. /\ failures' = failures \/ (failures < MaxFailures /\ failures' = failures + 1)
      /\ outages' = outages \/ (outages < MaxOutages /\ outages' = outages + 1)
      /\ edits' = edits \/ (edits < MaxEdits /\ edits' = edits + 1)
  BY DEF Next, Run, vars, counters, StartRun, CheckHealth, Configure, EnsureRunning,
         AwaitHealth, CheckMember, AddMember, ConfigureJoiner, ConfirmMember, AllJoined,
         RefreshAll, RestartNotified, AwaitUp, GiveUp, Fail, StartMember, MemberDies, AddHosts,
         Unanswered, Outage
<1>2. /\ failures \in 0 .. MaxFailures /\ outages \in 0 .. MaxOutages
      /\ edits \in 0 .. MaxEdits /\ disturbed \in BOOLEAN
  BY DEF TypeOK
<1>3. disturbed' \in BOOLEAN
  BY <1>2 DEF Next, Run, vars, counters, StartRun, CheckHealth, Configure, EnsureRunning,
         AwaitHealth, CheckMember, AddMember, ConfigureJoiner, ConfirmMember, AllJoined,
         RefreshAll, RestartNotified, AwaitUp, GiveUp, Fail, StartMember, MemberDies, AddHosts
<1> QED BY <1>1, <1>2, <1>3, BoundsAssumption

LEMMA InitTyped == Init => Typed
<1> SUFFICES ASSUME Init PROVE Typed OBVIOUS
<1>1. /\ failures \in 0 .. MaxFailures /\ outages \in 0 .. MaxOutages
      /\ edits \in 0 .. MaxEdits /\ disturbed \in BOOLEAN
  <2>1. MaxFailures \in Nat /\ MaxOutages \in Nat /\ MaxEdits \in Nat
    BY BoundsAssumption
  <2>2. failures = 0 /\ outages = 0 /\ edits = 0 /\ disturbed \in BOOLEAN
    BY Zenon DEF Init
  <2> QED BY <2>1, <2>2
<1>2. group \in (SUBSET Hosts) \ {{}}
  BY GroupsAssumption DEF Init
<1>3. env \in [Hosts -> Envs] /\ PeersGiven
  BY DEF Init, NoEnv, Envs, PeersGiven
<1> QED BY <1>1, <1>2, <1>3 DEF Init, Typed, TypeOK, NoData

\* What writing etcd.env of hosts of the group leaves.
LEMMA RefreshTyped ==
  ASSUME Typed, NEW W \in SUBSET group, NEW peers \in (SUBSET Hosts) \ {{}},
         RefreshConfig(W, peers)
  PROVE  /\ env' \in [Hosts -> Envs] /\ notified' \in SUBSET group
         /\ \A h \in Hosts : env'[h].state # "none" => env'[h].peers # {}
<1> DEFINE fresh(h) == [state |-> StateFor(h), peers |-> peers]
<1>1. /\ env' = [h \in Hosts |-> IF h \in W THEN fresh(h) ELSE env[h]]
      /\ notified' = notified \cup {h \in W : env[h] # fresh(h)}
  BY DEF RefreshConfig
<1>2. \A h \in Hosts : fresh(h) \in Envs /\ fresh(h).peers # {}
  BY DEF StateFor, Envs
<1>3. \A h \in Hosts : env[h] \in Envs /\ (env[h].state # "none" => env[h].peers # {})
  BY DEF Typed, TypeOK, PeersGiven
<1>4. notified \in SUBSET group
  BY DEF Typed, TypeOK
<1> HIDE DEF fresh
<1> QED BY <1>1, <1>2, <1>3, <1>4

\* A process that starts belongs to a cluster.
LEMMA JoinsTyped ==
  ASSUME Typed, NEW h \in Hosts, NEW c \in JoinsBy(h)
  PROVE  c \in SUBSET Hosts /\ c # NoData
<1>1. /\ data[h] \in SUBSET Hosts /\ env[h] \in Envs
      /\ env[h].state # "none" => env[h].peers # {}
  BY DEF Typed, TypeOK, PeersGiven
<1>2. CASE data[h] # NoData
  BY <1>1, <1>2 DEF JoinsBy
<1>3. CASE data[h] = NoData /\ env[h].state = "new"
  BY <1>1, <1>3 DEF JoinsBy, Envs, NoData
<1>4. CASE data[h] = NoData /\ env[h].state = "existing"
  <2>1. PICK e \in env[h].peers \cap running : c = data[e]
    BY <1>4 DEF JoinsBy
  <2> QED BY <2>1 DEF Typed, TypeOK
<1>5. CASE data[h] = NoData /\ env[h].state = "none"
  BY <1>5 DEF JoinsBy
<1> QED BY <1>1, <1>2, <1>3, <1>4, <1>5 DEF Envs

LEMMA StopTyped ==
  ASSUME Typed, NEW s \in {"idle", "check", "done"}, Stop(s),
         group' \in (SUBSET Hosts) \ {{}}, UNCHANGED machines, [Next]_vars
  PROVE  Typed'
<1>1. /\ failures' \in 0 .. MaxFailures /\ outages' \in 0 .. MaxOutages
      /\ edits' \in 0 .. MaxEdits /\ disturbed' \in BOOLEAN
  BY CountersType DEF Typed
<1> QED BY <1>1 DEF Typed, TypeOK, PeersGiven, Stop, machines

LEMMA RunTyped ==
  ASSUME Typed, Run, [Next]_vars
  PROVE  Typed'
<1>0. /\ failures' \in 0 .. MaxFailures /\ outages' \in 0 .. MaxOutages
      /\ edits' \in 0 .. MaxEdits /\ disturbed' \in BOOLEAN
  BY CountersType DEF Typed
<1>1. CASE CheckHealth
  BY <1>0, <1>1 DEF CheckHealth, Typed, TypeOK, PeersGiven, machines
<1>2. CASE Configure
  <2>1. RefreshConfig(group, group) /\ group \in (SUBSET Hosts) \ {{}}
    BY <1>2 DEF Configure, Typed, TypeOK
  <2>2. /\ env' \in [Hosts -> Envs] /\ notified' \in SUBSET group
        /\ \A h \in Hosts : env'[h].state # "none" => env'[h].peers # {}
    BY <2>1, RefreshTyped
  <2> QED BY <1>0, <1>2, <2>2 DEF Configure, Typed, TypeOK, PeersGiven
<1>3. CASE EnsureRunning
  BY <1>0, <1>3 DEF EnsureRunning, Typed, TypeOK, PeersGiven, facts
<1>4. CASE AwaitHealth
  BY <1>0, <1>4 DEF AwaitHealth, Typed, TypeOK, PeersGiven, machines
<1>5. CASE CheckMember
  BY <1>0, <1>5 DEF CheckMember, Typed, TypeOK, PeersGiven, machines
<1>6. ASSUME NEW h \in Hosts, AddMember(h) PROVE Typed'
  <2>1. PICK c \in Reached : added' = added \cup {<<c, h>>}
    BY <1>6 DEF AddMember
  <2>2. c \in SUBSET Hosts
    BY <2>1 DEF Reached, Typed, TypeOK
  <2> QED BY <1>0, <1>6, <2>1, <2>2 DEF AddMember, Typed, TypeOK, PeersGiven
<1>7. CASE ConfigureJoiner
  <2>1. /\ RefreshConfig(joining, inCluster \cup joining) /\ joining \in SUBSET group
        /\ inCluster \cup joining \in (SUBSET Hosts) \ {{}}
    BY <1>7 DEF ConfigureJoiner, Typed, TypeOK, PeersGiven
  <2>2. /\ env' \in [Hosts -> Envs] /\ notified' \in SUBSET group
        /\ \A h \in Hosts : env'[h].state # "none" => env'[h].peers # {}
    BY <2>1, RefreshTyped
  <2> QED BY <1>0, <1>7, <2>2 DEF ConfigureJoiner, Typed, TypeOK, PeersGiven
<1>8. CASE ConfirmMember
  BY <1>0, <1>8 DEF ConfirmMember, Typed, TypeOK, PeersGiven, machines
<1>9. CASE AllJoined
  BY <1>0, <1>9 DEF AllJoined, Typed, TypeOK, PeersGiven, machines, facts
<1>10. CASE RefreshAll
  <2>1. RefreshConfig(group, group) /\ group \in (SUBSET Hosts) \ {{}}
    BY <1>10 DEF RefreshAll, Typed, TypeOK
  <2>2. /\ env' \in [Hosts -> Envs] /\ notified' \in SUBSET group
        /\ \A h \in Hosts : env'[h].state # "none" => env'[h].peers # {}
    BY <2>1, RefreshTyped
  <2> QED BY <1>0, <1>10, <2>2 DEF RefreshAll, Typed, TypeOK, PeersGiven
<1>11. CASE RestartNotified
  BY <1>0, <1>11 DEF RestartNotified, Typed, TypeOK, PeersGiven, facts
<1>12. CASE AwaitUp
  BY <1>12, StopTyped DEF AwaitUp, Typed, TypeOK
<1>13. CASE GiveUp
  BY <1>13, StopTyped DEF GiveUp, Typed, TypeOK
<1> QED BY <1>1, <1>2, <1>3, <1>4, <1>5, <1>6, <1>7, <1>8, <1>9, <1>10, <1>11, <1>12,
           <1>13 DEF Run

LEMMA NextTyped == Typed /\ [Next]_vars => Typed'
<1> SUFFICES ASSUME Typed, [Next]_vars PROVE Typed'
  OBVIOUS
<1>0. /\ failures' \in 0 .. MaxFailures /\ outages' \in 0 .. MaxOutages
      /\ edits' \in 0 .. MaxEdits /\ disturbed' \in BOOLEAN
  BY CountersType DEF Typed
<1>1. CASE StartRun
  BY <1>1, StopTyped DEF StartRun, Typed, TypeOK
<1>2. CASE Run
  BY <1>2, RunTyped
<1>3. CASE Fail
  BY <1>3, StopTyped DEF Fail, Typed, TypeOK
<1>4. ASSUME NEW h \in Hosts, StartMember(h) PROVE Typed'
  <2>1. PICK c \in JoinsBy(h) : data' = [data EXCEPT ![h] = c]
    BY <1>4 DEF StartMember
  <2>2. c \in SUBSET Hosts /\ c # NoData
    BY <2>1, JoinsTyped
  <2> QED BY <1>0, <1>4, <2>1, <2>2 DEF StartMember, Typed, TypeOK, PeersGiven, facts
<1>5. ASSUME NEW h \in Hosts, MemberDies(h) PROVE Typed'
  BY <1>0, <1>5 DEF MemberDies, Typed, TypeOK, PeersGiven, facts
<1>6. ASSUME NEW new \in SUBSET Hosts, AddHosts(new) PROVE Typed'
  BY <1>6, StopTyped DEF AddHosts, Typed, TypeOK
<1>7. CASE UNCHANGED vars
  BY <1>0, <1>7 DEF vars, machines, facts, counters, Typed, TypeOK, PeersGiven
<1> QED BY <1>1, <1>2, <1>3, <1>4, <1>5, <1>6, <1>7 DEF Next

LEMMA AlwaysTyped == Spec => []Typed
BY InitTyped, NextTyped, PTL DEF Spec

\* Every variable keeps its type: no process runs without a data directory,
\* and no fact names a host outside the group.
THEOREM TypeCorrect == Spec => []TypeOK
<1>1. Typed => TypeOK
  BY DEF Typed
<1> QED BY <1>1, AlwaysTyped, PTL

-----------------------------------------------------------------------------
(* The quorum. *)

Voters(c) == Joined(c) \cap running

LEMMA Finite ==
  ASSUME TypeOK, NEW c \in Clusters
  PROVE  /\ IsFiniteSet(Members(c)) /\ IsFiniteSet(Voters(c)) /\ Voters(c) \subseteq Members(c)
         /\ Cardinality(Members(c)) \in Nat /\ Cardinality(Voters(c)) \in Nat
<1>1. c \in SUBSET Hosts
  BY DEF Clusters, TypeOK
<1>2. Members(c) \subseteq Hosts
  BY <1>1 DEF Members
<1>3. Voters(c) \subseteq Members(c)
  BY DEF Voters, Joined
<1>4. IsFiniteSet(Members(c)) /\ IsFiniteSet(Voters(c))
  BY <1>2, <1>3, HostsAssumption, FS_Subset
<1> QED BY <1>3, <1>4, FS_CardinalityType

\* A step that lists nobody and takes no voter away keeps the quorum.
LEMMA QuorumMonotone ==
  ASSUME TypeOK, TypeOK', NEW c \in Clusters, HasQuorum(c, running),
         added' = added, \A m \in running : m \in running' /\ data'[m] = data[m]
  PROVE  HasQuorum(c, running)'
<1>1. c \in SUBSET Hosts
  BY DEF Clusters, TypeOK
<1>2. Members(c)' = Members(c)
  BY DEF Members
<1>3. Voters(c) \subseteq Voters(c)' /\ Voters(c)' \subseteq Members(c)
  BY <1>2 DEF Voters, Joined
<1>4. Cardinality(Voters(c)) <= Cardinality(Voters(c)') /\ Cardinality(Voters(c)') \in Nat
  BY <1>3, Finite, FS_Subset, FS_CardinalityType
<1>5. 2 * Cardinality(Voters(c)) > Cardinality(Members(c))
  BY DEF HasQuorum, Voters
<1>6. 2 * Cardinality(Voters(c)') > Cardinality(Members(c))
  BY <1>4, <1>5, Finite
<1> QED BY <1>2, <1>6 DEF HasQuorum, Voters

\* Adding one member to a cluster of two or more that are all up keeps it.
LEMMA QuorumWithOneMore ==
  ASSUME TypeOK, TypeOK', NEW c \in Clusters, HasQuorum(c, running),
         Cardinality(Members(c)) > 1, NEW h \in Hosts, AddMember(h)
  PROVE  HasQuorum(c, running)'
<1>1. c \in SUBSET Hosts
  BY DEF Clusters, TypeOK
<1>2. PICK d \in Reached : Healthy(d) /\ added' = added \cup {<<d, h>>}
  BY DEF AddMember, Admits
<1>3. running' = running /\ data' = data
  BY DEF AddMember
<1>4. CASE c # d
  <2>1. Members(c)' = Members(c)
    BY <1>2, <1>4 DEF Members
  <2>2. Joined(c)' = Joined(c)
    BY <2>1, <1>3 DEF Joined
  <2> QED BY <2>1, <2>2, <1>3 DEF HasQuorum
<1>5. CASE c = d
  <2>1. Members(c)' = Members(c) \cup {h}
    BY <1>2, <1>5 DEF Members
  <2>2. Voters(c) = Members(c)
    BY <1>2, <1>5 DEF Healthy, Voters, Joined
  <2>3. Voters(c) \subseteq Voters(c)' /\ Voters(c)' \subseteq Members(c) \cup {h}
    BY <2>1, <1>3 DEF Voters, Joined
  <2>4. /\ IsFiniteSet(Members(c) \cup {h})
        /\ Cardinality(Members(c) \cup {h}) <= Cardinality(Members(c)) + 1
        /\ Cardinality(Members(c) \cup {h}) \in Nat
    <3>1. IsFiniteSet(Members(c)) /\ Cardinality(Members(c)) \in Nat
      BY Finite
    <3>2. /\ IsFiniteSet(Members(c) \cup {h})
          /\ Cardinality(Members(c) \cup {h}) =
               IF h \in Members(c) THEN Cardinality(Members(c))
                                  ELSE Cardinality(Members(c)) + 1
      BY <3>1, FS_AddElement
    <3> QED BY <3>1, <3>2
  <2>5. /\ Cardinality(Voters(c)) <= Cardinality(Voters(c)')
        /\ Cardinality(Voters(c)') \in Nat
    BY <2>3, <2>4, FS_Subset, FS_CardinalityType
  <2>6. Cardinality(Voters(c)') >= Cardinality(Members(c))
    BY <2>2, <2>5
  <2>7. 2 * Cardinality(Voters(c)') > Cardinality(Members(c) \cup {h})
    BY <2>4, <2>5, <2>6, Finite
  <2> QED BY <2>1, <2>7 DEF HasQuorum, Voters
<1> QED BY <1>4, <1>5

\* The steps of the run that leave the processes and the member lists alone.
LEMMA QuietSteps ==
  ASSUME Run, step # "restart"
  PROVE  \/ added' = added /\ running' = running /\ data' = data
         \/ \E h \in Hosts : AddMember(h)
BY DEF Run, CheckHealth, Configure, EnsureRunning, AwaitHealth, CheckMember,
   ConfigureJoiner, ConfirmMember, AllJoined, RefreshAll, RestartNotified, AwaitUp,
   GiveUp, machines

LEMMA StepKeepsQuorum ==
  ASSUME TypeOK, TypeOK', [Next]_vars, NEW c \in Clusters, HasQuorum(c, running),
         Cardinality(Members(c)) > 1, step # "restart", ~(outages' > outages)
  PROVE  HasQuorum(c, running)'
<1>1. CASE added' = added /\ running' = running /\ data' = data
  BY <1>1, QuorumMonotone
<1>2. ASSUME NEW h \in Hosts, AddMember(h) PROVE HasQuorum(c, running)'
  BY <1>2, QuorumWithOneMore
<1>3. ASSUME NEW h \in Hosts, StartMember(h) PROVE HasQuorum(c, running)'
  <2>1. added' = added /\ running' = running \cup {h} /\ h \notin running
    BY <1>3 DEF StartMember
  <2>2. \A m \in running : data'[m] = data[m]
    BY <1>3, <2>1 DEF StartMember, TypeOK
  <2> QED BY <2>1, <2>2, QuorumMonotone
<1>4. ASSUME NEW h \in Hosts, MemberDies(h) PROVE FALSE
  BY <1>4 DEF MemberDies, TypeOK
<1>5. CASE StartRun \/ Fail \/ (\E new \in SUBSET Hosts : AddHosts(new)) \/ UNCHANGED vars
  BY <1>1, <1>5 DEF StartRun, Fail, AddHosts, vars, machines
<1> QED BY <1>1, <1>2, <1>3, <1>4, <1>5, QuietSteps DEF Next

\* The quorum of a cluster of two or more is lost only to the handler that
\* restarts every member and to a process that dies by itself.
THEOREM QuorumIsKept == Spec => QuorumKept
<1>1. TypeOK /\ TypeOK' /\ [Next]_vars =>
        [\A c \in Clusters :
           /\ HasQuorum(c, running) /\ Cardinality(Members(c)) > 1
           /\ ~HasQuorum(c, running)'
           => step = "restart" \/ outages' > outages]_vars
  BY StepKeepsQuorum
<1> QED BY <1>1, TypeCorrect, PTL DEF Spec, QuorumKept

-----------------------------------------------------------------------------
(* One cluster.  The hosts the first completed EnsureRunning starts, the   *)
(* core, bootstrap one cluster among themselves; whatever a later run      *)
(* writes, the others may only join it or bootstrap one that lists the     *)
(* core, whose hosts never come to it.                                     *)

\* The steps that follow AwaitHealth.
Joining == {"list", "join", "addconf", "addlist", "refresh", "assembled"}

\* Until the services are first started nothing has bootstrapped, every run
\* finds no cluster, and every configuration written says "new".
Before ==
  /\ added = {} /\ \A h \in Hosts : data[h] = NoData
  /\ step \in {"idle", "check", "config", "start"}
  /\ healthy = {}
  /\ \A h \in Hosts : env[h] = NoEnv \/ (h \in group /\ env[h].state = "new")
  /\ step = "start" => \A h \in group : env[h] = [state |-> "new", peers |-> group]

\* From then on: g is the core.
Core(g) ==
  /\ g \subseteq wanted /\ g \subseteq group
  /\ \E first \in FirstGroups : first \subseteq g
  /\ \A h \in g : \/ data[h] = g
                  \/ data[h] = NoData /\ env[h] = [state |-> "new", peers |-> g]
  /\ \A h \in Hosts \ g : data[h] = NoData \/ g \subseteq data[h]
  /\ \A h \in Hosts : env[h].state = "new" => g \subseteq env[h].peers
  /\ step \notin {"idle", "done", "health"} => \A h \in g : data[h] = g

CoreInv ==
  /\ \E first \in FirstGroups : first \subseteq group
  /\ step \in Joining => healthy = group
  /\ wanted = {} => Before
  /\ wanted # {} => \E g \in SUBSET Hosts : Core(g)

LEMMA InitCore == Init => CoreInv
BY GroupsAssumption DEF Init, CoreInv, Before, Joining, NoData, NoEnv

LEMMA CoreGiven ==
  ASSUME NEW g \in SUBSET Hosts, Core(g) PROVE g # {}
BY GroupsAssumption DEF Core

\* A cluster some process runs lists the core.
LEMMA ReachedListsCore ==
  ASSUME Typed, NEW g \in SUBSET Hosts, Core(g), NEW e \in running
  PROVE  g \subseteq data[e] /\ data[e] # NoData
<1>1. e \in Hosts /\ data[e] # NoData BY DEF Typed, TypeOK
<1> QED BY <1>1 DEF Core

\* The only cluster whose members are all up is the core's own.
LEMMA HealthyIsCore ==
  ASSUME Typed, NEW g \in SUBSET Hosts, Core(g), NEW c \in Reached, Healthy(c)
  PROVE  c = g /\ \A h \in g : data[h] = g
<1>1. PICK e \in group \cap running : c = data[e] BY DEF Reached
<1>2. g \subseteq c /\ c # NoData BY <1>1, ReachedListsCore
<1>3. \A m \in g : data[m] = c BY <1>2 DEF Healthy, Members, Joined
<1>4. \A m \in g : data[m] = g BY <1>2, <1>3 DEF Core
<1> QED BY <1>3, <1>4, CoreGiven

\* systemd's 15 s let every host of the core that can bootstrap do so.
LEMMA SettledCore ==
  ASSUME Typed, NEW g \in SUBSET Hosts, Core(g), Settled
  PROVE  \A h \in g : data[h] = g
<1> SUFFICES ASSUME NEW h \in g, data[h] # g PROVE FALSE OBVIOUS
<1>1. data[h] = NoData /\ env[h] = [state |-> "new", peers |-> g] /\ h \in wanted /\ h \in Hosts
  BY DEF Core
<1>2. h \notin running BY <1>1 DEF Typed, TypeOK
<1>3. JoinsBy(h) = {g} BY <1>1 DEF JoinsBy
<1> QED BY <1>1, <1>2, <1>3 DEF Settled, CanStart

\* A configuration that says "new" lists the core.
LEMMA RefreshListsCore ==
  ASSUME NEW g \in SUBSET Hosts, Core(g), NEW W \in SUBSET group, NEW peers,
         RefreshConfig(W, peers), W \subseteq healthy \/ g \subseteq peers
  PROVE  \A h \in Hosts : env'[h].state = "new" => g \subseteq env'[h].peers
<1> SUFFICES ASSUME NEW h \in Hosts, env'[h].state = "new" PROVE g \subseteq env'[h].peers
  OBVIOUS
<1>1. env'[h] = IF h \in W THEN [state |-> StateFor(h), peers |-> peers] ELSE env[h]
  BY DEF RefreshConfig
<1>2. CASE h \in W
  BY <1>1, <1>2 DEF StateFor
<1>3. CASE h \notin W
  BY <1>1, <1>3 DEF Core
<1> QED BY <1>2, <1>3

\* What a process of the core, or of another host, starts into.
LEMMA StartsIntoCore ==
  ASSUME Typed, NEW g \in SUBSET Hosts, Core(g), NEW h \in Hosts, NEW c \in JoinsBy(h)
  PROVE  /\ data[h] # NoData => c = data[h]
         /\ data[h] = NoData => g \subseteq c
         /\ data[h] = NoData /\ h \in g => c = g
<1>1. CASE data[h] # NoData BY <1>1 DEF JoinsBy
<1>2. CASE data[h] = NoData /\ env[h].state = "new"
  <2>1. c = env[h].peers BY <1>2 DEF JoinsBy
  <2> QED BY <1>2, <2>1, CoreGiven DEF Core, NoData
<1>3. CASE data[h] = NoData /\ env[h].state = "existing"
  <2>1. PICK e \in env[h].peers \cap running : c = data[e] BY <1>3 DEF JoinsBy
  <2>2. h \notin g BY <1>3, CoreGiven DEF Core, NoData
  <2> QED BY <1>3, <2>1, <2>2, ReachedListsCore
<1>4. CASE data[h] = NoData /\ env[h].state = "none"
  BY <1>4 DEF JoinsBy
<1> QED BY <1>1, <1>2, <1>3, <1>4 DEF Typed, TypeOK, Envs

LEMMA RunKeepsCore ==
  ASSUME Typed, CoreInv, wanted # {}, NEW g \in SUBSET Hosts, Core(g), Run
  PROVE  Core(g)' /\ (step' \in Joining => healthy' = group')
<1> DEFINE Settles == \A h \in g : data[h] = g
<1>0. step \in Joining => healthy = group BY DEF CoreInv
<1>1. CASE CheckHealth
  BY <1>1 DEF CheckHealth, Core, machines, Joining
<1>2. CASE Configure
  <2>1. \A h \in Hosts : env'[h].state = "new" => g \subseteq env'[h].peers
    BY <1>2, RefreshListsCore DEF Configure, Core
  <2>2. Settles BY <1>2 DEF Configure, Core
  <2> QED BY <1>2, <2>1, <2>2 DEF Configure, Core, Joining
<1>3. CASE EnsureRunning
  <2>1. Settles BY <1>3 DEF EnsureRunning, Core
  <2> QED BY <1>3, <2>1 DEF EnsureRunning, Core, Joining, facts
<1>4. CASE AwaitHealth
  <2>1. Settles BY <1>4, HealthyIsCore DEF AwaitHealth
  <2> QED BY <1>4, <2>1 DEF AwaitHealth, Core, machines, Joining
<1>5. CASE CheckMember
  BY <1>0, <1>5 DEF CheckMember, Core, machines, Joining
<1>6. ASSUME NEW h \in Hosts, AddMember(h)
      PROVE  Core(g)' /\ (step' \in Joining => healthy' = group')
  BY <1>0, <1>6 DEF AddMember, Core, Joining
<1>7. CASE ConfigureJoiner
  <2>1. joining \subseteq group /\ healthy = group
    BY <1>0, <1>7 DEF ConfigureJoiner, Joining, Typed, TypeOK
  <2>2. \A h \in Hosts : env'[h].state = "new" => g \subseteq env'[h].peers
    BY <1>7, <2>1, RefreshListsCore DEF ConfigureJoiner
  <2>3. Settles BY <1>7 DEF ConfigureJoiner, Core
  <2> QED BY <1>0, <1>7, <2>2, <2>3 DEF ConfigureJoiner, Core, Joining
<1>8. CASE ConfirmMember
  BY <1>0, <1>8 DEF ConfirmMember, Core, machines, Joining
<1>9. CASE AllJoined
  BY <1>0, <1>9 DEF AllJoined, Core, machines, facts, Joining
<1>10. CASE RefreshAll
  <2>1. \A h \in Hosts : env'[h].state = "new" => g \subseteq env'[h].peers
    BY <1>10, RefreshListsCore DEF RefreshAll, Core
  <2>2. Settles BY <1>10 DEF RefreshAll, Core
  <2> QED BY <1>0, <1>10, <2>1, <2>2 DEF RefreshAll, Core, Joining
<1>11. CASE RestartNotified
  BY <1>11 DEF RestartNotified, Core, facts, Joining
<1>12. CASE AwaitUp
  BY <1>12 DEF AwaitUp, Stop, Core, machines, Joining
<1>13. CASE GiveUp
  BY <1>13 DEF GiveUp, Stop, Core, machines, Joining
<1> QED BY <1>1, <1>2, <1>3, <1>4, <1>5, <1>6, <1>7, <1>8, <1>9, <1>10, <1>11, <1>12,
           <1>13 DEF Run

LEMMA NextKeepsCore ==
  ASSUME Typed, CoreInv, wanted # {}, NEW g \in SUBSET Hosts, Core(g), [Next]_vars
  PROVE  Core(g)' /\ (step' \in Joining => healthy' = group')
<1>0. step \in Joining => healthy = group BY DEF CoreInv
<1>1. CASE StartRun
  <2>1. \A h \in g : data[h] = g BY <1>1, SettledCore DEF StartRun
  <2> QED BY <1>1, <2>1 DEF StartRun, Stop, Core, machines, Joining
<1>2. CASE Run
  BY <1>2, RunKeepsCore
<1>3. CASE Fail
  BY <1>3 DEF Fail, Stop, Core, machines, Joining
<1>4. ASSUME NEW h \in Hosts, StartMember(h)
      PROVE  Core(g)' /\ (step' \in Joining => healthy' = group')
  <2>1. PICK c \in JoinsBy(h) : data' = [data EXCEPT ![h] = c]
    BY <1>4 DEF StartMember
  <2>2. /\ data[h] # NoData => c = data[h]
        /\ data[h] = NoData => g \subseteq c
        /\ data[h] = NoData /\ h \in g => c = g
    BY <2>1, StartsIntoCore
  <2>3. /\ data'[h] = c
        /\ \A m \in Hosts \ {h} : data'[m] = data[m]
    BY <2>1 DEF Typed, TypeOK
  <2>4. \A m \in g : data'[m] = g \/ (data'[m] = NoData /\ env[m] = [state |-> "new", peers |-> g])
    BY <2>2, <2>3 DEF Core
  <2>5. \A m \in Hosts \ g : data'[m] = NoData \/ g \subseteq data'[m]
    BY <2>2, <2>3 DEF Core
  <2>6. \A m \in g : data[m] = g => data'[m] = g
    BY <2>2, <2>3, CoreGiven DEF NoData
  <2> QED BY <1>0, <1>4, <2>4, <2>5, <2>6 DEF StartMember, Core, Joining, facts
<1>5. ASSUME NEW h \in Hosts, MemberDies(h)
      PROVE  Core(g)' /\ (step' \in Joining => healthy' = group')
  BY <1>0, <1>5 DEF MemberDies, Core, facts
<1>6. ASSUME NEW new \in SUBSET Hosts, AddHosts(new)
      PROVE  Core(g)' /\ (step' \in Joining => healthy' = group')
  BY <1>6 DEF AddHosts, Stop, Core, machines, Joining
<1>7. CASE UNCHANGED vars
  BY <1>0, <1>7 DEF vars, machines, facts, counters, Core
<1> QED BY <1>1, <1>2, <1>3, <1>4, <1>5, <1>6, <1>7 DEF Next

\* Before the services are first started, no step starts a process, and the
\* step that starts the services makes the group the core.
LEMMA BeforeStep ==
  ASSUME Typed, CoreInv, wanted = {}, [Next]_vars
  PROVE  CoreInv'
<1>0. /\ Before /\ running = {}
      /\ \E first \in FirstGroups : first \subseteq group
      /\ group \in (SUBSET Hosts) \ {{}}
  BY DEF CoreInv, Typed, TypeOK
<1>1. CASE StartRun \/ Fail
  BY <1>0, <1>1 DEF StartRun, Fail, Stop, machines, CoreInv, Before, Joining
<1>2. ASSUME NEW new \in SUBSET Hosts, AddHosts(new) PROVE CoreInv'
  BY <1>0, <1>2 DEF AddHosts, Stop, machines, CoreInv, Before, Joining
<1>3. CASE CheckHealth
  <2>1. Answers = {FALSE} BY <1>0 DEF Answers, Reached
  <2>2. healthy' = {} BY <1>3, <2>1 DEF CheckHealth
  <2> QED BY <1>0, <1>3, <2>2 DEF CheckHealth, machines, CoreInv, Before, Joining
<1>4. CASE Configure
  <2>1. /\ env' = [h \in Hosts |-> IF h \in group THEN [state |-> StateFor(h), peers |-> group]
                                                  ELSE env[h]]
        /\ \A h \in Hosts : StateFor(h) = "new"
    BY <1>0, <1>4 DEF Configure, RefreshConfig, StateFor, Before
  <2>2. /\ \A h \in group : env'[h] = [state |-> "new", peers |-> group]
        /\ \A h \in Hosts \ group : env'[h] = env[h]
    BY <1>0, <2>1
  <2>3. \A h \in Hosts : env'[h] = NoEnv \/ (h \in group /\ env'[h].state = "new")
    BY <1>0, <2>2 DEF Before
  <2> QED BY <1>0, <1>4, <2>2, <2>3 DEF Configure, CoreInv, Before, Joining
<1>5. CASE EnsureRunning
  <2>1. /\ wanted' = group /\ step' = "health" /\ group' = group /\ env' = env /\ data' = data
    BY <1>5 DEF EnsureRunning
  <2>2. \A h \in Hosts : env[h].state = "new" => h \in group
    BY <1>0 DEF Before, NoEnv
  <2>3. \A h \in group : env[h] = [state |-> "new", peers |-> group] /\ data[h] = NoData
    BY <1>0, <1>5 DEF Before, EnsureRunning
  <2>4. Core(group)'
    BY <1>0, <2>1, <2>2, <2>3 DEF Core, Before
  <2> QED BY <1>0, <2>1, <2>4 DEF CoreInv, Joining
<1>6. CASE Run /\ step \notin {"check", "config", "start"}
  BY <1>0, <1>6 DEF Before, Run, CheckHealth, Configure, EnsureRunning, AwaitHealth,
     CheckMember, AddMember, ConfigureJoiner, ConfirmMember, AllJoined, RefreshAll,
     RestartNotified, AwaitUp, GiveUp
<1>7. Run => CheckHealth \/ Configure \/ EnsureRunning
             \/ (Run /\ step \notin {"check", "config", "start"})
  BY DEF Run, AwaitHealth, CheckMember, AddMember, ConfigureJoiner, ConfirmMember, AllJoined,
     RefreshAll, RestartNotified, AwaitUp, GiveUp
<1>8. ASSUME NEW h \in Hosts, StartMember(h) \/ MemberDies(h) PROVE FALSE
  BY <1>0, <1>8 DEF StartMember, MemberDies
<1>9. CASE UNCHANGED vars
  BY <1>0, <1>9 DEF vars, machines, facts, counters, CoreInv, Before
<1> QED BY <1>1, <1>2, <1>3, <1>4, <1>5, <1>6, <1>7, <1>8, <1>9 DEF Next

LEMMA NextCore == Typed /\ CoreInv /\ [Next]_vars => CoreInv'
<1> SUFFICES ASSUME Typed, CoreInv, [Next]_vars PROVE CoreInv'
  OBVIOUS
<1>1. CASE wanted = {}
  BY <1>1, BeforeStep
<1>2. CASE wanted # {}
  <2>1. PICK g \in SUBSET Hosts : Core(g) BY <1>2 DEF CoreInv
  <2>2. Core(g)' /\ (step' \in Joining => healthy' = group')
    BY <1>2, <2>1, NextKeepsCore
  <2>3. wanted' # {} /\ \E first \in FirstGroups : first \subseteq group'
    BY <2>2, CoreGiven, GroupsAssumption DEF Core
  <2> QED BY <2>2, <2>3 DEF CoreInv
<1> QED BY <1>1, <1>2

LEMMA AlwaysCore == Spec => [](Typed /\ CoreInv)
<1>1. Init => Typed /\ CoreInv BY InitTyped, InitCore
<1>2. Typed /\ CoreInv /\ [Next]_vars => (Typed /\ CoreInv)' BY NextTyped, NextCore
<1> QED BY <1>1, <1>2, PTL DEF Spec

\* A cluster other than the core's that has a majority of its hosts lists
\* more than twice as many hosts as the core has.
LEMMA SecondIsLarger ==
  ASSUME Typed, NEW g \in SUBSET Hosts, Core(g), NEW c \in Clusters, Founded(c), c # g
  PROVE  /\ g \subseteq c /\ c \subseteq Hosts
         /\ Cardinality(c) > 2 * Cardinality(g)
<1> DEFINE holders == {m \in c : data[m] = c}
<1>1. PICK e \in Hosts : c = data[e] /\ c # NoData BY DEF Clusters
<1>2. c \subseteq Hosts BY <1>1 DEF Typed, TypeOK
<1>3. g \subseteq c BY <1>1 DEF Core
<1>4. holders \subseteq c \ g BY <1>1, <1>2 DEF Core
<1>5. /\ IsFiniteSet(c) /\ IsFiniteSet(g) /\ IsFiniteSet(c \ g) /\ IsFiniteSet(holders)
  BY <1>2, <1>4, HostsAssumption, FS_Subset
<1>6. /\ Cardinality(c) \in Nat /\ Cardinality(g) \in Nat
      /\ Cardinality(c \ g) \in Nat /\ Cardinality(holders) \in Nat
  BY <1>5, FS_CardinalityType
<1>7. Cardinality(holders) <= Cardinality(c \ g) BY <1>4, <1>5, FS_Subset
<1>8. Cardinality(c \ g) = Cardinality(c) - Cardinality(g)
  <2>1. c \cap g = g BY <1>3
  <2>2. Cardinality(c \ g) = Cardinality(c) - Cardinality(c \cap g)
    BY <1>5, FS_Difference
  <2> QED BY <2>1, <2>2
<1>9. 2 * Cardinality(holders) > Cardinality(c) BY DEF Founded
<1> HIDE DEF holders
<1> QED BY <1>2, <1>3, <1>6, <1>7, <1>8, <1>9

\* No group more than doubles the first one.
AtMostDoubles == \A first \in FirstGroups : Cardinality(Hosts) <= 2 * Cardinality(first)

\* No rerun founds a second cluster beside the first, whatever runs fail,
\* processes die and hosts are added at whatever moment, as long as the group
\* does not come to more than twice what it was.
THEOREM OneClusterHolds ==
  ASSUME AtMostDoubles PROVE Spec => []OneCluster
<1>1. Typed /\ CoreInv => OneCluster
  <2> SUFFICES ASSUME Typed, CoreInv, NEW c \in Clusters, NEW d \in Clusters,
                      Founded(c), Founded(d)
               PROVE  c = d
    BY DEF OneCluster
  <2>1. wanted # {} BY DEF CoreInv, Before, Clusters
  <2>2. PICK g \in SUBSET Hosts : Core(g) BY <2>1 DEF CoreInv
  <2>3. PICK first \in FirstGroups : first \subseteq g BY <2>2 DEF Core
  <2>4. Cardinality(first) <= Cardinality(g) /\ Cardinality(g) \in Nat
        /\ Cardinality(first) \in Nat /\ Cardinality(Hosts) \in Nat
    BY <2>3, HostsAssumption, FS_Subset, FS_CardinalityType
  <2>5. ASSUME NEW k \in Clusters, Founded(k), k # g PROVE FALSE
    <3>1. k \subseteq Hosts /\ Cardinality(k) > 2 * Cardinality(g)
      BY <2>2, <2>5, SecondIsLarger
    <3>2. Cardinality(k) <= Cardinality(Hosts) /\ Cardinality(k) \in Nat
      BY <3>1, HostsAssumption, FS_Subset, FS_CardinalityType
    <3> QED BY <2>3, <2>4, <3>1, <3>2 DEF AtMostDoubles
  <2> QED BY <2>5
<1> QED BY <1>1, AlwaysCore, PTL

-----------------------------------------------------------------------------
(* A careful operator.  Hosts are added one at a time, each after a run    *)
(* that completed and the start of the one before, none with an address    *)
(* that is a part of another's, and while one has not joined no member is  *)
(* down and no query fails: then the newcomer never bootstraps, and every  *)
(* run, completed or not, leaves it a step nearer to the cluster.          *)

Existing == [state |-> "existing", peers |-> group]

\* Nothing is known of a host outside the group, and there is one cluster.
OnlyCore(g) ==
  /\ added \subseteq {g} \X group
  /\ \A h \in Hosts : data[h] \in {NoData, g}
  /\ \A h \in Hosts \ group : data[h] = NoData /\ env[h] = NoEnv /\ h \notin wanted
  /\ \A h \in group \ Newcomers : h \in Members(g) /\ h \in wanted

\* While the core bootstraps there is no other newcomer; afterwards at most one.
FewNewcomers(g) ==
  /\ Newcomers \cap g # {} => group = g /\ step \in {"idle", "health"}
  /\ \A m, n \in Newcomers \ g : m = n

\* How far a newcomer outside the core has come.
Newcomer(g, n) ==
  /\ env[n] \in {NoEnv, Existing}
  /\ n \in Members(g) \/ step \in {"start", "health"} \cup Joining => env[n] = Existing
  /\ n \in Members(g) \/ step \in {"health"} \cup Joining => n \in wanted
  /\ step \in {"check", "config"} => n \notin Members(g)
  /\ step = "check" => group \ Newcomers \subseteq running
  /\ step = "config" => n \in healthy
  /\ \A m \in group \ {n} : <<n, m>> \notin Alike

\* What the run knows of the member list, and what its end leaves.
RunKnows(g) ==
  /\ step = "join" =>
       \/ inCluster = Members(g)
       \/ Newcomers = {} /\ inCluster \subseteq group
  /\ step \in {"addconf", "addlist"} => inCluster \cup joining = group
  /\ step \in {"addconf", "addlist", "refresh", "assembled", "restart", "wait", "done"}
       => Members(g) = group
  /\ step \in {"assembled", "restart", "wait", "done"} => \A h \in group : env[h] = Existing

Careful(g) ==
  /\ OnlyCore(g) /\ FewNewcomers(g) /\ RunKnows(g)
  /\ \A n \in Newcomers \ g : Newcomer(g, n)

CarefulInv ==
  wanted # {} /\ ~disturbed => \E g \in SUBSET Hosts : Core(g) /\ Careful(g)

LEMMA CarefulFacts ==
  ASSUME Typed, NEW g \in SUBSET Hosts, Core(g), Careful(g)
  PROVE  /\ g \subseteq Members(g) /\ Members(g) \subseteq group
         /\ Reached \subseteq {g}
         /\ \A h \in Hosts : data[h] # NoData => data[h] = g
         /\ \A h \in group \ Newcomers : data[h] = g
<1>1. \A h \in Hosts : data[h] # NoData => data[h] = g
  BY DEF Careful, OnlyCore
<1>2. g \subseteq Members(g) /\ Members(g) \subseteq group
  BY DEF Members, Core, Careful, OnlyCore
<1>3. Reached \subseteq {g}
  BY <1>1 DEF Reached, Typed, TypeOK
<1> QED BY <1>1, <1>2, <1>3 DEF Newcomers, Typed, TypeOK

\* systemd's 15 s let a listed newcomer join, and every member that is down
\* start again.
LEMMA SettledCareful ==
  ASSUME Typed, NEW g \in SUBSET Hosts, Core(g), Careful(g), Settled
  PROVE  /\ \A h \in g : data[h] = g
         /\ group \ Newcomers \subseteq running
         /\ \A n \in Newcomers : n \notin Members(g)
<1>1. \A h \in g : data[h] = g BY SettledCore
<1>2. ASSUME NEW h \in group \ Newcomers PROVE h \in running
  <2>1. data[h] # NoData /\ h \in Hosts BY DEF Newcomers, Typed, TypeOK
  <2>2. h \in wanted BY DEF Careful, OnlyCore
  <2>3. JoinsBy(h) # {} BY <2>1 DEF JoinsBy
  <2> QED BY <2>1, <2>2, <2>3 DEF Settled, CanStart
<1>3. ASSUME NEW n \in Newcomers, n \in Members(g) PROVE FALSE
  <2>1. n \in Hosts /\ n \in group /\ data[n] = NoData /\ n \notin running
    BY DEF Newcomers, Typed, TypeOK
  <2>2. n \notin g BY <1>1, <2>1, CoreGiven DEF NoData
  <2>3. Newcomer(g, n) BY <2>2 DEF Careful
  <2>4. env[n] = Existing /\ n \in wanted BY <1>3, <2>3 DEF Newcomer
  <2>5. Members(g) = group
    BY <1>3, <2>2, CarefulFacts DEF Careful, FewNewcomers, OnlyCore
  <2>6. PICK e \in g : TRUE BY CoreGiven
  <2>7. e \in group /\ e \in running /\ data[e] = g
    BY <1>1, <1>2, CoreGiven DEF Newcomers, Core, NoData
  <2>8. g \in JoinsBy(n) BY <2>1, <2>4, <2>5, <2>7 DEF JoinsBy, Existing
  <2> QED BY <2>1, <2>4, <2>8 DEF Settled, CanStart
<1> QED BY <1>1, <1>2, <1>3

\* A health check made while a newcomer waits finds every member up.
LEMMA CheckedCareful ==
  ASSUME Typed, NEW g \in SUBSET Hosts, Core(g), Careful(g),
         NEW n \in Newcomers \ g, CheckHealth, ~disturbed'
  PROVE  n \in healthy'
<1>1. Newcomer(g, n) /\ step = "check" BY DEF Careful, CheckHealth
<1>2. n \notin Members(g) /\ group \ Newcomers \subseteq running
  BY <1>1 DEF Newcomer
<1>3. Newcomers \cap g = {} BY <1>1 DEF Careful, FewNewcomers
<1>4. \A m \in Members(g) : m \in group \ Newcomers
  BY <1>2, <1>3, CarefulFacts DEF Careful, FewNewcomers
<1>5. Healthy(g) BY <1>2, <1>4, CarefulFacts DEF Healthy, Joined
<1>6. Reached = {g}
  <2>1. PICK e \in g : TRUE BY CoreGiven
  <2>2. e \in group \cap running /\ data[e] = g
    BY <1>2, <1>3, CarefulFacts DEF Core
  <2> QED BY <2>2, CarefulFacts DEF Reached
<1>7. Answers = {TRUE} BY <1>5, <1>6 DEF Answers
<1>8. PICK answer \in [group -> Answers], errs \in SUBSET group :
        /\ healthy' = {h \in group \ errs : answer[h]}
        /\ disturbed' = (disturbed \/ errs \cap Newcomers # {})
  BY DEF CheckHealth
<1>9. n \in group /\ n \notin errs BY <1>8 DEF Newcomers
<1>10. answer[n] = TRUE BY <1>7, <1>9
<1> QED BY <1>8, <1>9, <1>10

\* Nobody but a member finds itself in the list, while nothing has disturbed.
LEMMA ListedCareful ==
  ASSUME Typed, NEW g \in SUBSET Hosts, Core(g), Careful(g), step = "list",
         NEW h \in group, Listed(h, g)
  PROVE  h \in Members(g)
<1>1. CASE h \notin Newcomers
  BY <1>1 DEF Careful, OnlyCore
<1>2. CASE h \in Newcomers
  <2>1. h \notin g BY <1>2 DEF Careful, FewNewcomers
  <2>2. Newcomer(g, h) BY <1>2, <2>1 DEF Careful
  <2>3. Members(g) \subseteq group BY CarefulFacts
  <2>4. \A m \in Members(g) \ {h} : <<h, m>> \notin Alike BY <2>2, <2>3 DEF Newcomer
  <2> QED BY <2>4 DEF Listed
<1> QED BY <1>1, <1>2

LEMMA RunKeepsCareful ==
  ASSUME Typed, CoreInv, NEW g \in SUBSET Hosts, Core(g), Careful(g), Run, ~disturbed'
  PROVE  Careful(g)'
<1> USE DEF Careful, OnlyCore, FewNewcomers, RunKnows
<1>0. step \in Joining => healthy = group BY DEF CoreInv
<1>1. CASE CheckHealth
  <2>1. UNCHANGED <<group, machines>> /\ step = "check" /\ step' = "config"
    BY <1>1 DEF CheckHealth
  <2>2. \A n \in Newcomers \ g : n \in healthy' BY <1>1, CheckedCareful
  <2>3. Members(g)' = Members(g) /\ Newcomers' = Newcomers /\ Existing' = Existing
    BY <2>1 DEF Members, Newcomers, Existing, machines
  <2>4. \A n \in Newcomers \ g : Newcomer(g, n)'
    BY <2>1, <2>2, <2>3 DEF Newcomer, machines, Joining
  <2> QED BY <2>1, <2>3, <2>4 DEF machines
<1>2. CASE Configure
  <2>1. /\ UNCHANGED <<group, wanted, running, data, added>>
        /\ step = "config" /\ step' = "start"
    BY <1>2 DEF Configure
  <2>2. Members(g)' = Members(g) /\ Newcomers' = Newcomers /\ Existing' = Existing
    BY <2>1 DEF Members, Newcomers, Existing
  <2>3. \A h \in Hosts \ group : env'[h] = env[h]
    BY <1>2 DEF Configure, RefreshConfig
  <2>4. ASSUME NEW n \in Newcomers \ g PROVE Newcomer(g, n)'
    <3>1. n \in healthy /\ n \notin Members(g) BY <2>1 DEF Newcomer
    <3>2. n \in group /\ n \in Hosts BY DEF Newcomers, Typed, TypeOK
    <3>3. env'[n] = Existing
      BY <1>2, <3>1, <3>2 DEF Configure, RefreshConfig, StateFor, Existing
    <3> QED BY <2>1, <2>2, <3>1, <3>3 DEF Newcomer, Joining
  <2> QED BY <2>1, <2>2, <2>3, <2>4
<1>3. CASE EnsureRunning
  <2>1. /\ UNCHANGED <<group, env, running, data, added>> /\ wanted' = wanted \cup group
        /\ step = "start" /\ step' = "health"
    BY <1>3 DEF EnsureRunning
  <2>2. Members(g)' = Members(g) /\ Newcomers' = Newcomers /\ Existing' = Existing
    BY <2>1 DEF Members, Newcomers, Existing
  <2>3. \A n \in Newcomers \ g : Newcomer(g, n)'
    BY <2>1, <2>2 DEF Newcomer, Joining, Newcomers
  <2> QED BY <2>1, <2>2, <2>3
<1>4. CASE AwaitHealth
  <2>1. UNCHANGED <<group, machines>> /\ step = "health" /\ step' = "list"
    BY <1>4 DEF AwaitHealth
  <2>2. Members(g)' = Members(g) /\ Newcomers' = Newcomers /\ Existing' = Existing
    BY <2>1 DEF Members, Newcomers, Existing, machines
  <2>3. Newcomers \cap g = {}
    BY <1>4, HealthyIsCore, CoreGiven DEF AwaitHealth, Newcomers, NoData
  <2>4. \A n \in Newcomers \ g : Newcomer(g, n)'
    BY <2>1, <2>2 DEF Newcomer, machines, Joining
  <2> QED BY <2>1, <2>2, <2>3, <2>4 DEF machines
<1>5. CASE CheckMember
  <2>1. UNCHANGED <<group, machines>> /\ step = "list" /\ step' = "join"
    BY <1>5 DEF CheckMember
  <2>2. Members(g)' = Members(g) /\ Newcomers' = Newcomers /\ Existing' = Existing
    BY <2>1 DEF Members, Newcomers, Existing, machines
  <2>3. inCluster' = Members(g) \/ (Newcomers = {} /\ inCluster' \subseteq group)
    <3>1. PICK c \in Reached, errs \in SUBSET group :
            /\ inCluster' = {h \in group \ errs : Listed(h, c)}
            /\ disturbed' = (disturbed \/ (errs # {} /\ Newcomers # {}))
      BY <1>5 DEF CheckMember
    <3>2. c = g BY <3>1, CarefulFacts
    <3>3. CASE Newcomers = {} BY <3>1, <3>3
    <3>4. CASE Newcomers # {}
      <4>1. inCluster' = {h \in group : Listed(h, g)} BY <3>1, <3>2, <3>4
      <4>2. \A h \in group : Listed(h, g) <=> h \in Members(g)
        BY <2>1, ListedCareful DEF Listed
      <4> QED BY <4>1, <4>2, CarefulFacts
    <3> QED BY <3>3, <3>4
  <2>4. \A n \in Newcomers \ g : Newcomer(g, n)'
    BY <2>1, <2>2 DEF Newcomer, machines, Joining
  <2> QED BY <2>1, <2>2, <2>3, <2>4 DEF machines
<1>6. ASSUME NEW h \in Hosts, AddMember(h) PROVE Careful(g)'
  <2>1. /\ UNCHANGED <<group, env, wanted, running, data, inCluster>>
        /\ step = "join" /\ step' = "addconf" /\ joining' = {h} /\ h \in group \ inCluster
    BY <1>6 DEF AddMember
  <2>2. added' = added \cup {<<g, h>>} /\ h \notin Members(g)
    BY <1>6, CarefulFacts DEF AddMember, Admits
  <2>3. Newcomers' = Newcomers /\ Existing' = Existing BY <2>1 DEF Newcomers, Existing
  <2>4. Members(g)' = Members(g) \cup {h} BY <2>2 DEF Members
  <2>5. inCluster = Members(g) /\ h \in Newcomers /\ Newcomers \cap g = {} BY <2>1, <2>2
  <2>6. Members(g)' = group
    BY <2>1, <2>4, <2>5, CarefulFacts DEF Newcomers
  <2>7. \A n \in Newcomers \ g : Newcomer(g, n)'
    BY <2>1, <2>3 DEF Newcomer, Joining
  <2>8. added' \subseteq {g} \X group BY <2>1, <2>2
  <2>9. inCluster' \cup joining' = group BY <2>1, <2>4, <2>5, <2>6
  <2>10. OnlyCore(g)' BY <2>1, <2>3, <2>6, <2>8
  <2>11. FewNewcomers(g)' BY <2>1, <2>3, <2>5
  <2> QED BY <2>1, <2>6, <2>7, <2>9, <2>3, <2>10, <2>11
<1>7. CASE ConfigureJoiner
  <2>1. /\ UNCHANGED <<group, wanted, running, data, added, inCluster, joining>>
        /\ step = "addconf" /\ step' = "addlist" /\ joining \subseteq group
    BY <1>7 DEF ConfigureJoiner, Typed, TypeOK
  <2>2. Members(g)' = Members(g) /\ Newcomers' = Newcomers /\ Existing' = Existing
    BY <2>1 DEF Members, Newcomers, Existing
  <2>3. RefreshConfig(joining, group) /\ healthy = group
    BY <1>0, <1>7, <2>1 DEF ConfigureJoiner, Joining
  <2>4. \A h \in Hosts : env'[h] = IF h \in joining THEN Existing ELSE env[h]
    BY <2>1, <2>3 DEF RefreshConfig, StateFor, Existing
  <2>5. \A n \in Newcomers \ g : Newcomer(g, n)'
    BY <2>1, <2>2, <2>4 DEF Newcomer, Joining, Newcomers, Typed, TypeOK
  <2> QED BY <2>1, <2>2, <2>4, <2>5
<1>8. CASE ConfirmMember
  <2>1. /\ UNCHANGED <<group, machines>> /\ step = "addlist" /\ step' = "join"
        /\ inCluster' = inCluster \cup joining
    BY <1>8 DEF ConfirmMember
  <2>2. Members(g)' = Members(g) /\ Newcomers' = Newcomers /\ Existing' = Existing
    BY <2>1 DEF Members, Newcomers, Existing, machines
  <2>3. \A n \in Newcomers \ g : Newcomer(g, n)'
    BY <2>1, <2>2 DEF Newcomer, machines, Joining
  <2> QED BY <2>1, <2>2, <2>3 DEF machines
<1>9. CASE AllJoined
  <2>1. /\ UNCHANGED <<group, machines>> /\ step = "join" /\ step' = "refresh"
        /\ group = inCluster
    BY <1>9 DEF AllJoined
  <2>2. Members(g)' = Members(g) /\ Newcomers' = Newcomers /\ Existing' = Existing
    BY <2>1 DEF Members, Newcomers, Existing, machines
  <2>3. \A n \in Newcomers \ g : Newcomer(g, n)'
    BY <2>1, <2>2 DEF Newcomer, machines, Joining
  <2>4. Members(g) = group
    <3>1. CASE inCluster = Members(g) BY <2>1, <3>1
    <3>2. CASE Newcomers = {}
      <4>1. \A h \in group : h \in Members(g) BY <3>2
      <4>2. Members(g) \subseteq group BY CarefulFacts
      <4> QED BY <4>1, <4>2
    <3> QED BY <2>1, <3>1, <3>2
  <2> QED BY <2>1, <2>2, <2>3, <2>4 DEF machines
<1>10. CASE RefreshAll
  <2>1. /\ UNCHANGED <<group, wanted, running, data, added>>
        /\ step \in {"refresh", "assembled"} /\ step' \in {"assembled", "restart"}
    BY <1>10 DEF RefreshAll
  <2>2. Members(g)' = Members(g) /\ Newcomers' = Newcomers /\ Existing' = Existing
    BY <2>1 DEF Members, Newcomers, Existing
  <2>3. RefreshConfig(group, group) /\ healthy = group
    BY <1>0, <1>10 DEF RefreshAll, Joining
  <2>4. \A h \in Hosts : env'[h] = IF h \in group THEN Existing ELSE env[h]
    BY <2>3 DEF RefreshConfig, StateFor, Existing
  <2>5. \A n \in Newcomers \ g : Newcomer(g, n)'
    BY <2>1, <2>2, <2>4 DEF Newcomer, Joining, Newcomers, Typed, TypeOK
  <2>6. \A h \in group : env'[h] = Existing BY <2>4 DEF Typed, TypeOK
  <2> QED BY <2>1, <2>2, <2>4, <2>5, <2>6
<1>11. CASE RestartNotified
  <2>1. /\ UNCHANGED <<group, env, wanted, data, added>> /\ step = "restart" /\ step' = "wait"
    BY <1>11 DEF RestartNotified
  <2>2. Members(g)' = Members(g) /\ Newcomers' = Newcomers /\ Existing' = Existing
    BY <2>1 DEF Members, Newcomers, Existing
  <2>3. \A n \in Newcomers \ g : Newcomer(g, n)'
    BY <2>1, <2>2 DEF Newcomer, Joining
  <2> QED BY <2>1, <2>2, <2>3
<1>12. CASE AwaitUp \/ GiveUp
  <2>1. /\ UNCHANGED <<group, machines>> /\ step' \in {"idle", "done"}
        /\ step' = "done" => step = "wait"
        /\ step \in {"health", "list", "join", "addlist", "wait"}
    BY <1>12 DEF AwaitUp, GiveUp, Stop
  <2>2. Members(g)' = Members(g) /\ Newcomers' = Newcomers /\ Existing' = Existing
    BY <2>1 DEF Members, Newcomers, Existing, machines
  <2>3. \A n \in Newcomers \ g : Newcomer(g, n)'
    BY <2>1, <2>2 DEF Newcomer, machines, Joining
  <2>4. Newcomers \cap g # {} => group = g /\ step' = "idle" BY <2>1
  <2> QED BY <2>1, <2>2, <2>3, <2>4 DEF machines
<1> QED BY <1>1, <1>2, <1>3, <1>4, <1>5, <1>6, <1>7, <1>8, <1>9, <1>10, <1>11, <1>12
        DEF Run

LEMMA StartKeepsCareful ==
  ASSUME Typed, NEW g \in SUBSET Hosts, Core(g), Careful(g), NEW h \in Hosts, StartMember(h)
  PROVE  Careful(g)'
<1>1. PICK c \in JoinsBy(h) : data' = [data EXCEPT ![h] = c] BY DEF StartMember
<1>2. /\ UNCHANGED <<group, env, wanted, added, step, healthy, inCluster, joining>>
      /\ running' = running \cup {h} /\ h \in wanted
  BY DEF StartMember, facts
<1>3. data'[h] = c /\ \A m \in Hosts \ {h} : data'[m] = data[m]
  BY <1>1 DEF Typed, TypeOK
<1>4. /\ data[h] # NoData => c = data[h]
      /\ data[h] = NoData /\ h \in g => c = g
  BY <1>1, StartsIntoCore
<1>5. h \in group BY <1>2 DEF Careful, OnlyCore
<1>6. ASSUME data[h] = NoData, h \notin g PROVE c = g /\ Members(g) = group
  <2>1. Newcomer(g, h) BY <1>5, <1>6 DEF Careful, Newcomers
  <2>2. env[h] = Existing BY <1>1, <1>6, <2>1 DEF Newcomer, JoinsBy, NoEnv
  <2>3. PICK e \in group \cap running : c = data[e] /\ Members(c) = group
    BY <1>1, <1>6, <2>2 DEF JoinsBy, Existing
  <2> QED BY <2>3, CarefulFacts DEF Typed, TypeOK
<1>7. c = g /\ g # NoData
  BY <1>4, <1>6, CarefulFacts, CoreGiven DEF NoData
<1>8. Newcomers' = Newcomers \ {h}
  BY <1>2, <1>3, <1>7 DEF Newcomers, Typed, TypeOK
<1>9. Members(g)' = Members(g) /\ Existing' = Existing
  BY <1>2 DEF Members, Existing
<1>10. h \in Members(g)
  BY <1>5, <1>6, CarefulFacts DEF Newcomers, Careful, OnlyCore
<1>11. OnlyCore(g)'
  BY <1>2, <1>3, <1>5, <1>7, <1>8, <1>9, <1>10 DEF Careful, OnlyCore
<1>12. FewNewcomers(g)' /\ RunKnows(g)'
  BY <1>2, <1>8, <1>9 DEF Careful, FewNewcomers, RunKnows
<1>13. ASSUME NEW n \in Newcomers' \ g PROVE Newcomer(g, n)'
  <2>1. Newcomer(g, n) BY <1>8, <1>13 DEF Careful
  <2>2. step = "check" => group \ Newcomers' \subseteq running' BY <1>2, <1>8, <2>1 DEF Newcomer
  <2> QED BY <1>2, <1>9, <2>1, <2>2 DEF Newcomer
<1> QED BY <1>11, <1>12, <1>13 DEF Careful

\* Adding one host when no newcomer is left.
LEMMA AddKeepsCareful ==
  ASSUME Typed, NEW g \in SUBSET Hosts, Core(g), Careful(g),
         NEW new \in SUBSET Hosts, AddHosts(new), ~disturbed'
  PROVE  Careful(g)'
<1>1. /\ step = "done" /\ Newcomers = {} /\ ~(Cardinality(new) > 1)
      /\ group' = group \cup new /\ new # {} /\ new \cap group = {} /\ step' = "idle"
      /\ UNCHANGED machines
  BY DEF AddHosts, Stop
<1>2. PICK n \in new : TRUE BY <1>1
<1>3. new = {n}
  <2>1. IsFiniteSet(new) /\ Cardinality(new) \in Nat
    BY HostsAssumption, FS_Subset, FS_CardinalityType
  <2>2. IsFiniteSet(new \ {n}) /\ Cardinality(new \ {n}) = Cardinality(new) - 1
    BY <1>2, <2>1, FS_RemoveElement
  <2>3. Cardinality(new \ {n}) \in Nat BY <2>2, FS_CardinalityType
  <2>4. Cardinality(new \ {n}) = 0 BY <1>1, <2>1, <2>2, <2>3
  <2>5. new \ {n} = {} BY <2>2, <2>4, FS_EmptySet
  <2> QED BY <1>2, <2>5
<1>4. /\ n \notin group /\ n \in Hosts /\ n \notin Members(g)
      /\ data[n] = NoData /\ env[n] = NoEnv /\ n \notin wanted
  BY <1>1, <1>3, CarefulFacts DEF Careful, OnlyCore
<1>5. Newcomers' = {n} BY <1>1, <1>3, <1>4 DEF Newcomers, machines
<1>6. Members(g)' = Members(g) BY <1>1 DEF Members, machines
<1>7. OnlyCore(g)'
  BY <1>1, <1>3, <1>4, <1>5, <1>6, CarefulFacts DEF Careful, OnlyCore, machines
<1>8. FewNewcomers(g)' /\ RunKnows(g)'
  BY <1>1, <1>4, <1>5 DEF FewNewcomers, RunKnows, Core
<1>9. Newcomer(g, n)'
  <2>1. \A m \in group' \ {n} : <<n, m>> \notin Alike
    BY <1>1, <1>2, <1>3 DEF AddHosts
  <2> QED BY <1>1, <1>4, <1>6, <2>1 DEF Newcomer, Joining, machines
<1> QED BY <1>5, <1>7, <1>8, <1>9 DEF Careful

LEMMA NextKeepsCareful ==
  ASSUME Typed, CoreInv, NEW g \in SUBSET Hosts, Core(g), Careful(g),
         [Next]_vars, ~disturbed'
  PROVE  Careful(g)'
<1>1. ASSUME UNCHANGED <<group, machines>>, step' \in {"idle", "check"},
             step' = "check" => Settled
      PROVE  Careful(g)'
  <2>1. Members(g)' = Members(g) /\ Newcomers' = Newcomers /\ Existing' = Existing
    BY <1>1 DEF Members, Newcomers, Existing, machines
  <2>2. OnlyCore(g)' /\ RunKnows(g)'
    BY <1>1, <2>1 DEF Careful, OnlyCore, RunKnows, machines
  <2>3. FewNewcomers(g)'
    BY <1>1, <2>1, SettledCareful, CoreGiven DEF Careful, FewNewcomers, Newcomers, NoData
  <2>4. ASSUME NEW n \in Newcomers \ g PROVE Newcomer(g, n)'
    <3>1. Newcomer(g, n) BY DEF Careful
    <3>2. step' = "check" => n \notin Members(g) /\ group \ Newcomers \subseteq running
      BY <1>1, SettledCareful
    <3> QED BY <1>1, <2>1, <3>1, <3>2 DEF Newcomer, Joining, machines
  <2> QED BY <2>1, <2>2, <2>3, <2>4 DEF Careful
<1>2. CASE StartRun
  BY <1>1, <1>2 DEF StartRun, Stop
<1>3. CASE Fail
  BY <1>1, <1>3 DEF Fail, Stop
<1>4. CASE Run
  BY <1>4, RunKeepsCareful
<1>5. ASSUME NEW h \in Hosts, StartMember(h) PROVE Careful(g)'
  BY <1>5, StartKeepsCareful
<1>6. ASSUME NEW h \in Hosts, MemberDies(h) PROVE Careful(g)'
  <2>1. /\ Newcomers = {}
        /\ UNCHANGED <<group, env, wanted, data, added, step, healthy, inCluster, joining>>
    BY <1>6 DEF MemberDies, facts
  <2>2. Members(g)' = Members(g) /\ Newcomers' = Newcomers /\ Existing' = Existing
    BY <2>1 DEF Members, Newcomers, Existing
  <2> QED BY <2>1, <2>2 DEF Careful, OnlyCore, FewNewcomers, RunKnows
<1>7. ASSUME NEW new \in SUBSET Hosts, AddHosts(new) PROVE Careful(g)'
  BY <1>7, AddKeepsCareful
<1>8. CASE UNCHANGED vars
  <2>1. Members(g)' = Members(g) /\ Newcomers' = Newcomers /\ Existing' = Existing
    BY <1>8 DEF Members, Newcomers, Existing, vars, machines
  <2> QED BY <1>8, <2>1 DEF vars, machines, facts, Careful, OnlyCore, FewNewcomers, RunKnows,
          Newcomer
<1> QED BY <1>2, <1>3, <1>4, <1>5, <1>6, <1>7, <1>8 DEF Next

\* The step that first starts the services starts them on the core alone.
LEMMA FirstCareful ==
  ASSUME Typed, CoreInv, wanted = {}, EnsureRunning
  PROVE  Core(group)' /\ Careful(group)'
<1>0. /\ Before /\ running = {} /\ group \in (SUBSET Hosts) \ {{}}
      /\ \E first \in FirstGroups : first \subseteq group
  BY DEF CoreInv, Typed, TypeOK
<1>1. /\ wanted' = group /\ step' = "health"
      /\ UNCHANGED <<group, env, running, data, added>>
  BY DEF EnsureRunning
<1>2. \A h \in group : env[h] = [state |-> "new", peers |-> group] /\ data[h] = NoData
  BY <1>0 DEF Before, EnsureRunning
<1>3. \A h \in Hosts : env[h] = NoEnv \/ h \in group BY <1>0 DEF Before
<1>4. Core(group)'
  BY <1>0, <1>1, <1>2, <1>3 DEF Core, Before, NoEnv
<1>5. Newcomers' = group' BY <1>1, <1>2 DEF Newcomers
<1> QED BY <1>0, <1>1, <1>3, <1>4, <1>5
        DEF Before, Careful, OnlyCore, FewNewcomers, RunKnows, Joining

LEMMA NextCareful ==
  ASSUME Typed, CoreInv, CarefulInv, [Next]_vars PROVE CarefulInv'
<1> SUFFICES ASSUME wanted' # {}, ~disturbed'
             PROVE  \E g \in SUBSET Hosts : Core(g)' /\ Careful(g)'
  BY DEF CarefulInv
<1>1. ~disturbed
  BY DEF Next, Run, vars, counters, StartRun, CheckHealth, Configure, EnsureRunning,
         AwaitHealth, CheckMember, AddMember, ConfigureJoiner, ConfirmMember, AllJoined,
         RefreshAll, RestartNotified, AwaitUp, GiveUp, Fail, StartMember, MemberDies, AddHosts
<1>2. CASE wanted = {}
  <2>1. EnsureRunning
    BY <1>2 DEF Next, Run, vars, machines, StartRun, CheckHealth, Configure,
         AwaitHealth, CheckMember, AddMember, ConfigureJoiner, ConfirmMember, AllJoined,
         RefreshAll, RestartNotified, AwaitUp, GiveUp, Fail, StartMember, MemberDies, AddHosts
  <2>2. group' = group /\ group \in SUBSET Hosts BY <2>1 DEF EnsureRunning, Typed, TypeOK
  <2> QED BY <1>2, <2>1, <2>2, FirstCareful
<1>3. CASE wanted # {}
  <2>1. PICK g \in SUBSET Hosts : Core(g) /\ Careful(g) BY <1>1, <1>3 DEF CarefulInv
  <2> QED BY <1>3, <2>1, NextKeepsCore, NextKeepsCareful
<1> QED BY <1>2, <1>3

LEMMA AlwaysCareful == Spec => [](Typed /\ CoreInv /\ CarefulInv)
<1>1. Init => CarefulInv BY DEF Init, CarefulInv
<1>2. Typed /\ CoreInv /\ CarefulInv /\ [Next]_vars => CarefulInv'
  BY NextCareful
<1> QED BY <1>1, <1>2, AlwaysCore, PTL DEF Spec

\* As long as the operator is careful and nothing disturbs a newcomer (no
\* member is down, no query of its own fails, and its address is no part of
\* another's), no data directory ever belongs to a second cluster, founded or
\* not, however large the group becomes and wherever runs stop.
THEOREM CarefulIsOneCluster == Spec => [](~disturbed => \A c, d \in Clusters : c = d)
<1>1. Typed /\ CoreInv /\ CarefulInv => (~disturbed => \A c, d \in Clusters : c = d)
  <2> SUFFICES ASSUME Typed, CoreInv, CarefulInv, ~disturbed,
                      NEW c \in Clusters, NEW d \in Clusters
               PROVE  c = d
    OBVIOUS
  <2>1. wanted # {} BY DEF CoreInv, Before, Clusters
  <2>2. PICK g \in SUBSET Hosts : Core(g) /\ Careful(g) BY <2>1 DEF CarefulInv
  <2> QED BY <2>2 DEF Careful, OnlyCore, Clusters
<1> QED BY <1>1, AlwaysCareful, PTL

\* After a run that completed, and systemd's 15 s, every host of the group is
\* a member of the one cluster with the whole group as its list, and its
\* configuration says so, if hosts were added one at a time and nothing
\* disturbed their joining: no member that was down, no query without an
\* answer, no address that is a part of another.
THEOREM CompleteIsAssembledHolds == Spec => []CompleteIsAssembled
<1>1. Typed /\ CoreInv /\ CarefulInv => CompleteIsAssembled
  <2> SUFFICES ASSUME Typed, CoreInv, CarefulInv, step = "done", ~disturbed, Settled
               PROVE  Assembled /\ \A h \in group : env[h] = Existing
    BY DEF CompleteIsAssembled, Existing
  <2>1. wanted # {} BY DEF CoreInv, Before
  <2>2. PICK g \in SUBSET Hosts : Core(g) /\ Careful(g) BY <2>1 DEF CarefulInv
  <2>3. Members(g) = group /\ \A h \in group : env[h] = Existing
    BY <2>2 DEF Careful, RunKnows
  <2>4. Newcomers = {} BY <2>2, <2>3, SettledCareful DEF Newcomers
  <2>5. \A h \in group : data[h] = g BY <2>2, <2>4, CarefulFacts
  <2>6. g \in Clusters BY <2>2, <2>5, CoreGiven DEF Clusters, Core, NoData
  <2> QED BY <2>3, <2>5, <2>6 DEF Assembled
<1> QED BY <1>1, AlwaysCareful, PTL
=============================================================================

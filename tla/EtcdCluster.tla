----------------------------- MODULE EtcdCluster -----------------------------
(***************************************************************************)
(* The members of the etcd cluster as roles/etcd configures, starts and    *)
(* joins them (tasks/configure.yml, tasks/join_etcd_member.yml,            *)
(* tasks/refresh_config.yml, handlers/main.yml), on hosts whose etcd       *)
(* process systemd starts again and again, with runs that fail and a group *)
(* etcd that grows between runs.                                           *)
(*                                                                         *)
(* Abstractions:                                                           *)
(*  - A cluster is named by the set of hosts it was bootstrapped with, as  *)
(*    its identifier is computed from them; a host's data directory holds  *)
(*    the name of the cluster it belongs to.                               *)
(*  - The cluster for events, which the same tasks configure beside the    *)
(*    main one, certificates (module EtcdCerts) and the backup before a    *)
(*    restart, which only reads, are left out.                             *)
(*  - A member joins in any order of the group; hosts never lose data.     *)
(*  - An address is told from another only by whether it is a part of it.  *)
(***************************************************************************)
EXTENDS Naturals, FiniteSets

CONSTANTS
  Hosts,        \* every machine that may ever be in group etcd
  FirstGroups,  \* what group etcd may be at first
  AddsAtOnce,   \* bound: hosts the operator adds between two runs
  MaxEdits,     \* bound: times the operator adds hosts
  MaxFailures,  \* bound: runs that fail for a reason of their own
  MaxOutages,   \* bound: times an etcd process ends by itself, or the etcdctl
                \* of some hosts does not get through
  Alike         \* <<h, m>>: h's address is a part of m's, as 10.0.0.1 is of
                \* 10.0.0.10

ASSUME HostsAssumption == IsFiniteSet(Hosts)
ASSUME GroupsAssumption == FirstGroups \subseteq (SUBSET Hosts) \ {{}}
ASSUME BoundsAssumption == {AddsAtOnce, MaxEdits, MaxFailures, MaxOutages} \subseteq Nat
ASSUME AlikeAssumption == Alike \subseteq Hosts \X Hosts

VARIABLES
  group,      \* groups['etcd']
  env,        \* env[h]: /etc/etcd.env of h
  wanted,     \* hosts whose etcd service is started and enabled
  running,    \* hosts whose etcd process is up
  data,       \* data[h]: the cluster the data directory of h belongs to
  added,      \* <<c, h>>: h was added to the member list of cluster c
  step,       \* the task the run has reached
  healthy,    \* hosts whose registered etcd_cluster_is_healthy.rc is 0
  inCluster,  \* hosts whose registered etcd_member_in_cluster.rc is 0
  joining,    \* target_node of the join under way
  notified,   \* hosts whose handler "restart etcd" is pending
  failures, outages, edits,
  disturbed   \* history: while a newcomer had not joined, others were added,
              \* a member was down or a query failed; or a newcomer's address
              \* is a part of another's

machines == <<env, wanted, running, data, added>>
facts    == <<healthy, inCluster, joining, notified>>
counters == <<failures, outages, edits, disturbed>>
vars     == <<group, machines, step, facts, counters>>

-----------------------------------------------------------------------------
(***************************************************************************)
(* etcd itself, as the tasks rely on it.                                   *)
(***************************************************************************)
NoData == {}
NoEnv  == [state |-> "none", peers |-> {}]
Envs   == [state : {"none", "new", "existing"}, peers : SUBSET Hosts]

Members(c)  == c \cup {h \in Hosts : <<c, h>> \in added}
Joined(c)   == {m \in Members(c) : data[m] = c}
Clusters    == {data[h] : h \in Hosts} \ {NoData}
\* Each host looks for itself in the list with grep -q and its address, which
\* a longer address matches too.
Listed(h, c) == h \in Members(c) \/ \E m \in Members(c) : <<h, m>> \in Alike

HasQuorum(c, up) == 2 * Cardinality(Joined(c) \cap up) > Cardinality(Members(c))

\* etcdctl cluster-health says "cluster is healthy" when every listed member
\* answers.
Healthy(c) == Members(c) \subseteq Joined(c) \cap running

\* The clusters the endpoints of the group lead to.
Reached == {data[h] : h \in group \cap running}

\* What a process that starts does: a data directory decides alone; without
\* one, "new" bootstraps a cluster of the peers and "existing" asks a running
\* peer, whose member list must be the configured peers.
JoinsBy(h) ==
  IF data[h] # NoData THEN {data[h]}
  ELSE CASE env[h].state = "new"      -> {env[h].peers}
         [] env[h].state = "existing" -> {c \in {data[e] : e \in env[h].peers \cap running} :
                                             Members(c) = env[h].peers}
         [] env[h].state = "none"     -> {}

Newcomers == {h \in group : data[h] = NoData}

CanStart(h) == h \in wanted \ running /\ JoinsBy(h) # {}
Settled == \A h \in Hosts : ~CanStart(h)

TypeOK ==
  /\ group \in (SUBSET Hosts) \ {{}}
  /\ env \in [Hosts -> Envs]
  /\ wanted \in SUBSET Hosts /\ running \in SUBSET wanted
  /\ data \in [Hosts -> SUBSET Hosts] /\ \A h \in running : data[h] # NoData
  /\ added \in SUBSET ((SUBSET Hosts) \X Hosts)
  /\ step \in {"idle", "check", "config", "start", "health", "list", "join", "addconf",
               "addlist", "refresh", "assembled", "restart", "wait", "done"}
  /\ healthy \in SUBSET group /\ inCluster \in SUBSET group
  /\ joining \in SUBSET group /\ notified \in SUBSET group
  /\ failures \in 0 .. MaxFailures /\ outages \in 0 .. MaxOutages
  /\ edits \in 0 .. MaxEdits /\ disturbed \in BOOLEAN

Init ==
  /\ group \in FirstGroups
  /\ env = [h \in Hosts |-> NoEnv]
  /\ wanted = {} /\ running = {} /\ data = [h \in Hosts |-> NoData] /\ added = {}
  /\ step = "idle" /\ healthy = {} /\ inCluster = {} /\ joining = {} /\ notified = {}
  /\ failures = 0 /\ outages = 0 /\ edits = 0 /\ disturbed = FALSE

-----------------------------------------------------------------------------
(***************************************************************************)
(* The run.                                                                *)
(***************************************************************************)
AtRest == step \in {"idle", "done"}

Stop(s) ==
  /\ step' = s
  /\ healthy' = {} /\ inCluster' = {} /\ joining' = {} /\ notified' = {}

\* systemd tries every 15 s: the next run comes later than that.
StartRun ==
  /\ AtRest /\ Settled
  /\ Stop("check")
  /\ UNCHANGED <<group, machines, counters>>

\* The hosts errs get no answer, whatever the state of the cluster.
Unanswered(errs) == errs = {} \/ outages < MaxOutages
Outage(errs) == outages' = IF errs = {} THEN outages ELSE outages + 1

\* Every host asks for itself, through endpoints that may lead to different
\* clusters; errors are ignored, and read as a cluster that is not healthy.
Answers == IF Reached = {} THEN {FALSE} ELSE {Healthy(c) : c \in Reached}

CheckHealth ==
  /\ step = "check" /\ step' = "config"
  /\ \E answer \in [group -> Answers], errs \in SUBSET group :
       /\ Unanswered(errs) /\ Outage(errs)
       /\ healthy' = {h \in group \ errs : answer[h]}
       /\ disturbed' = (disturbed \/ errs \cap Newcomers # {})
  /\ UNCHANGED <<group, machines, inCluster, joining, notified, failures, edits>>

\* etcd.env of the hosts W; the handler is notified where it changes.
StateAlwaysNew(h) == "new"
StateFor(h) == IF h \in healthy THEN "existing" ELSE "new"

RefreshStarted(W, peers) ==
  LET fresh(h) == [state |-> StateFor(h), peers |-> (peers \cap wanted) \cup {h}]
  IN /\ env' = [h \in Hosts |-> IF h \in W THEN fresh(h) ELSE env[h]]
     /\ notified' = notified \cup {h \in W : env[h] # fresh(h)}

RefreshConfig(W, peers) ==
  LET fresh(h) == [state |-> StateFor(h), peers |-> peers]
  IN /\ env' = [h \in Hosts |-> IF h \in W THEN fresh(h) ELSE env[h]]
     /\ notified' = notified \cup {h \in W : env[h] # fresh(h)}

Configure ==
  /\ step = "config" /\ step' = "start"
  /\ RefreshConfig(group, group)
  /\ UNCHANGED <<group, wanted, running, data, added, healthy, inCluster, joining, counters>>

\* A process that is up is left alone; systemd starts the others.
RestartRunning ==
  /\ step = "start" /\ step' = "health"
  /\ wanted' = wanted \cup group /\ running' = running \ group
  /\ UNCHANGED <<group, env, data, added, facts, counters>>

EnsureRunning ==
  /\ step = "start" /\ step' = "health"
  /\ wanted' = wanted \cup group
  /\ UNCHANGED <<group, env, running, data, added, facts, counters>>

\* Asked again, a few times, until it holds.
AwaitUnregistered ==
  /\ step = "health" /\ step' = "list"
  /\ \E c \in Reached : Healthy(c)
  /\ UNCHANGED <<group, machines, facts, counters>>

AwaitHealth ==
  /\ step = "health" /\ step' = "list"
  /\ \E c \in Reached : Healthy(c)
  /\ healthy' = group
  /\ UNCHANGED <<group, machines, inCluster, joining, notified, counters>>

\* One endpoint's member list: every host looks for itself in it.  Errors are
\* ignored, and read as a host that is not in the cluster.
CheckMember ==
  /\ step = "list" /\ step' = "join"
  /\ \E c \in Reached, errs \in SUBSET group :
       /\ Unanswered(errs) /\ Outage(errs)
       /\ inCluster' = {h \in group \ errs : Listed(h, c)}
       /\ disturbed' = (disturbed \/ (errs # {} /\ Newcomers # {}))
  /\ UNCHANGED <<group, machines, healthy, joining, notified, failures, edits>>

\* etcdctl member add, retried: etcd takes a new member only while all the
\* ones it has are up (strict-reconfig-check), and none twice.
Admits(c, h) == Healthy(c) /\ h \notin Members(c)

AddMember(h) ==
  /\ step = "join" /\ h \in group \ inCluster
  /\ \E c \in Reached : Admits(c, h) /\ added' = added \cup {<<c, h>>}
  /\ step' = "addconf" /\ joining' = {h}
  /\ UNCHANGED <<group, env, wanted, running, data, healthy, inCluster, notified, counters>>

\* The peers are the hosts known to be members, and the new one.
ConfigureJoiner ==
  /\ step = "addconf" /\ step' = "addlist"
  /\ RefreshConfig(joining, inCluster \cup joining)
  /\ UNCHANGED <<group, wanted, running, data, added, healthy, inCluster, joining, counters>>

ConfirmMember ==
  /\ step = "addlist" /\ step' = "join"
  /\ \E c \in Reached : \A h \in joining : Listed(h, c)
  /\ inCluster' = inCluster \cup joining /\ joining' = {}
  /\ UNCHANGED <<group, machines, healthy, notified, counters>>

AllJoined ==
  /\ step = "join" /\ group = inCluster
  /\ step' = "refresh"
  /\ UNCHANGED <<group, machines, facts, counters>>

\* Once after the joins, once more at the end of the role.
RefreshAll ==
  /\ step \in {"refresh", "assembled"}
  /\ step' = IF step = "refresh" THEN "assembled" ELSE "restart"
  /\ RefreshConfig(group, group)
  /\ UNCHANGED <<group, wanted, running, data, added, healthy, inCluster, joining, counters>>

\* The handlers, at the end of the play, on every notified host at once.
RestartNotified ==
  /\ step = "restart" /\ step' = "wait"
  /\ running' = running \ notified
  /\ UNCHANGED <<group, env, wanted, data, added, facts, counters>>

Up(h) == h \in running /\ HasQuorum(data[h], running) /\ h \in Members(data[h])

AwaitUp ==
  /\ step = "wait" /\ \A h \in notified : Up(h)
  /\ Stop("done")
  /\ UNCHANGED <<group, machines, counters>>

\* A run that waits for what can no longer come about runs out of retries.
GiveUp ==
  /\ Settled
  /\ \/ step \in {"health", "list"} /\ ~\E c \in Reached : Healthy(c)
     \/ step = "join" /\ \E h \in group \ inCluster : ~\E c \in Reached : Admits(c, h)
     \/ step = "addlist" /\ ~\E c \in Reached : \A h \in joining : Listed(h, c)
     \/ step = "wait" /\ ~\A h \in notified : Up(h)
  /\ Stop("idle")
  /\ UNCHANGED <<group, machines, counters>>

\* any_errors_fatal, without force_handlers: the handlers are lost.
Fail ==
  /\ ~AtRest /\ failures < MaxFailures
  /\ failures' = failures + 1
  /\ Stop("idle")
  /\ UNCHANGED <<group, machines, outages, edits, disturbed>>

-----------------------------------------------------------------------------
(***************************************************************************)
(* The processes and the operator.                                         *)
(***************************************************************************)
StartMember(h) ==
  /\ h \in wanted \ running
  /\ \E c \in JoinsBy(h) : data' = [data EXCEPT ![h] = c]
  /\ running' = running \cup {h}
  /\ UNCHANGED <<group, env, wanted, added, step, facts, counters>>

MemberDies(h) ==
  /\ h \in running /\ outages < MaxOutages
  /\ running' = running \ {h} /\ outages' = outages + 1
  /\ disturbed' = (disturbed \/ Newcomers # {})
  /\ UNCHANGED <<group, env, wanted, data, added, step, facts, failures, edits>>

\* Careful is to add one host at a time, after a run that has completed and
\* the start of the last newcomer, and none whose address is a part of one in
\* the group.
AddHosts(new) ==
  /\ AtRest /\ edits < MaxEdits
  /\ new # {} /\ new \cap group = {} /\ Cardinality(new) <= AddsAtOnce
  /\ group' = group \cup new /\ edits' = edits + 1
  /\ disturbed' = (disturbed \/ step # "done" \/ Newcomers # {} \/ Cardinality(new) > 1
                  \/ \E h \in new, m \in group : <<h, m>> \in Alike)
  /\ Stop("idle")
  /\ UNCHANGED <<machines, failures, outages>>

Run ==
  \/ CheckHealth \/ Configure \/ EnsureRunning \/ AwaitHealth \/ CheckMember
  \/ (\E h \in Hosts : AddMember(h)) \/ ConfigureJoiner \/ ConfirmMember \/ AllJoined
  \/ RefreshAll \/ RestartNotified \/ AwaitUp \/ GiveUp

Next ==
  \/ StartRun \/ Run \/ Fail
  \/ (\E h \in Hosts : StartMember(h) \/ MemberDies(h))
  \/ (\E new \in SUBSET Hosts : AddHosts(new))

Spec == Init /\ [][Next]_vars

\* Ansible goes on with a run, systemd with a process, and the operator runs
\* the playbook again.
FairSpec ==
  /\ Spec /\ WF_vars(Run) /\ WF_vars(StartRun)
  /\ \A h \in Hosts : WF_vars(StartMember(h))

-----------------------------------------------------------------------------
(***************************************************************************)
(* Properties.                                                             *)
(***************************************************************************)

\* A cluster once founded is the only one: no rerun that finds it unhealthy
\* and writes "new" (etcd.env.j2:4) lets the newcomers found a second, empty
\* one beside it ("make sure that initial state of the cluster is in
\* `existing` state insted of `new`", main.yml:53-55).
Founded(c) == 2 * Cardinality({m \in c : data[m] = c}) > Cardinality(c)

OneCluster == \A c, d \in Clusters : Founded(c) /\ Founded(d) => c = d

\* The member of every host of the group belongs to the one cluster, whose
\* list is the group.
Assembled ==
  \E c \in Clusters : Members(c) = group /\ \A h \in group : data[h] = c

\* A run that completes has assembled the group, whatever runs failed before
\* it between "member add" and the new member's start, if newcomers came one
\* at a time and nothing disturbed their joining: a member that was down, a
\* query without an answer, an address that grep found in a longer one
\* (configure.yml:5, 96); and no host's configuration says "new" any more.
\* It holds once systemd has had its 15 s: a run that finds nothing to change
\* waits for no handler, and so not for a member that an earlier run added.
CompleteIsAssembled ==
  step = "done" /\ ~disturbed /\ Settled =>
    Assembled /\ \A h \in group : env[h] = [state |-> "existing", peers |-> group]

\* Only the handler, which restarts every member at once, and a member that
\* dies take the quorum of a cluster of two or more away: configuring,
\* starting and joining never do.
QuorumKept ==
  [][\A c \in Clusters :
       /\ HasQuorum(c, running) /\ Cardinality(Members(c)) > 1
       /\ ~HasQuorum(c, running)'
       => step = "restart" \/ outages' > outages]_vars

\* The group of a careful operator, whose newcomers nothing disturbs, ends up
\* assembled, with every member running.
EventuallyAssembled ==
  []~disturbed => <>[](Assembled /\ group \subseteq running)
=============================================================================

# Kubespray in TLA+

This directory is a verification project for the Kubespray repository beside it.
It models, as TLA+ state machines, the parts of Kubespray whose correctness is
a matter of *order and memory* rather than of templates: what several playbook
runs, some of which stop half-way, leave behind on several hosts, and what the
next run makes of it. TLC checks the models on small instances; TLAPS proves the
most important safety properties for every instance.

Line numbers below are those of the repository.

## 1. The system

Kubespray has no daemon. Its state is on the machines it configures, its
"program" is a set of Ansible playbooks, and its schedule is Ansible's: a play
takes its hosts (all, or `serial` many at a time), runs a task on all of them, in
any order, and goes on to the next task when all are through. Facts and pending
handlers live as long as a run; files, processes and API objects live on. With
`any_errors_fatal: true`, which every play of `cluster.yml`, `scale.yml` and
`upgrade-cluster.yml` sets, a failed task ends the whole run where it is, and
the operator's remedy is to start it again. So the hard questions are all of one kind: *is what a run decides,
from the files and objects it finds, right after any run that stopped anywhere?*

### Inventory of components

| Component | State it keeps | Operations | Interacts through | What is hard | What makes it correct |
|---|---|---|---|---|---|
| **etcd certificates** (`roles/etcd`: `check_certs.yml`, `gen_certs_script.yml`, `make-ssl-etcd.sh`, `upd_ca_trust.yml`) | CA, member/admin and node pairs on the first etcd host and on every host; facts `gen_certs`, `gen_node_certs`, `sync_certs` | detect, generate, archive, unpack, trust | files; facts of the first etcd host read through `hostvars`; the inventory's groups | runs that stop between generation and distribution; a script killed while it installs, an archive half unpacked; groups that change between runs; resets | completed runs leave working pairs under one CA; a key that is looked at vouches for the files that are not; keys in use are not replaced |
| **rolling upgrade** (`upgrade-cluster.yml`, `roles/upgrade`, `roles/kubernetes/node`, `roles/kubernetes/master`, `roles/docker`) | software versions on a node; cordons and workloads; fact `needs_cordoning`; pending handlers | Docker, check, cordon, drain, write files, restart, apiserver, plugin, uncordon | Kubernetes API objects; files and processes of a node; handlers | failed runs lose facts and handlers but not cordons and files; kubelets restart by themselves; the administrator cordons too; queries that fail are ignored | version skew; administrator's cordons; bounded loss of service; restarts only when drained |
| **inventory builder** (`contrib/inventory_builder/inventory.py`) | the inventory file | add, delete, load, write | the file, between calls | long sequences of additions and deletions; thresholds crossed both ways; a write that is cut | unique hosts, stable names, an etcd group of at most three, groups without strangers |
| **etcd cluster membership** (`roles/etcd`: `configure.yml`, `join_etcd_member.yml`, `refresh_config.yml`, handlers) | `etcd.env`, the running member, the member list | configure, start, join one at a time, restart | etcd's API; handlers | members started before they have joined; queries that fail and are ignored; a host that looks for its address with `grep`; all members restarted at once; stale certificates in a process | every member listed exactly once; quorum through joins; configuration agrees with the list |
| **Kubernetes certificates and tokens** (`roles/kubernetes/secrets`) | CA, apiserver, admin and node certificates; token files | detect, generate, distribute | as etcd certificates | as etcd certificates, with two kinds of host | as etcd certificates |
| **token rotation** (`roles/kubernetes-apps/rotate_tokens`) | service-account tokens; pods | test, delete secrets, delete pods | the API | an API without an answer reads as an expired token; a run that fails before it | tokens match the signing key; rotation only when needed |
| **vault** (`roles/vault`, `shared/sync_file.yml`) | Vault's PKI and the files it issued, on several hosts | bootstrap, unseal, issue, sync | Vault's API, files | which host is the source of a file | all hosts hold one version |
| **kube module** (`library/kube.py`) | the API objects | create, replace, delete, exists | `kubectl` | one look for several objects; a look without an answer; a command that breaks off or is refused one object | a call that reports success has done what it was asked |
| **cluster DNS** (`roles/kubernetes-apps/ansible`: `main.yml`, `cleanup_dns.yml`, `coredns.yml`, `kubedns.yml`) | deployments and services of two DNS servers, of which two services want one address | delete the old, apply the new with retries | one call of the kube module per object | changes of `dns_mode` whose run stops after the deletions; items that fail while others succeed | a completed run serves the mode, alone; and one completes |
| **kubeadm** (`roles/kubernetes/kubeadm`, `master/tasks/kubeadm-setup.yml`) | tokens, `kubelet.conf` | init, join | files, API | reruns after half a join | a host joins once |
| **node removal and reset** (`remove-node.yml`, `reset.yml`, `roles/reset`, `roles/remove-node`) | node objects, everything on a host | drain, reset, delete | API, files | three plays, no `any_errors_fatal` | nothing reset stays registered |
| **downloads** (`roles/download`) | files and images | download once and distribute, or everywhere | a delegate host | facts of the delegate | every host gets what it needs |
| **terraform inventory** (`contrib/terraform/terraform.py`) | floating IPs of the first pass, groups and hostvars of the second | read associations, read servers, print | the state files, which terraform may be writing | two passes over files in any order; one parser per provider, each with its own failures | the output agrees with the files and leaves no server out |
| **network plugins, host preparation, other add-ons** (`roles/network_plugin`, `roles/bootstrap-os`, `roles/kubernetes/preinstall`, the rest of `roles/kubernetes-apps`, `roles/dnsmasq`) | files, manifests | render, apply | – | little beyond idempotence | – |
| **customized** (`customized/`) | site-specific examples, notebooks, terraform | – | – | – | – |

`PROJECT.json` lists the same components with their status, and under `hazards`
every place where this code can go wrong in a way a test hardly reaches, at its
line, with the properties that watch it.

### How the components interact

`cluster.yml` runs, in order, host preparation, Docker, `roles/etcd` on the etcd
group (certificates, then the member), `roles/etcd` again on `k8s-cluster` and
`calico-rr` (certificates only), the node role, the master role, the network
plugin and the add-ons. `scale.yml` runs the certificate roles and the node role on the
workers alone. `upgrade-cluster.yml` runs the same roles in batches between
`pre-upgrade` and `post-upgrade`. The inventory builder makes the groups all of
them read: *which host is the first of `etcd`* decides where the CA lives and
where the certificate script runs, so the invariant of the builder
(`EtcdIsFirstThree`) and the operator actions of the certificate model
(`MoveFirst`, `AddEtcd`) are two sides of one interface.

Three of these interfaces are compositions in the models as well. The two
certificate roles do the same job on different hosts, and `EtcdCerts` and
`KubeSecrets` are both shown to implement one abstract specification,
`KeyDistribution`. `ClusterDNS` runs `KubeModule` as the code does: an item of a
loop *is* a call of the module, with its look, its objects and its failures. And
`KubeSecrets` contains the token rotation, which hears of new certificates through a
fact only.

## 2. Plan

Modules in the order of what a failure would cost.

| # | Module | Status | Abstract statement | Theorems |
|---|---|---|---|---|
| 1 | `EtcdCerts` (+ `EtcdCertsProofs`) | done | a completed run means every host is deployed under one CA | types; convergence of node and member pairs; what a key vouches for; agreement and stability of keys; refinement |
| 2 | `NodeUpgrade` (+ `NodeUpgradeMC`, `NodeUpgradeProofs`) | done | masters first, own cordons given back | types; skew; administrator's cordons; bound on stranded nodes; drained restarts; what completion means |
| 3 | `InventoryBuilder` (+ `InventoryBuilderMC`, `InventoryBuilderProofs`) | done | the file is a function of its host list, below the threshold | types; no dangling hosts; uniqueness; etcd group; stable names; masters |
| 4 | `EtcdCluster` (+ `EtcdClusterMC`, `EtcdClusterProofs`) | done | one cluster, whose members are the group | types; quorum through configuration, start and joins; no second cluster; what completion means |
| 5 | `KeyDistribution` | done | one source, many copies | agreed keys stay, stated of both implementations |
| 6 | `KubeSecrets` (+ `KubeSecretsProofs`), with the token rotation | done | `KeyDistribution`; tokens are signed by the current key | types; refinement; convergence of nodes and masters; consistency of pairs between runs; survival and acceptance of tokens |
| 7 | `KubeModule` (+ `KubeModuleMC`, `KubeModuleProofs`) | done | success means done | types; both postconditions |
| 8 | `ClusterDNS` (+ `ClusterDNSProofs`), composed with `KubeModule` | done | the mode is served, alone | types; what completion means |
| 9 | `TerraformInventory` (+ `TerraformInventoryMC`, `TerraformInventoryProofs`) | done | the output is a function of the files | types; both queries; causes of failure; no server left out |
| 10 | `NodeLifecycle`: `remove-node.yml`, `reset.yml`, `scale.yml` | planned | a node is registered only while it is configured | – |
| 11 | `VaultSyncFile`: per-host facts against one source | planned | `KeyDistribution`, with any host as the source | refinement |
| 12 | `KubeadmJoin`, `Download`, `known_tokens.csv` in `KubeSecrets` | planned | one join per host; one delegate, many copies | – |

Every invariant and action property a passing run checks is also a theorem (section 5); what
the theorems assume beyond the constants' own assumptions is what is left to weaken. Planned next, for the
modules that exist: convergence of etcd's certificates when the first etcd host
changes after completed runs only.

## 3. The models

The models of playbooks share the shape of the system: a *run* is a sequence of
atomic tasks with facts that die with it; `Fail` may end it between any two
tasks; the operator acts between runs. What stays is what the properties are
about. The two scripts are modelled call by call.

### `EtcdCerts` – one source, many copies

`check_certs.yml` compares the certificate directory of every host with that of
the first etcd host and sets three facts; `gen_certs_script.yml` runs
`make-ssl-etcd.sh` on the first etcd host for what it lacks, packs its files and
unpacks them on the hosts that lack something; `upd_ca_trust.yml` copies the CA
into the host's trust store and fails where there is none.

| State | Code |
|---|---|
| `first`, `etcd`, `nodes` | `groups['etcd'][0]`, `groups['etcd']`, `k8s-cluster` ∪ `calico-rr` |
| `ca[d]` | `ca.pem`, `ca-key.pem` in `/etc/ssl/etcd/ssl` on host *d* |
| `node[d][h]`, `member[d][h]` | `node-<h>`, and `member-<h>` with `admin-<h>`, on host *d* |
| `gen`, `genNode`, `sync` | facts `gen_certs`, `gen_node_certs`, `sync_certs` |
| `play`, `step`, `lead` | the play, the task file it has reached, the host `run_once` picks |

A key is a serial; a certificate is the serial of its key and of the CA that
signed it. `Fresh` draws the smallest serial no file holds, so serials are
reused once the last file that held one is gone and `MaxSerial = 8` bounds the
serials *in use* – with three hosts and two edits the runs never need more (a run
that did would stop at a guard and show as a deadlock, which TLC checks).

| Action | Code |
|---|---|
| `StartCluster`, `StartScale`, `EndEtcdPlay`, `EndRun` | the plays of `cluster.yml:50-60` and `scale.yml:25-41` |
| `CheckCerts` | `check_certs.yml` on all hosts of the play |
| `RunScript`, `KillScript`, `ScriptRefuses`, `SkipScript` | `make-ssl-etcd.sh` and the conditions of the tasks that call it (`gen_certs_script.yml:54-72`) |
| `SyncHost`, `CutUnpack` | `tar` on the first etcd host, unpacked on one host, whole or up to any file (`gen_certs_script.yml:74-162`) |
| `NoCAToTrust` | `upd_ca_trust.yml:17-22` |
| `Fail` | `any_errors_fatal` |
| `AddNode`, `AddEtcd`, `MoveFirst`, `Reset` | the operator; `roles/reset` removes the directory |

Two commands write several files and may be cut between any two of them.
`KillScript` leaves any prefix of the files in the order in which
`make-ssl-etcd.sh:98` moves them (`Interrupted`): by name, so the administrators'
pairs, the CA, the members' pairs and the nodes', and of a pair the key before the
certificate. `CutUnpack` leaves any prefix of the archive (`Prefix`), which is in the
order of the lists it is packed from (`gen_certs_script.yml:75-92`): the CA's key, the
member pair, the CA, the node pairs, and of a pair the *certificate before the key*.
That order is what saves the second case: the node key is the only file
`check_certs.yml:60-65` compares, and it is the last to arrive.

### `NodeUpgrade` – batches, cordons, versions

`upgrade-cluster.yml` takes Docker through every host in batches, the masters
one by one, then the workers in batches; each batch is checked, cordoned, drained,
upgraded and uncordoned.

| State | Code |
|---|---|
| `docker` | the version of Docker's packages |
| `kubelet`, `api` | what runs on a node |
| `file`, `plugin` | the kubelet's launch script and the network plugin's files on a node |
| `up`, `cordoned`, `drained`, `admin` | kubelets running; `spec.unschedulable`; nodes without workloads; cordons that are the administrator's |
| `cordoning`, `notified` | fact `needs_cordoning`; the pending handler *restart kubelet* |
| `overlooked` | history: nodes whose cordon or uncordon by the administrator the run does not see, because it had asked before or because `kubectl` did not answer when it asked |
| `play`, `queue`, `batch`, `task`, `todo` | where the run is |

One action per task (`UpgradeDocker`, `CheckReady`, `CheckSchedulable`, `Cordon`,
`Drain`, `WriteFiles`, `Flush`, `UpgradeApiserver`, `UpgradePlugin`, `Uncordon`)
and host of the batch; `NextTask`, `NextBatch`, `NextPlay` and `Fail` are
Ansible's; `KubeletDies`, `KubeletStarts` (systemd's `Restart=always`, with the
launch script it finds), `AdminCordon` and `AdminUncordon` may happen at any
moment and to any node, those of the batch included.

`needs_cordoning` comes from two calls of `kubectl`, one after the other, both with
`failed_when: false` (`pre-upgrade/tasks/main.yml:4-28`). Without an answer the first
(`ReadySilent`) reads as *not Ready*, and the node is neither cordoned nor drained; the
second (`SchedulableSilent`) reads as *schedulable*, and a node the administrator had
cordoned is drained and uncordoned. Nobody asks again before the uncordoning, so a cordon that comes after
the second call is undone as well. `Decided` is the set of nodes the batch is committed to
uncordon, and `overlooked` those among them for which that is not what the
administrator wants, or no longer what the run believes.

### `InventoryBuilder` – a file that remembers

A call reads the file (`Start`), handles its arguments (`AddHost`, `DeleteByIp`,
`DeleteByName`), drops the hosts that are gone from every section, adds hosts to
the sections by position and threshold, and writes (`Write`); an exception in
between (`Abort`) writes nothing; a write may be cut (`WriteCut`: a prefix
of the file, in the order of its sections). `Load` is the command `load`.
`Section` gives every group what `set_etcd`, `set_kube_master`, `set_kube_node`,
`set_calico_rr` and `set_vault` leave in it: they only ever add. The thresholds
are read from the environment as the code reads them, the second one included
(`inventory.py:60`).

### `EtcdCluster` – members listed, configured, started

The role asks every host whether the cluster is healthy, writes `etcd.env` from
the answer, lets systemd start the processes, waits for health, adds the hosts
that are not listed one at a time, writes the configurations twice more and
restarts what has changed.

| State | Code |
|---|---|
| `group` | `groups['etcd']` |
| `env[h]` | `ETCD_INITIAL_CLUSTER_STATE` and `ETCD_INITIAL_CLUSTER` in `/etc/etcd.env` |
| `wanted`, `running` | services started and enabled; processes that are up |
| `data[h]`, `added` | the cluster a data directory belongs to, named by its founders; what `member add` has listed |
| `healthy`, `inCluster`, `joining`, `notified` | the registered results, the loop's `target_node`, the pending handler *restart etcd* |
| `disturbed` | history: while a newcomer had not joined, other hosts were added, a member died or a query failed; or several came at once; or the address of one is a part of another's |

| Action | Code |
|---|---|
| `CheckHealth` | `configure.yml:2-13`: each host asks for itself; some may err (`errs`), which is ignored and reads as *unhealthy* |
| `Configure`, `ConfigureJoiner`, `RefreshAll` | `refresh_config.yml`, with the hosts and peers of its three callers (`RefreshConfig`) |
| `EnsureRunning`, `AwaitHealth` | `configure.yml:49-77` |
| `CheckMember` | `configure.yml:95-106`: `member list \| grep -q <address>`, so a host whose address is a part of a member's finds itself too (`Listed`, `Alike`); some may err, which reads as *not a member* |
| `AddMember`, `ConfirmMember` | `join_etcd_member.yml:2-36`, with the same `grep` |
| `RestartNotified`, `AwaitUp` | `handlers/main.yml`, on all notified hosts at once |
| `GiveUp` | retries that run out on what can no longer happen |
| `StartMember`, `MemberDies` | etcd and systemd (`Restart=always`, `RestartSec=15s`), at any moment |
| `AddHosts` | the operator |

What etcd itself does is external and stated in five operators (`Members`,
`HasQuorum`, `Healthy`, `JoinsBy`, `Admits`): a data directory
decides alone, *new* founds a cluster of the peers, *existing* wants the peers to be
the member list, and a member is added only while all listed ones answer.

### `KeyDistribution` and `KubeSecrets` – the same promise, twice

`KeyDistribution` says of the keys of hosts, on hosts, that one host is the source:
it makes a key only where it has none (`Make`), other hosts take copies of what it
holds (`Take`), a host loses its keys altogether (`Lose`), and the source may
move. `KubeSecrets` is the second role that does so, with more kinds of files
and masters that hold everyone's:

| State | Code |
|---|---|
| `first`, `masters`, `nodes` | `groups['kube-master'][0]`, the groups |
| `disk[d][f]` | file `f` in `/etc/kubernetes/ssl` of host `d`: its key's serial and its CA's |
| `signed` | the key the service-account tokens are signed with |
| `listing` | `kubecert_master`, registered before the script runs (`check-certs.yml:2-9`) |
| `gen`, `genNode`, `sync`, `secret` | facts `gen_certs`, `gen_node_certs`, `sync_certs`, `secret_changed` |
| `lead` | the host `run_once` picks in play `k8s-cluster` |
| `torn` | history: hosts whose unpack was cut, until one is not |

| Action | Code |
|---|---|
| `CheckCerts` | `check-certs.yml` |
| `RunScript`, `SkipScript` | `make-ssl.sh`, as `gen_certs_script.yml:48-64` calls it; `Made` follows the order of its text |
| `CompareCerts`, `Sync` | `gen_certs_script.yml:112-208` |
| `CutSync` | an unpack (`:183`, `:199`) cut between two files, in the order of the lists `:66-108` (`Position`, `Half`) |
| `EndNodePlay` | `handlers/main.yml`: `secret_changed`, on the host the script ran for |
| `EndMasterPlay` | the masters sign the first tokens of a new cluster |
| `RotateTokens` | `rotate_tokens/tasks/main.yml`, `cluster.yml:95` |
| `AddNode`, `AddMaster`, `MoveFirst`, `ResetHost`, `Fail` | as in `EtcdCerts` |

`Init` covers new clusters and those of a release whose apiserver key also signed
tokens (`OldReleases`, `make-ssl.sh:103-107`).

### `KubeModule` and `ClusterDNS` – calls, and a role made of calls

A call of `library/kube.py` starts (`Begin`: `LacksOption` is `fail_json` for a
missing option), looks before it deletes (`Look`, `LookUnanswered`), and has
`kubectl` handle its objects one after the other (`Apply`, `Remove`), which may
refuse one (`Admits`: a cluster IP that is taken), miss one (`MissIsError`) or break off
(`Break`); then it succeeds or fails (`Exit`) and the task registers the result
(`Return`). `objects[o]` is the revision of the file applied last. `Seen` is the
one thing about `kubectl get` that matters: for files it fails as soon as *one*
object is missing, for a type it prints those there are.

`ClusterDNS` is `roles/kubernetes-apps/ansible/tasks/main.yml`: wait for the apiserver, two
loops of deletions, one loop that applies what `dns_mode` asks for. `CallItem`
begins a call of the module for the first item, `KubeRuns` is any step of that
call, `Register` is what the loop does with a result (`until`, `retries`), and
`EndLoop` fails the run when an item failed for good. `Edit` changes the mode or the
release between runs, `StopRun` is a run that ends between two calls.

### `TerraformInventory` – two passes

One invocation of `terraform.py`. `ReadIp` and `EndIps` are the pass for floating
IPs, `ReadHost`, `RaiseHost`, `SkipOther` and `EndHosts` the one for servers; each file
is read when its pass gets to it, and its resources come in any order. Every
parser is an operator under its own name that returns the entry it makes, or nothing if it
raises; `List`, `Match` and `HostLine` are the three queries, `Addressed` and
`Lacking` are `iter_host_ips`. `TerraformApplies` adds or removes a resource in
between. `steady` is the set of servers that were there throughout.

## 4. What the runs check

Runs that pass (states are distinct states):

| Run | Instance | Shows |
|---|---|---|
| `certs_rerun` | 3 hosts, one a master only; 1 failure, which may cut an unpack anywhere, 2 edits out of node, etcd, reset, scale; fair runs; 727 000 states | `NodesConverged`, `MembersConverged`, `KeyVouches`, `KeysKept`, `EventuallyDeployed`: wherever a run fails, and with any two edits, the next run that completes has repaired everything, without replacing a key in use and without passing over a host whose key arrived without its other files; and such a run comes |
| `certs_torn` | 2 hosts, every kind of edit, 3 of them, 1 failure that may be a cut unpack or a killed script; 204 000 states | `KeysAgree`, `KeysDistributed`: what detection by key names and checksums still guarantees when pairs may be torn by the script and the first etcd host changes, and that even then keys move as `KeyDistribution` says |
| `secrets_rerun` | 3 hosts in any groups, new or of an old release; 1 failure, which may cut an unpack anywhere, 2 edits out of node, master, front, reset; the first master leads its play; fair runs; 1.7 million states | `NodesDeployed`, `MastersAgree`, `PairsConsistent`, `TokensAccepted`, `TokensSurvive`, `KeysDistributed`, `EventuallyDeployed`: although hosts are compared with a listing older than the script's files |
| `etcd_grow` | 4 hosts, a first group of 2 or 3, one address a part of another; 2 edits of up to 2 hosts, 2 failures, 1 outage: a member that dies, or hosts whose `etcdctl` errs; fair runs, fair processes; 143 000 states | `OneCluster`, `CompleteIsAssembled`, `QuorumKept`, `EventuallyAssembled` |
| `upgrade_rolling` | 2 masters one by one, 3 workers by two; 1 failure, 1 mishap (a kubelet that dies or one of the two queries without an answer), 1 edit of the administrator at any moment; masters alike and workers alike; 6.1 million states | `WorkersNotAhead`, `AdminRespected`, `StrandedBound`, `UpgradeComplete`, `RestartsDrained` |
| `upgrade_live` | 1 master, 2 workers, 2 failures, 1 mishap, fair runs; 808 000 states | `EventuallyUpgraded` |
| `dns_modes` | modes kubedns, coredns, coredns_dual, manual; 2 attempts, 2 releases, 2 edits, 1 failure, 2 outages; fair runs; 225 000 states | `CompleteServes`, `CompleteIsClean`, `EventuallyServed` |
| `kube_calls` | 2 services that want one cluster IP and an object without any; every combination of options, 2 outages, 2 releases; 49 000 states | `AppliedMeansCurrent`, `AbsentMeansGone` |
| `inventory_calls` | 5 addresses, numbers to 7, 2 arguments a call, threshold 4, 1 cut write; 289 000 states | `UniqueHosts`, `NamesKeepAddress`, `EtcdIsFirstThree`, `SmallRunsEverywhere`, `MasterExists` |
| `inventory_loads` | 2 addresses, files for `all` and `etcd`, 1 cut write; 128 000 states | `NoDangling` |
| `terraform_passes` | 2 state files, 9 providers, 2 ids, servers with and without each address, 3 associations, 1 change by terraform; 372 000 states | `ListIsRight`, `HostIsRight`, `NoServerLeftOut`, `AbortHasCause`, types |

Each type invariant is a theorem (`TypeCorrect`), so no run spends its time on one,
except `terraform_passes`: an address that is printed although it is missing would be a
parser's fault, and only the type says there is none.

Why these bounds are enough to be interesting. Three hosts give the certificate
models a first host, another one of the same group and a plain node, or three of either;
one failure can leave any subset of the hosts served and one host with any part of its archive, and
the runs after it act on that; two edits let a
host be reset after it was added, or the first master change after another one joined.
Two hosts are the fewest on which the first
etcd host can change, and three edits let it change, and change back, around a
killed script. Four etcd hosts let a group of two or three grow, by one host or by two,
once or twice, so that quorums change from two of two to three of four; one member that
dies, or one query that errs, makes *unhealthy* a lie in any run; of the two hosts
that may both be added one has an address that is a part of the other's, and two failures let a run stop both between *listed* and
*started* and in the run that repairs it. Two masters and three workers by two give
a play with a finished and an unfinished
master, and a full and a partial batch. Four modes and two edits take the DNS from any mode to
any other and back, or to another release, and two outages leave a service in place
and break off an apply of the same run. Two services with one address and an object without
are the fewest of which one can be refused while the rest succeed. Five addresses with a threshold of four
cross the threshold in both directions with a host to spare. Two files with two ids
put an association before, after, beside or apart from its server. The symmetry of
`upgrade_rolling` and of the inventory runs is over hosts and addresses no
definition tells apart, and those runs check safety only. Serials (`MaxSerial`) are reused
once nothing holds them, and a run that needed more would deadlock, which TLC
checks. Every passing
property is also broken by a mutant of the code's definitions under the same
instance (`PROJECT.json`, `mutants`), so none of them holds for want of
behaviours.

One run ends with a counterexample; it states a sentence of the repository, which
`PROJECT.json`, `findings`, quotes:

| Run | Property | What the code does |
|---|---|---|
| `secrets_rotation` | `TokensRotated` | the first master is reset, the script makes new keys, and the run fails before the rotation: the next run finds the files in place, skips the script and with it `secret_changed`, and completes with tokens the apiservers refuse. (The same happens without a failure where the first host of `k8s-cluster` is not the first master, as in the sample of `docs/ansible.md:64-66`; `TokensAccepted` excludes both) |

The models contain more that differs from what a reader of the docs or of the
code's comments expects, and that no run of its own is spent on:

- `scale.yml` runs the etcd script only if its first host happens to be the first etcd
  host, and completes without the new worker's pair otherwise
  (`gen_certs_script.yml:68-71`, `docs/getting-started.md:41`);
- a node that becomes an etcd member never gets a member pair
  (`gen_certs_script.yml:57-61`), which is the edit `promote`;
- where the first etcd host changes while hosts still hold files of different CAs, comparing keys is
  not enough (`check_certs.yml:60-65`): the first etcd host is reset and makes another CA, another
  etcd host, which has not been served since, is put first, `scale.yml` gives a worker its `ca.pem` but no pair, and with
  the former first host put back `cluster.yml` completes with a worker whose key is right
  and whose CA is not;
- a script killed between a node's key and its certificate leaves a key that
  counts as a pair (`check_certs.yml:47`), and no later run repairs it – which is why
  `certs_torn` checks keys and not pairs;
- an etcd host outside `k8s-cluster` has no `node-<h>-key.pem`, the only thing
  looked for, so every play makes its member pair again (`check_certs.yml:47`,
  `gen_certs_script.yml:62`);
- `secrets/tasks/check-certs.yml:59` looks for names like `apiserver.pem.pem`, so
  `gen_master_certs` is always true and the controllers' and administrators' pairs are made anew by every
  run of the Kubernetes script;
- a node that no run has yet served as a master and that is put first (the edit
  `usurp`) holds a CA without its key, and makes another one under the old one's name;
- an etcd group that goes from one host to three at once, with a run that fails in
  between, may found a second cluster: two newcomers configured as *new* are a
  majority of three (`etcd.env.j2:4`). `OneCluster` starts from two hosts or three;
- a host looks for itself in the member list with `grep -q` and its bare address
  (`configure.yml:96`, `join_etcd_member.yml:27`): a newcomer 10.0.0.1 is found in a
  cluster with 10.0.0.10, is never added, and a later run with nothing to restart completes
  without it;
- a newcomer whose own health check errs is configured as *new* while the cluster is
  healthy (`configure.yml:2-5`, `etcd.env.j2:4`), so that its data directory belongs to another
  cluster, and is never assembled. `CompleteIsAssembled` and `EventuallyAssembled` exclude
  both (`disturbed`); `OneCluster` does not, since newcomers are a minority of the groups it starts from;
- a host of the Kubernetes certificates whose unpack is cut holds half a pair or one of
  another CA until the next unpack (`secrets/tasks/gen_certs_script.yml:183`, `:199`), which is
  why `PairsConsistent` leaves out `torn` hosts; the next run does find them
  (`NodesDeployed`, `MastersAgree`), unless such a host has become the first master;
- a failure between the kubelet's launch script and `flush_handlers` loses the restart
  (`roles/kubernetes/node/tasks/main.yml:174`); the kubelet changes when systemd
  next starts it;
- a node whose drain failed is not drained by the next run, which restarts its
  kubelet under load, and a node a failed run has cordoned stays cordoned after
  a run that completes (`pre-upgrade/tasks/main.yml:24`): `StrandedBound` says how
  many there can be;
- of the two queries of a node, the first without an answer skips cordon and drain
  (`pre-upgrade/tasks/main.yml:10`, `ReadySilent`); the second without an answer has a node
  the administrator cordoned drained and *uncordoned* (`:14-20`, `SchedulableSilent`); and a node he
  cordons after the second query is uncordoned as well. `AdminRespected` names both
  as exceptions;
- Docker is restarted in a play before anything is drained
  (`upgrade-cluster.yml:31-42`), and on a master the apiserver precedes the network
  plugin (`upgrade-cluster.yml:78-81`), unlike the order of `docs/upgrades.md:64-69`;
- a look that gets no answer reads as *absent*, and the deletion reports success
  (`kube.py:142`); a deletion by files that broke off, called again, finds one object
  missing and reports success with the others left (`kube.py:181`, `:210`):
  `AbsentMeansGone` excludes both by name;
- nothing ever deletes the second CoreDNS and kube-dns's autoscaler
  (`cleanup_dns.yml:9-12`, `:35-37`), so `CompleteIsClean` is about the objects of
  those two loops only;
- a cluster grown past the threshold keeps its etcd hosts in `kube-node`
  (`inventory.py:237`), and the guards of `set_calico_rr` never hold
  (`inventory.py:228-231`, `docs/calico.md:93-95`);
- `MASSIVE_SCALE_THRESHOLD` is never read (`inventory.py:60`), and loading the
  group `all` drops its hosts' options (`inventory.py:290`);
- an entry without an id, harmless alone, aborts the call as soon as any floating IP
  exists (`terraform.py:683`); gce's guard against an empty list does not catch what
  it raises (`:520-525`), vsphere's default is evaluated in any case (`:555`), and of two
  servers with one name `--list` shows the last and `--host` the first (`:697`, `:712`).

### Fairness

Five runs assume weak fairness of `Run` and of the action that starts a run
(in `ClusterDNS` a disjunct of `Run`). The first is Ansible's own: a playbook that
has started goes on to its next task until it ends. The second is the operator's:
whoever runs Kubespray runs it again until it completes, which is what its documentation
asks for. `etcd_grow` adds weak fairness of `StartMember(h)` for every host: systemd
starts a service that has ended again after 15 seconds, for ever
(`etcd-docker.service.j2:13-14`). Nothing else is assumed of hosts, of failures or of the
administrator: failures, mishaps, outages and edits are bounded, so they stop, and
`<>[]` says what is then reached for good. Weak fairness of the whole of `Run`
is enough because a run's tasks are a finite sequence, whichever order its
hosts take; an attempt that fails consumes an outage or a retry.
`EventuallyAssembled` holds of undisturbed newcomers only: a run that wrote *new* for a
newcomer, because a member happened to be down or its query failed, may leave a group that no
rerun assembles.

## 5. What is proved

The proofs are in the eight modules `*Proofs`; every leaf is checked by `tlapm`. They
hold for all values of the constants that satisfy the assumptions the modules state
(`HostsAssumption`, `NodesAssumption`, `BatchAssumption`, …): any hosts, any
batch size, any number of failures.

**The refinement.** `KeysDistributedHolds` in
`EtcdCertsProofs` and in `KubeSecretsProofs` states that the module implements `KeyDistribution` with
the first host as the source and the serials of the node keys as its keys. Neither has conditions:
killed scripts, resets, other first hosts and failed runs are all included, since a
script never replaces a node key the first host has, and a host only takes what the
first host holds. `AgreedKeysStayHolds` draws the consequence for each: a key on
which host and source agree is kept or lost, never replaced. Both follow from the step
`KDStep`: every step of the role is one of `KeyDistribution`'s or changes no key.

**`EtcdCertsProofs`.** `TypeCorrect` and `KeysAgreeHolds` are unconditional as well. The
others assume `Regular`: the first etcd host stays the first, and the script is not killed
while it moves its files; unpacks may be cut anywhere. `MembersConvergedHolds` and `KeyVouchesHolds`
assume `FreshMembers` too: hosts join etcd before they hold a node key. Without these the properties fail (section 4 tells how),
and `certs_torn` checks what is left.

`NodesConverged` is far from inductive: why does a host that *was not* synced
hold a working pair? The invariant `IInv` answers in three layers.
*Disks*: everything on the first etcd host comes from its own CA (`FirstWhole`), and its
node pairs are of hosts of the groups (`Holders`); a host whose node key is the first etcd
host's has the pair, the CA and, if it joined fresh, the member pair that go with it
(`KeyMeansPair`) – this is what makes looking at keys sufficient. Of a host whose key
differs nothing is said: its archive may have been cut anywhere, and the order of the archive, with the
node key last, is what keeps `KeyMeansPair` (`ReceiveOwn`). *Facts*: between the check and
the script the facts still describe the disks (`FactsCurrent`). *Plays*: past
the script the first etcd host lacks nothing (`FirstComplete`), hosts of the play that need no
sync or have had it are served (`PlayServed`), and the second play does not undo
the first (`EtcdServed`). What these say of member pairs they say of `Members`, the etcd
hosts that joined fresh. `KeysKept` follows from the same invariant: a run only
overwrites pairs that differ from the first host's. `KeyVouches` is `KeyMeansPair` with `FirstWhole`.

`KeysAgree` needs none of this, as it follows the keys alone (`KeysInv`): the facts were
true when they were set (`FactsOfCheck`), past the script of the etcd play the first
host has a key for every node (`KeysMade`), and in the play over the nodes who needs
no sync, or has had it, has that key (`KeysSpread`).

**`KubeSecretsProofs`.** `TypeCorrect`, `TokensSurviveHolds` and the refinement are
unconditional. Unpacks may be cut anywhere in all of it. Convergence and consistency assume `NoUsurper`: no node that no run has yet served as a
master is put first. Other hosts, those whose unpack was cut aside, may become the first master at any time, also
between failed runs, so the invariant speaks of *every* host's disk whose unpack was not cut (`AllWhole`) and not only of the first's:
its pairs come from the CA beside them, and the key of a CA is beside its certificate (`Whole`), the first master has both or
neither (`FirstKeyed`), and hosts hold such files only while they want them (`Holders`), so that
what is copied to a host replaces all of them. That is what makes `MoveFirst` harmless
(`MoveDisk`). A torn host holds nothing it does not want, and so is repaired by the next whole
unpack (`SyncInv`, `CutDisk`). The administrators' pairs are no part of `Whole`: a former first master keeps those of
others that its successor's CA never signed. During a run, the listing is what the first
master holds until the script runs (`FactsCurrent`), the first master lacks nothing after it
(`FirstComplete`), and a host that is not to be served holds what the first master has
(`AllServed`, `NoneLeft`). The comparison with
the *old* listing is sound because, the controllers' and administrators' pairs apart, the
script replaces no file the listing has: a host whose files are those of the listing holds
what the first master holds now.

`TokensAcceptedHolds` follows the service account key (`TokenInv`, for as long as no run
has failed): only masters have it (`MastersOnly`); between runs and up to the script every host that has one has
the key the tokens were signed with (`OneServiceKey`); after the script a host with another key than
the first master's is yet to be found out or served, and only the script can have drawn a new one
(`ServiceKeySpread`); and by the time of the rotation `secret_changed` says whether it did
(`Told`), because the first master leads the play (`RunLed`).

**`EtcdClusterProofs`.** `TypeCorrect` needs `PeersGiven`: a host's configuration names
at least one peer once there is one, so that no process runs without data. `QuorumIsKept` holds for any group and any growth: a cluster
with a quorum still has one after a start (more members up, `QuorumMonotone`) and after `member add`, which
etcd takes only when all members are up (`QuorumWithOneMore`: n of n + 1 is a majority for n > 1);
no other action touches processes or lists, except the handler and a death. Both lemmas are about cardinalities and
cite the library's theorems on finite sets.

`OneClusterHolds` names the *core*: the group at the first `EnsureRunning`. Until then
nothing has bootstrapped (`Before`); from then on hosts of the core are in its cluster or can only
found it, every other cluster lists the whole core, whose hosts never come to it, and every
configuration that says *new* does so too (`Core`). A second cluster would need a majority without the core, hence more than
twice as many hosts (`SecondIsLarger`): `AtMostDoubles` assumes that there are never
that many. The assumption is needed – one host and two added at once may found a second cluster –
and a group that starts with three hosts can grow to six.

`CompleteIsAssembledHolds` has no such condition, as `disturbed` already excludes
what a careful operator does not do and what queries that err or match too much bring about; and
`CarefulIsOneCluster` says that an undisturbed group, however far it
grows, never has a data directory of a second cluster. Their invariant (`Careful`) follows the one newcomer
there can be: nothing is known of hosts outside the group (`OnlyCore`), no other newcomer
arrives while one is left (`FewNewcomers`), how far the newcomer has come – listed, configured, started –
is tied to the step of the run and survives a run that stops (`Newcomer`), and what the run registered of the member
list is still true when it uses it (`RunKnows`); that nobody but a member finds itself in the list is
`ListedCareful`.

**`KubeModuleProofs` and `ClusterDNSProofs`.** For the module, `Looking` says
that a call that looks is a deletion with all its objects to do, and `Handled` that what a
running command has gone through without a refusal is done. For the role, `OneHolder` (the shared address has one service),
`CallTrue` (the call under way is the present item's, with the module's own `Handled`), `Started`
(items that succeeded are current) and `GoneBehind` (items the deletions went through with answered
looks are gone) make `CompleteServes` and `CompleteIsClean` inductive for any number of
attempts, outages, edits and failures.

**`NodeUpgradeProofs`.** No conditions. `Shape` ties play, batch and task
together. `WorkersNotAhead` rests on `MastersFirst` (masters whose turn has come
and gone serve the target version, and all of them do once the workers' play
begins) and `Behind` (no kubelet is ahead of its file, no file ahead of the
target, and no worker's file ahead of an apiserver): a kubelet that systemd
restarts runs what the *file* says, so the invariant has to be about files.
`UpgradeComplete` rests on `CompleteInv`, which follows each host through the tasks of its play:
one that has left the queue, or whose batch is past a task, has run it *in this run*
(`HasRun`) and holds what that task writes (`Written`), and while no run has failed
a kubelet runs its file's version or its handler is still to come (`KubeletsFollow`); apiservers come
from `MastersFirst`. `AdminRespected`, `StrandedBound` and `RestartsDrained` rest on `ServiceInv`:
of the nodes the batch is committed to uncordon (`Decided`) only overlooked ones are the
administrator's, and all his others are cordoned (`Own`); the batch is empty, but for overlooked
nodes, between drain and uncordon (`Emptied`); and what neither he nor the batch accounts for, the
leavings of failed runs, is at most one batch each (`StrandedFew`, with the library's theorems on
cardinality). `DecidedByTask` says how each task changes `Decided`, which is
what lets the administrator act between any two of them.

**`InventoryBuilderProofs`.** `TypeCorrect` and `NoDanglingHolds` are
unconditional. The others assume `Loads = {}`, since `load` puts any name in any group.
The invariant: numbers rise along the file and along the hosts of a call
(`Rising`), every address occurs once, the next number is above all of them, and
each host of a call is inherited or newer than the file (`CallInv`); deletions
keep the order. Hence the first three hosts after a call include every old
first-three host that survived, which is why a group that is only ever added to
is the first three hosts (`EtcdIsFirstThree`), and why no call gives a name
the file has, even one it deletes, to another address (`NamesKeepAddress`). That is about one call: when the highest
number is deleted by one call, a later one may give it to another address (the FIXME at `inventory.py:152`). `MasterExistsHolds` also needs a threshold
of at least four: with three, `list[3:5]` of a three-host cluster is empty.

**`TerraformInventoryProofs`.** The module assumes what `terraform.py` gives: every server has
one of the types `PARSERS` knows (`ServersAssumption`), an association has an address
(`FloatingAssumption`), and a blank address is one (`BlankAssumption`). While terraform is quiet, `QuietInv` says that each
pass has gathered exactly what the resources it has handled say: those of the files behind it and of the
present file less the pending ones (`Handled`, `IpsFrom`, `ListFrom`, `NotFoundIn`). So at the end of a pass it
has gathered what all files say, in whatever order they came; `ListIsRight`, `HostIsRight`
and `AbortHasCause` follow. `NoServerLeftOut` is about a terraform that is not quiet: a server
that stays is told already or still to come, and terraform cannot bring one back into a file, since what
it adds no file has (`SteadyInv`, `Told`).

## 6. What is only model-checked, and what is not modelled

Only model-checked:

- liveness (`EventuallyDeployed` of both certificate modules, `EventuallyUpgraded`,
  `EventuallyAssembled`, `EventuallyServed`): it rests on fairness, hence on `ENABLED`,
  which is out of the prover's reach;
- the counterexample, by nature.

Neither model-checked nor proved, because it does not hold: what is said of etcd's *pairs*
when its first host changes or a script is killed, of Kubernetes' when a usurper is
put first, of a Kubernetes host's files right after its own unpack was cut, and of an etcd group or an administrator's cordon where an ignored error
stands for an answer (section 4). `KeysAgree` and the refinement hold nevertheless.

Not modelled, within the modelled components:

- `cert_management: vault`, and `etcd-events`, which repeats the etcd tasks for a
  second cluster;
- in `EtcdCluster`, members that leave, data that is lost, the backup before a restart,
  and *which* certificate a process has read;
- in `KubeSecrets`, a script that is killed (`make-ssl.sh:106`, `:151` write file after file, as
  etcd's does), a first master whose own unpack had been cut before, the runs of `scale.yml` and
  `upgrade-cluster.yml`, which have the role too, `known_tokens.csv` (`check-tokens.yml`, `gen_tokens.yml`), and the filter
  by which `rotate_tokens` picks secrets by name;
- in `ClusterDNS`, the deletions after `kubeadm init`, accounts and roles, which
  nothing deletes, and `dnsmasq_kubedns`;
- in `NodeUpgrade`, the handler that restarts Docker after its packages are installed, and may be
  lost like the kubelet's, the scheduler and controller manager (their manifests follow
  the apiserver's), the etcd plays between Docker and the masters, and the add-on
  plays after the workers; the kubeadm and rkt deployments of the kubelet;
- in `InventoryBuilder`, ranges of addresses that a user would have to write in
  full, `HOST_PREFIX`, the commands that print, and the children of
  `k8s-cluster`, which are the same in every file;
- in `TerraformInventory`, attributes that are only copied into hostvars, and with them the
  other ways a parser raises (digitalocean's or softlayer's `user_data` that is no JSON, a Boolean `parse_bool` does not know, an
  OpenStack server without an image name), state files that are no JSON, and the directory walk that finds the
  files.

Not modelled at all: the components the plan lists as planned, and those
without state of their own (templates, packages), for the
reason given in `PROJECT.json`. The repository's program text in the narrow sense – Python,
shell, notebooks – is 25,900 lines, of which 19,000 are one vendored archive
(`roles/bootstrap-os/files/get-pip.py`) and 5,000 the cells of example notebooks
(`customized/nvidia`); neither has behaviour of Kubespray's. Of the rest,
`inventory.py`, `kube.py`, `terraform.py` and the two certificate scripts are modelled. Most of what the
models stand for is in task files, handlers and templates.

## 7. Running it

```
tlc -config certs_rerun.cfg      EtcdCerts.tla
tlc -config certs_torn.cfg       EtcdCerts.tla
tlc -config secrets_rerun.cfg    KubeSecrets.tla
tlc -config secrets_rotation.cfg KubeSecrets.tla      # ends with the counterexample
tlc -config etcd_grow.cfg        EtcdClusterMC.tla
tlc -config upgrade_rolling.cfg  NodeUpgradeMC.tla
tlc -config upgrade_live.cfg     NodeUpgradeMC.tla
tlc -config dns_modes.cfg        ClusterDNS.tla
tlc -config kube_calls.cfg       KubeModuleMC.tla
tlc -config inventory_calls.cfg  InventoryBuilderMC.tla
tlc -config inventory_loads.cfg  InventoryBuilderMC.tla
tlc -config terraform_passes.cfg TerraformInventoryMC.tla

tlapm EtcdCertsProofs.tla        # and each of the other *Proofs modules
```

The longest runs take about three minutes.

------------------------------ MODULE EtcdCerts ------------------------------
(***************************************************************************)
(* The certificates of the etcd cluster as roles/etcd makes and spreads    *)
(* them when cert_management is "script" (tasks/check_certs.yml,           *)
(* tasks/gen_certs_script.yml, files/make-ssl-etcd.sh), driven by the      *)
(* plays of cluster.yml and scale.yml that include the role, with runs     *)
(* that stop half-way and are started again, hosts that are reset, and an  *)
(* inventory edited between runs.                                          *)
(*                                                                         *)
(* Abstractions:                                                           *)
(*  - A key is a serial drawn fresh by the run of the script that made it; *)
(*    a certificate is the serial of its key and the serial of the CA that *)
(*    signed it; the CA's serial is that of its own key.                   *)
(*  - "member" stands for the member-<h> and admin-<h> pairs, which the    *)
(*    script makes together and the role copies together.  Of four files   *)
(*    of which some are new the certificate is taken for new and the key   *)
(*    for old, or the other way round: what matters is that they differ.   *)
(*  - A file is written whole or not at all.  An unpack may be cut between *)
(*    any two files (CutUnpack), and so may the script's mv (KillScript);  *)
(*    while nothing cuts them each is one step, as only the next task      *)
(*    reads the files.                                                     *)
(*  - Hosts outside a play's targets do nothing, and the tasks of the role *)
(*    that touch no certificate (directories, modes, the openssl config,   *)
(*    installing etcd itself) are left out.                                *)
(***************************************************************************)
EXTENDS Naturals, FiniteSets

CONSTANTS
  Hosts,        \* every machine that may ever be in the inventory
  MasterOnly,   \* kube-master hosts outside kube-node: scale.yml skips them
  MaxSerial,    \* bound: serials that may be in use at one time
  MaxFailures,  \* bound: playbook runs that stop half-way
  MaxEdits,     \* bound: operator actions between runs
  Edits,        \* the operator actions allowed, a subset of EditKinds
  TornInstall   \* TRUE if the script may be killed while it installs files

\* What an operator does between two runs: put a host in k8s-cluster, put a
\* fresh host in etcd, put a host that already is a node in etcd, make
\* another etcd host the first one, reset a host, run scale.yml.
EditKinds == {"node", "etcd", "promote", "front", "reset", "scale"}

ASSUME HostsAssumption == Hosts # {} /\ MasterOnly \subseteq Hosts
ASSUME BoundsAssumption == MaxSerial \in Nat /\ MaxFailures \in Nat /\ MaxEdits \in Nat
ASSUME EditsAssumption == Edits \subseteq EditKinds /\ TornInstall \in BOOLEAN

VARIABLES
  first,     \* groups['etcd'][0], where the CA lives
  etcd,      \* groups['etcd']
  nodes,     \* groups['k8s-cluster'] and groups['calico-rr']
  ca,        \* ca[d]: ca.pem and ca-key.pem on host d
  node,      \* node[d][h]: node-<h>.pem and node-<h>-key.pem on host d
  member,    \* member[d][h]: member-<h> and admin-<h> files on host d
  play,      \* the play under way
  step,      \* the task file the play has reached
  lead,      \* the first host of the play, where run_once tasks run
  gen,       \* fact gen_certs
  genNode,   \* fact gen_node_certs, as the set of hosts it maps to True
  sync,      \* hosts whose fact sync_certs is true and still to be served
  failures, edits

inventory == <<first, etcd, nodes>>
disks     == <<ca, node, member>>
facts     == <<lead, gen, genNode, sync>>
vars      == <<inventory, disks, play, step, facts, failures, edits>>

-----------------------------------------------------------------------------
Serial == 1 .. MaxSerial
None   == 0
MaybeSerial == Serial \cup {None}

\* A key and certificate file, each None when the file is absent; ca is the
\* CA that signed the certificate.
Pairs  == [key : MaybeSerial, pem : MaybeSerial, ca : MaybeSerial]
NoPair == [key |-> None, pem |-> None, ca |-> None]
CAs    == [pem : MaybeSerial, key : MaybeSerial]
NoCA   == [pem |-> None, key |-> None]

\* The pair works: the certificate belongs to the key and its issuer is the
\* CA the host trusts.
Usable(p, c) == p.key # None /\ p.pem = p.key /\ p.ca = c.pem /\ c.pem # None

Serials(d, h) == {node[d][h].key, node[d][h].pem, node[d][h].ca,
                  member[d][h].key, member[d][h].pem, member[d][h].ca}

InUse == (UNION {{ca[d].pem, ca[d].key} : d \in Hosts})
           \cup (UNION {Serials(d, h) : d \in Hosts, h \in Hosts})

Fresh(n) == n \in Serial \ InUse /\ \A m \in Serial \ InUse : n <= m

\* The hosts of the play.
Targets == CASE play = "etcd"  -> etcd
             [] play = "nodes" -> nodes
             [] play = "scale" -> nodes \ MasterOnly
             [] OTHER          -> {}

TypeOK ==
  /\ first \in Hosts /\ etcd \in SUBSET Hosts /\ nodes \in SUBSET Hosts
  /\ first \in etcd
  /\ ca \in [Hosts -> CAs]
  /\ node \in [Hosts -> [Hosts -> Pairs]]
  /\ member \in [Hosts -> [Hosts -> Pairs]]
  /\ play \in {"none", "etcd", "nodes", "scale"}
  /\ step \in {"idle", "check", "generate", "sync", "done", "scaled"}
  /\ lead \in Hosts /\ gen \in BOOLEAN
  /\ genNode \in SUBSET Hosts /\ sync \in SUBSET Targets
  /\ failures \in 0 .. MaxFailures /\ edits \in 0 .. MaxEdits

\* Any inventory, and machines kubespray has not touched yet.
Init ==
  /\ first \in Hosts /\ etcd \in SUBSET Hosts /\ nodes \in (SUBSET Hosts) \ {{}}
  /\ first \in etcd
  /\ ca = [d \in Hosts |-> NoCA]
  /\ node = [d \in Hosts |-> [h \in Hosts |-> NoPair]]
  /\ member = [d \in Hosts |-> [h \in Hosts |-> NoPair]]
  /\ play = "none" /\ step = "idle"
  /\ lead = first /\ gen = FALSE /\ genNode = {} /\ sync = {}
  /\ failures = 0 /\ edits = 0

-----------------------------------------------------------------------------
(***************************************************************************)
(* The plays.  cluster.yml runs the role on etcd, then on k8s-cluster and  *)
(* calico-rr; scale.yml runs it on kube-node only.                         *)
(***************************************************************************)
AtRest == step \in {"idle", "done", "scaled"}

Enter(p, leader) ==
  /\ play' = p /\ step' = "check"
  /\ lead' = leader /\ gen' = FALSE /\ genNode' = {} /\ sync' = {}

Leave(s) ==
  /\ play' = "none" /\ step' = s
  /\ lead' = first' /\ gen' = FALSE /\ genNode' = {} /\ sync' = {}

StartCluster ==
  /\ AtRest
  /\ Enter("etcd", first)
  /\ UNCHANGED <<inventory, disks, failures, edits>>

StartScale ==
  /\ AtRest /\ "scale" \in Edits /\ edits < MaxEdits
  /\ \E leader \in nodes \ MasterOnly : Enter("scale", leader)
  /\ edits' = edits + 1
  /\ UNCHANGED <<inventory, disks, failures>>

\* any_errors_fatal: a task that fails, or a lost connection, ends the run
\* where it is.  Facts die with the run, files stay.
Fail ==
  /\ ~AtRest /\ failures < MaxFailures
  /\ failures' = failures + 1
  /\ UNCHANGED inventory
  /\ Leave("idle")
  /\ UNCHANGED <<disks, edits>>

\* check_certs.yml: what the first etcd host lacks is to be generated; the
\* node key stands for everything of its host.
MissingOfNodes == {h \in nodes : node[first][h].key = None}
MissingAlways  == nodes \cup etcd
Missing        == {h \in nodes \cup etcd : node[first][h].key = None}

\* The host's own files are missing, or its node key is not the one the first
\* etcd host holds.
StaleIfAbsent(h) == ca[h].pem = None \/ node[h][h].key = None
StaleNever(h)    == FALSE
Stale(h) == \/ ca[h].pem = None
            \/ node[h][h].key = None
            \/ node[h][h].key # node[first][h].key

CheckCerts ==
  /\ step = "check"
  /\ genNode' = Missing
  /\ gen' = (ca[first].pem = None \/ Missing # {})
  /\ sync' = {h \in Targets : h \in Missing \/ Stale(h)}
  /\ step' = "generate"
  /\ UNCHANGED <<inventory, disks, play, lead, failures, edits>>

\* The files written so far into a certificate directory: the CA's key and
\* certificate, keys and certificates of member pairs and of node pairs.
Moves == [caKey : BOOLEAN, caPem : BOOLEAN,
          mKey : SUBSET Hosts, mPem : SUBSET Hosts,
          nKey : SUBSET Hosts, nPem : SUBSET Hosts]

AllMoved(masters, hosts) ==
  [caKey |-> TRUE, caPem |-> TRUE, mKey |-> masters, mPem |-> masters,
   nKey |-> hosts, nPem |-> hosts]

\* make-ssl-etcd.sh:98 moves them in the order of their names: admin-<h>
\* (mKey here), ca-key, ca, member-<h> (mPem here), then for each host
\* node-<h>-key and node-<h>.
Interrupted(m, masters, hosts) ==
  /\ m # AllMoved(masters, hosts)
  /\ m.mKey \subseteq masters /\ m.mPem \subseteq masters /\ m.nKey \subseteq hosts
  /\ m.caKey => m.mKey = masters
  /\ m.caPem => m.caKey
  /\ m.mPem # {} => m.caPem
  /\ m.nKey # {} => m.caPem /\ m.mPem = masters
  /\ m.nPem \subseteq m.nKey /\ \A x, y \in m.nKey \ m.nPem : x = y

Moved(pairs, keys, pems, n, c) ==
  [h \in Hosts |-> [key |-> IF h \in keys THEN n ELSE pairs[h].key,
                    pem |-> IF h \in pems THEN n ELSE pairs[h].pem,
                    ca  |-> IF h \in pems THEN c ELSE pairs[h].ca]]

Install(m, n, c) ==
  /\ ca' = [ca EXCEPT ![first] = [pem |-> IF m.caPem THEN c ELSE @.pem,
                                  key |-> IF m.caKey THEN c ELSE @.key]]
  /\ member' = [member EXCEPT ![first] = Moved(@, m.mKey, m.mPem, n, c)]
  /\ node' = [node EXCEPT ![first] = Moved(@, m.nKey, m.nPem, n, c)]

\* The tasks that run the script are skipped unless the play's first host is
\* the first etcd host (gen_certs_script.yml:68-70).
ScriptRuns == gen /\ lead = first

\* The script keeps a CA whose key exists; it then needs the certificate.
SignerOf(n) == IF ca[first].key = None THEN n ELSE ca[first].key
CanSign == ca[first].key # None => ca[first].pem = ca[first].key

RunScript ==
  /\ step = "generate" /\ ScriptRuns /\ CanSign
  /\ \E n \in Serial :
       /\ Fresh(n)
       /\ Install(AllMoved(etcd \cap genNode, nodes \cap genNode), n, SignerOf(n))
  /\ step' = "sync"
  /\ UNCHANGED <<inventory, play, facts, failures, edits>>

KillScript ==
  /\ step = "generate" /\ ScriptRuns /\ CanSign /\ TornInstall
  /\ failures < MaxFailures
  /\ \E n \in Serial, m \in Moves :
       /\ Fresh(n)
       /\ Interrupted(m, etcd \cap genNode, nodes \cap genNode)
       /\ Install(m, n, SignerOf(n))
  /\ failures' = failures + 1
  /\ UNCHANGED inventory
  /\ Leave("idle")
  /\ UNCHANGED edits

\* A CA key without its certificate, or with another CA's: every run fails.
ScriptRefuses ==
  /\ step = "generate" /\ ScriptRuns /\ ~CanSign
  /\ UNCHANGED inventory
  /\ Leave("idle")
  /\ UNCHANGED <<disks, failures, edits>>

SkipScript ==
  /\ step = "generate" /\ ~ScriptRuns
  /\ step' = "sync"
  /\ UNCHANGED <<inventory, disks, play, facts, failures, edits>>

\* An etcd host is sent the CA's key, its member pair and every node's pair;
\* any other host the CA's certificate and its own pair.
Archive(h) ==
  IF h \in etcd
  THEN [caKey |-> TRUE, caPem |-> TRUE, mKey |-> {h}, mPem |-> {h}, nKey |-> nodes, nPem |-> nodes]
  ELSE [caKey |-> FALSE, caPem |-> TRUE, mKey |-> {}, mPem |-> {}, nKey |-> {h}, nPem |-> {h}]

\* The first files of the archive, in the order tar packs them: the CA's key,
\* the member pair, the CA's certificate, the node pairs; of a pair the
\* certificate comes before the key (gen_certs_script.yml:75-92).
InOrderOfNames(m) ==
  /\ m.mPem \subseteq m.mKey /\ m.nPem \subseteq m.nKey
  /\ \A x, y \in m.nKey \ m.nPem : x = y
InOrder(m) ==
  /\ m.mKey \subseteq m.mPem /\ m.nKey \subseteq m.nPem
  /\ \A x, y \in m.nPem \ m.nKey : x = y

Parts(a) == [caKey : BOOLEAN, caPem : BOOLEAN,
             mKey : SUBSET a.mKey, mPem : SUBSET a.mPem,
             nKey : SUBSET a.nKey, nPem : SUBSET a.nPem]

Prefix(m, a) ==
  /\ m.caKey => a.caKey
  /\ m.mPem # {} => m.caKey
  /\ m.caPem => m.mKey = a.mKey /\ m.caKey = a.caKey
  /\ m.nPem # {} => m.caPem
  /\ InOrder(m)

\* tar packs the files that exist (its exit status is lost in the pipe), so
\* unpacking leaves the others as they were.
Unpack(new, old, keyToo, pemToo) ==
  [key |-> IF keyToo /\ new.key # None THEN new.key ELSE old.key,
   pem |-> IF pemToo /\ new.pem # None THEN new.pem ELSE old.pem,
   ca  |-> IF pemToo /\ new.pem # None THEN new.ca  ELSE old.ca]

UnpackCA(new, old, keyToo, pemToo) ==
  [pem |-> IF pemToo /\ new.pem # None THEN new.pem ELSE old.pem,
   key |-> IF keyToo /\ new.key # None THEN new.key ELSE old.key]

\* Host h unpacks the files m of those the first etcd host holds.
Receive(h, m) ==
  /\ ca' = [ca EXCEPT ![h] = UnpackCA(ca[first], @, m.caKey, m.caPem)]
  /\ node' = [node EXCEPT ![h] = [x \in Hosts |->
                Unpack(node[first][x], @[x], x \in m.nKey, x \in m.nPem)]]
  /\ member' = [member EXCEPT ![h][h] =
                  Unpack(member[first][h], @, h \in m.mKey, h \in m.mPem)]

SyncHost(h) ==
  /\ step = "sync" /\ h \in sync \ {first}
  /\ Receive(h, Archive(h))
  /\ sync' = sync \ {h}
  /\ UNCHANGED <<inventory, play, step, lead, gen, genNode, failures, edits>>

\* A host is lost, or its disk fills up, while it unpacks: the files it wrote
\* stay, and the run ends.
CutUnpack(h) ==
  /\ step = "sync" /\ h \in sync \ {first} /\ failures < MaxFailures
  /\ \E m \in Parts(Archive(h)) :
       /\ Prefix(m, Archive(h)) /\ m # Archive(h)
       /\ Receive(h, m)
  /\ failures' = failures + 1
  /\ UNCHANGED inventory
  /\ Leave("idle")
  /\ UNCHANGED edits

Synced == step = "sync" /\ sync \subseteq {first}

\* upd_ca_trust.yml copies ca.pem, and so fails on a host without it.
TrustsCA == \A h \in Targets : ca[h].pem # None

EndEtcdPlay ==
  /\ Synced /\ play = "etcd" /\ TrustsCA
  /\ \E leader \in nodes : Enter("nodes", leader)
  /\ UNCHANGED <<inventory, disks, failures, edits>>

EndRun ==
  /\ Synced /\ TrustsCA
  /\ play \in {"nodes", "scale"}
  /\ UNCHANGED inventory
  /\ Leave(IF play = "nodes" THEN "done" ELSE "scaled")
  /\ UNCHANGED <<disks, failures, edits>>

NoCAToTrust ==
  /\ Synced /\ ~TrustsCA
  /\ UNCHANGED inventory
  /\ Leave("idle")
  /\ UNCHANGED <<disks, failures, edits>>

-----------------------------------------------------------------------------
(***************************************************************************)
(* What the operator does between runs.                                    *)
(***************************************************************************)
Edit(kind) ==
  /\ AtRest /\ kind \in Edits /\ edits < MaxEdits
  /\ edits' = edits + 1
  /\ Leave("idle")
  /\ UNCHANGED failures

AddNode(h) ==
  /\ h \notin nodes
  /\ nodes' = nodes \cup {h}
  /\ UNCHANGED <<first, etcd>>
  /\ Edit("node")
  /\ UNCHANGED disks

AddEtcd(h) ==
  /\ h \notin etcd
  /\ etcd' = etcd \cup {h}
  /\ UNCHANGED <<first, nodes>>
  /\ Edit(IF node[first][h].key = None THEN "etcd" ELSE "promote")
  /\ UNCHANGED disks

MoveFirst(h) ==
  /\ h \in etcd \ {first}
  /\ first' = h
  /\ UNCHANGED <<etcd, nodes>>
  /\ Edit("front")
  /\ UNCHANGED disks

\* roles/reset removes /etc/ssl/etcd.
Reset(h) ==
  /\ UNCHANGED inventory
  /\ Edit("reset")
  /\ ca' = [ca EXCEPT ![h] = NoCA]
  /\ node' = [node EXCEPT ![h] = [x \in Hosts |-> NoPair]]
  /\ member' = [member EXCEPT ![h] = [x \in Hosts |-> NoPair]]

Operator ==
  \/ StartScale
  \/ \E h \in Hosts : AddNode(h) \/ AddEtcd(h) \/ MoveFirst(h) \/ Reset(h)

Run ==
  \/ CheckCerts \/ RunScript \/ ScriptRefuses \/ SkipScript
  \/ (\E h \in Hosts : SyncHost(h))
  \/ EndEtcdPlay \/ EndRun \/ NoCAToTrust

Interruption == Fail \/ KillScript \/ \E h \in Hosts : CutUnpack(h)

Next == StartCluster \/ Run \/ Interruption \/ Operator

Spec == Init /\ [][Next]_vars

\* Ansible goes on with a run it has started, and the operator starts
\* cluster.yml again until it completes; failures and edits stop at their
\* bounds.
FairSpec == Spec /\ WF_vars(Run) /\ WF_vars(StartCluster)

-----------------------------------------------------------------------------
(***************************************************************************)
(* Properties.                                                             *)
(***************************************************************************)

\* Host h can talk to etcd: its node pair works under the CA it trusts, and
\* that is the CA of the first etcd host.
Deployed(h) == Usable(node[h][h], ca[h]) /\ ca[h].pem = ca[first].pem

MemberDeployed(h) == Usable(member[h][h], ca[h]) /\ ca[h].pem = ca[first].pem

\* When cluster.yml completes, whatever runs failed before it and wherever
\* they stopped, every node holds a working pair under the first etcd host's
\* CA (check_certs.yml decides what to generate and to sync from the files
\* earlier runs left).
NodesConverged == step = "done" => \A h \in nodes : Deployed(h)

\* The same of the member pairs, when the etcd hosts are fresh hosts and the
\* first of them stays the first.
MembersConverged == step = "done" => \A h \in etcd : MemberDeployed(h)

\* What check_certs.yml concludes from the node key alone is right.  When it
\* looks, whatever runs failed before and wherever an unpack was cut, a host
\* whose node key is the one the first etcd host holds has the pair, the CA
\* and, in etcd, the member pair that go with it, so it may be passed over
\* (check_certs.yml:60-65 reads no other file of the pair; the archive of
\* gen_certs_script.yml:75-92 has the node key last).
KeyVouches ==
  AtRest \/ step = "check" =>
    \A h \in Hosts :
      node[h][h].key # None /\ node[h][h].key = node[first][h].key
      => Deployed(h) /\ (h \in etcd => MemberDeployed(h))

\* When cluster.yml completes, every node's key is the one the first etcd host
\* holds for it, whichever files a killed script moved and whichever etcd host
\* was the first before (check_certs.yml:60-65 compares the keys).
KeysAgree ==
  step = "done" =>
    \A h \in nodes : node[h][h].key = node[first][h].key /\ node[h][h].key # None

\* A node key that the host and the first etcd host agree on is never
\* replaced by a later run: only a reset takes it away (gen_node_certs maps
\* to True only the hosts whose key is missing).
KeysKept ==
  [][\A h \in Hosts :
       /\ node[h][h].key # None /\ node[h][h].key = node[first][h].key
       => node'[h][h] \in {node[h][h], NoPair}]_vars

\* Once runs stop failing and the inventory settles, every node ends up
\* deployed and stays so.
EventuallyDeployed == <>[](\A h \in nodes : Deployed(h))

\* The node keys of the hosts are made, spread and lost as KeyDistribution
\* says, wherever a run stops and a script is killed, and whichever etcd host
\* comes first: no step puts a key on a host that the first etcd host does not
\* hold, or makes a second key where the first etcd host has one.
KD == INSTANCE KeyDistribution
        WITH source <- first, Key <- Serial,
             keys <- [d \in Hosts |-> [h \in Hosts |-> node[d][h].key]]
KeysDistributed == KD!KeysSpec
=============================================================================

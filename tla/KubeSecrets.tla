----------------------------- MODULE KubeSecrets -----------------------------
(***************************************************************************)
(* The certificates of Kubernetes as roles/kubernetes/secrets makes and    *)
(* spreads them when cert_management is "script" (tasks/check-certs.yml,   *)
(* tasks/gen_certs_script.yml, files/make-ssl.sh), and the service account *)
(* tokens that kubernetes-apps/rotate_tokens renews when the key they are  *)
(* signed with is a new one, driven by cluster.yml, with runs that fail    *)
(* and are started again, hosts that are reset, and an inventory edited    *)
(* between runs.                                                           *)
(*                                                                         *)
(* Abstractions:                                                           *)
(*  - A file is named by its kind and the hosts it is for.  It stands for  *)
(*    a key and its certificate where there are both: the serial of the    *)
(*    run of the script that drew the key, and the CA that signed it.      *)
(*  - "ctl" stands for the scheduler's, the controller manager's and the   *)
(*    front proxy's pairs, "node" for the kubelet's and kube-proxy's; the  *)
(*    script makes and the role copies them together.                      *)
(*  - All service account tokens are signed with one key.                  *)
(*  - An unpack may be cut between any two files (CutSync).  The script,   *)
(*    with its mv of one file after the other, is not killed (module       *)
(*    EtcdCerts has that case): it is one step, as is an unpack that is    *)
(*    not cut, and only the tasks after it read what it wrote.             *)
(*  - known_tokens.csv and file modes are left out, and so are scale.yml   *)
(*    and upgrade-cluster.yml, which run the role as well.                 *)
(***************************************************************************)
EXTENDS Naturals, FiniteSets

CONSTANTS
  Hosts,        \* every machine that may ever be in the inventory
  MaxSerial,    \* bound: serials that may be in use at one time
  MaxFailures,  \* bound: runs that fail
  MaxEdits,     \* bound: operator actions between runs
  Edits,        \* the operator actions allowed, a subset of EditKinds
  OldReleases,  \* whether the cluster may be one of a release without a key
                \* of its own for service accounts
  FirstLeads    \* whether the inventory lists the first master before every
                \* other host of k8s-cluster

\* Put a host in kube-node, put a host in kube-master, make another master
\* the first one (one that a run has served or an empty host, or "usurp": a
\* node that no run has yet served as a master), reset a host.
EditKinds == {"node", "master", "front", "usurp", "reset"}

ASSUME HostsAssumption == Hosts # {}
ASSUME BoundsAssumption == MaxSerial \in Nat \ {0} /\ MaxFailures \in Nat /\ MaxEdits \in Nat
ASSUME ChoicesAssumption ==
  Edits \subseteq EditKinds /\ OldReleases \subseteq BOOLEAN /\ FirstLeads \in BOOLEAN

VARIABLES
  first,    \* groups['kube-master'][0]
  masters,  \* groups['kube-master']
  nodes,    \* groups['kube-node']
  disk,     \* disk[d][f]: file f in the certificate directory of host d
  signed,   \* the key the service account tokens are signed with
  step,     \* the task the run has reached
  lead,     \* the first host of play k8s-cluster, where run_once tasks run
  listing,  \* kubecert_master: the files of the first master as first read
  gen,      \* fact gen_certs
  genNode,  \* fact gen_node_certs, as the set of hosts it maps to True
  sync,     \* hosts whose fact sync_certs is true and still to be served
  secret,   \* fact secret_changed of the first master
  torn,     \* history: hosts whose unpack was cut, until one is not
  failures, edits

inventory == <<first, masters, nodes>>
facts     == <<lead, listing, gen, genNode, sync, secret>>
vars      == <<inventory, disk, signed, step, facts, torn, failures, edits>>

-----------------------------------------------------------------------------
Serial == 1 .. MaxSerial
None   == 0
Files  == [key : Serial \cup {None}, ca : Serial \cup {None}]
NoFile == [key |-> None, ca |-> None]

Common(kind)  == <<kind, {}>>
CAKey         == Common("ca-key")
CA            == Common("ca")
API           == Common("apiserver")
SA            == Common("service-account")
Ctl           == Common("ctl")
AdminOf(hs)   == {"admin"} \X {{h} : h \in hs}
NodeOf(hs)    == {"node"} \X {{h} : h \in hs}
NodeName(h)   == <<"node", {h}>>
Names         == {CAKey, CA, API, SA, Ctl} \cup AdminOf(Hosts) \cup NodeOf(Hosts)

Cluster == masters \cup nodes  \* groups['k8s-cluster']
Empty   == [f \in Names |-> NoFile]
Has(d, f) == disk[d][f].key # None

InUse == {signed} \cup UNION {{disk[d][f].key, disk[d][f].ca} : d \in Hosts, f \in Names}
Fresh(n) == n \in Serial \ InUse /\ \A k \in Serial \ InUse : n <= k

\* What a host should hold: my_master_certs and all_node_certs on a master,
\* my_node_certs on a node.
Wanted(h) ==
  (IF h \in masters
   THEN {CAKey, CA, API, SA, Ctl} \cup AdminOf({h}) \cup NodeOf(Cluster) ELSE {})
    \cup (IF h \in nodes THEN {CA, NodeName(h)} ELSE {})

TypeOK ==
  /\ first \in masters /\ masters \in SUBSET Hosts /\ nodes \in SUBSET Hosts
  /\ disk \in [Hosts -> [Names -> Files]]
  /\ signed \in Serial \cup {None}
  /\ step \in {"idle", "check", "generate", "compare", "sync", "master", "rotate", "done"}
  /\ lead \in Cluster /\ listing \in [Names -> Files]
  /\ gen \in BOOLEAN /\ genNode \in SUBSET Cluster
  /\ sync \in SUBSET (Cluster \ {first}) /\ secret \in BOOLEAN
  /\ torn \in SUBSET Cluster
  /\ failures \in 0 .. MaxFailures /\ edits \in 0 .. MaxEdits

\* A release without a service account key signed tokens with the apiserver's
\* key, and had given every host the rest of its files.
OldFiles(h) ==
  (Wanted(h) \ {SA}) \cup (IF h = first THEN AdminOf(masters) ELSE {})
OldDisk(h) ==
  [f \in Names |-> IF f \notin OldFiles(h) THEN NoFile
                   ELSE [key |-> 1, ca |-> IF f = CAKey THEN None ELSE 1]]

Init ==
  /\ masters \in SUBSET Hosts /\ nodes \in SUBSET Hosts /\ first \in masters
  /\ \E old \in OldReleases :
       /\ disk = [h \in Hosts |-> IF old /\ h \in Cluster THEN OldDisk(h) ELSE Empty]
       /\ signed = IF old THEN 1 ELSE None
  /\ step = "idle" /\ lead = first /\ listing = Empty
  /\ gen = FALSE /\ genNode = {} /\ sync = {} /\ secret = FALSE /\ torn = {}
  /\ failures = 0 /\ edits = 0

-----------------------------------------------------------------------------
(***************************************************************************)
(* The run.                                                                *)
(***************************************************************************)
AtRest == step \in {"idle", "done"}

Enter(s, leader) ==
  /\ step' = s /\ lead' = leader /\ listing' = Empty
  /\ gen' = FALSE /\ genNode' = {} /\ sync' = {} /\ secret' = FALSE

StartRun ==
  /\ AtRest
  /\ \E h \in IF FirstLeads THEN {first} ELSE Cluster : Enter("check", h)
  /\ UNCHANGED <<inventory, disk, signed, torn, failures, edits>>

\* any_errors_fatal: the run ends where it is, and its facts with it.
Fail ==
  /\ ~AtRest /\ failures < MaxFailures
  /\ failures' = failures + 1
  /\ Enter("idle", first)
  /\ UNCHANGED <<inventory, disk, signed, torn, edits>>

\* check-certs.yml: is any file the first master should have absent?  The
\* CA's key is not looked for, node files are looked for by their keys.
Required == {CA, API, SA, Ctl} \cup AdminOf(masters) \cup NodeOf(Cluster)

AllNodes            == Cluster
MissingNodes        == {h \in Cluster : ~Has(first, NodeName(h))}

CheckCerts ==
  /\ step = "check" /\ step' = "generate"
  /\ listing' = disk[first]
  /\ gen' = (\E f \in Required : ~Has(first, f))
  /\ genNode' = MissingNodes
  /\ UNCHANGED <<inventory, disk, signed, lead, sync, secret, torn, failures, edits>>

\* make-ssl.sh with serial n, in the order of its text: the CA is kept if its
\* key is there; the service account key is the apiserver's if only that is
\* there; the apiserver's pair is kept if the CA's and its own key are there;
\* the controllers' and administrators' pairs are always made.
SignerAlwaysNew(n) == n
Signer(n) == IF Has(first, CAKey) THEN disk[first][CAKey].key ELSE n

ServiceKeyAlwaysNew(n) == n
ServiceKey(n) == IF Has(first, API) THEN disk[first][API].key ELSE n

Kept ==
  {f \in {CAKey, CA} : Has(first, CAKey)}
    \cup {f \in {API} : Has(first, CAKey) /\ Has(first, API)}
    \cup {f \in {SA} : Has(first, SA)}

Made(n) ==
  LET pair == [key |-> n, ca |-> Signer(n)]
  IN  [f \in Names |->
         IF f \in Kept THEN disk[first][f]
         ELSE IF f = SA THEN [key |-> ServiceKey(n), ca |-> None]
         ELSE IF f = CAKey THEN [key |-> n, ca |-> None]
         ELSE IF f \in {CA, API, Ctl} \cup AdminOf(masters) \cup NodeOf(genNode) THEN pair
         ELSE disk[first][f]]

RunScript ==
  /\ step = "generate" /\ gen
  /\ \E n \in Serial : Fresh(n) /\ disk' = [disk EXCEPT ![first] = Made(n)]
  /\ step' = "compare"
  /\ UNCHANGED <<inventory, signed, facts, torn, failures, edits>>

SkipScript ==
  /\ step = "generate" /\ ~gen
  /\ step' = "compare"
  /\ UNCHANGED <<inventory, disk, signed, facts, torn, failures, edits>>

\* A host needs files if one it wants is absent, or is not the one the first
\* master had before the script ran.
DiffersNever(h) == FALSE
DiffersIfAbsent(h) == \E f \in Wanted(h) : ~Has(h, f)
Differs(h) == \E f \in Wanted(h) : ~Has(h, f) \/ disk[h][f] # listing[f]

CompareCerts ==
  /\ step = "compare" /\ step' = "sync"
  /\ sync' = {h \in Cluster \ {first} : Differs(h)}
  /\ UNCHANGED <<inventory, disk, signed, lead, listing, gen, genNode, secret, torn, failures, edits>>

\* tar packs the files that exist and overwrites the host's with them.
Archive(h) == {f \in Wanted(h) : Has(first, f)}

Sync(h) ==
  /\ step = "sync" /\ h \in sync
  /\ disk' = [disk EXCEPT ![h] = [f \in Names |->
                IF f \in Archive(h) THEN disk[first][f] ELSE @[f]]]
  /\ sync' = sync \ {h} /\ torn' = torn \ {h}
  /\ UNCHANGED <<inventory, signed, step, lead, listing, gen, genNode, secret, failures, edits>>

\* The order of the files in an archive (gen_certs_script.yml:75-113); of a
\* pair the certificate comes before the key, and the front proxy's part of
\* Ctl before the service account key.
Position(f) ==
  CASE f = CAKey -> 1
    [] f \in AdminOf(Hosts) -> 2
    [] f = API -> 3
    [] f = SA -> 4
    [] f = Ctl -> 5
    [] f = CA -> 6
    [] OTHER -> 7

HalfAt(p, f) == f \notin {CAKey, CA, SA} /\ (Position(f) = p \/ (f = Ctl /\ p = 4))

\* A new certificate beside the old key: no pair, unless the keys are equal.
Half(new, old) ==
  [key |-> old.key, ca |-> IF old.key = new.key THEN new.ca ELSE None]

\* The host is lost, or its disk fills up, while it unpacks: the files written
\* by then stay, at most one pair of them half, and the run ends.
CutSync(h) ==
  /\ step = "sync" /\ h \in sync /\ failures < MaxFailures
  /\ \E p \in 1 .. 7 : \E last \in SUBSET {f \in Archive(h) : Position(f) = p} :
       LET whole == {f \in Archive(h) : Position(f) < p} \cup last
       IN  /\ whole # Archive(h)
           /\ \E half \in {{}} \cup {{f} : f \in {g \in Archive(h) \ whole : HalfAt(p, g)}} :
                disk' = [disk EXCEPT ![h] = [f \in Names |->
                           IF f \in whole THEN disk[first][f]
                           ELSE IF f \in half THEN Half(disk[first][f], @[f])
                           ELSE @[f]]]
  /\ torn' = torn \cup {h}
  /\ failures' = failures + 1
  /\ Enter("idle", first)
  /\ UNCHANGED <<inventory, signed, edits>>

\* The handlers of play k8s-cluster: only the script says it changed
\* anything, and tells it to the host its task ran for, the play's first.
EndNodePlay ==
  /\ step = "sync" /\ sync = {}
  /\ step' = "master"
  /\ secret' = (gen /\ lead = first)
  /\ UNCHANGED <<inventory, disk, signed, lead, listing, gen, genNode, sync, torn, failures, edits>>

\* Play kube-master: apiservers and controllers run with the files of their
\* hosts; in a new cluster they sign the first tokens.
EndMasterPlay ==
  /\ step = "master" /\ step' = "rotate"
  /\ signed' = IF signed = None THEN disk[first][SA].key ELSE signed
  /\ UNCHANGED <<inventory, disk, facts, torn, failures, edits>>

\* rotate_tokens: a token the apiserver of the first master refuses, or does
\* not answer for, has all of them made anew.
RotateNothing ==
  /\ step = "rotate"
  /\ Enter("done", first)
  /\ UNCHANGED <<inventory, disk, signed, torn, failures, edits>>

RotateTokens ==
  /\ step = "rotate"
  /\ signed' = IF secret THEN disk[first][SA].key ELSE signed
  /\ Enter("done", first)
  /\ UNCHANGED <<inventory, disk, torn, failures, edits>>

-----------------------------------------------------------------------------
(***************************************************************************)
(* What the operator does between runs.                                    *)
(***************************************************************************)
Edit(kind) ==
  /\ AtRest /\ kind \in Edits /\ edits < MaxEdits
  /\ edits' = edits + 1
  /\ UNCHANGED <<signed, failures>>

AddNode(h) ==
  /\ h \notin nodes /\ Edit("node")
  /\ nodes' = nodes \cup {h}
  /\ Enter("idle", first)
  /\ UNCHANGED <<first, masters, disk, torn>>

AddMaster(h) ==
  /\ h \notin masters /\ Edit("master")
  /\ masters' = masters \cup {h}
  /\ Enter("idle", first)
  /\ UNCHANGED <<first, nodes, disk, torn>>

\* Not a master whose unpack was cut: the script would fail on it, or keep
\* its half pairs.
MoveFirst(h) ==
  /\ h \in masters \ ({first} \cup torn)
  /\ Edit(IF Has(h, CA) /\ ~Has(h, CAKey) THEN "usurp" ELSE "front")
  /\ first' = h
  /\ Enter("idle", h)
  /\ UNCHANGED <<masters, nodes, disk, torn>>

\* roles/reset removes /etc/kubernetes.
ResetHost(h) ==
  /\ Edit("reset")
  /\ disk' = [disk EXCEPT ![h] = Empty]
  /\ torn' = torn \ {h}
  /\ Enter("idle", first)
  /\ UNCHANGED inventory

Operator == \E h \in Hosts : AddNode(h) \/ AddMaster(h) \/ MoveFirst(h) \/ ResetHost(h)

Run ==
  \/ CheckCerts \/ RunScript \/ SkipScript \/ CompareCerts \/ (\E h \in Hosts : Sync(h))
  \/ EndNodePlay \/ EndMasterPlay \/ RotateTokens

Interruption == Fail \/ \E h \in Hosts : CutSync(h)

Next == StartRun \/ Run \/ Interruption \/ Operator

Spec == Init /\ [][Next]_vars

\* Ansible goes on with a run it has started, and the operator starts
\* cluster.yml again; failures and edits stop at their bounds.
FairSpec == Spec /\ WF_vars(Run) /\ WF_vars(StartRun)

-----------------------------------------------------------------------------
(***************************************************************************)
(* Properties.                                                             *)
(***************************************************************************)

\* Host h can talk to the cluster: its pair works under the CA it trusts,
\* which is the first master's.
Deployed(h) ==
  /\ Has(h, NodeName(h)) /\ Has(h, CA)
  /\ disk[h][NodeName(h)].ca = disk[h][CA].key
  /\ disk[h][CA] = disk[first][CA]

\* When cluster.yml completes, whatever runs failed before it and although
\* hosts are compared with files listed before the script ran
\* (check-certs.yml:8), every host of the cluster can talk to it.
NodesDeployed == step = "done" => \A h \in Cluster : Deployed(h)

\* The masters check tokens and clients with the same keys: they hold the
\* first master's CA with its key, its apiserver pair and its service account
\* key, when cluster.yml completes.
MastersAgree ==
  step = "done" =>
    \A h \in masters, f \in {CAKey, CA, API, SA} : Has(h, f) /\ disk[h][f] = disk[first][f]

\* Between runs, also after one that failed wherever it was (the script is
\* not killed here, see above), a host's files work together: what it holds is
\* signed by the CA it trusts, be it the first master's or one of before.  Only
\* a host whose own unpack was cut may hold half a pair or another CA's, and
\* only until the next unpack that is not.
PairsConsistent ==
  AtRest =>
    \A d \in Hosts \ torn : \A f \in {API, Ctl, NodeName(d)} :
      Has(d, f) => disk[d][f].ca = disk[d][CA].key

\* "When the certificate rotates, all service account tokens must be rotated
\* as well" (docs/upgrades.md:78): when cluster.yml completes, the apiservers
\* accept the tokens there are.
TokensRotated == step = "done" => signed = disk[first][SA].key

\* The same when no run has failed and the first master is the first host of
\* play k8s-cluster, so that fact secret_changed reaches rotate_tokens.
TokensAccepted == failures = 0 /\ FirstLeads => TokensRotated

\* The key the apiserver of host d checks tokens with.
ServiceKeyAt(d) == IF Has(d, SA) THEN disk[d][SA].key ELSE disk[d][API].key

\* The first master never gets another service account key while its own is
\* the one that signed the tokens, be it the apiserver's key an older release
\* used ("to avoid disruptions", make-ssl.sh:104), and even if the CA and the
\* apiserver's pair are made anew: only a reset takes it away.
TokensSurvive ==
  [][signed # None /\ signed = ServiceKeyAt(first) /\ UNCHANGED first
     => ServiceKeyAt(first)' \in {signed, None}]_vars

\* The keys of the hosts are made, spread and lost as KeyDistribution says.
KD == INSTANCE KeyDistribution
        WITH source <- first, Key <- Serial,
             keys <- [d \in Hosts |-> [h \in Hosts |-> disk[d][NodeName(h)].key]]
KeysDistributed == KD!KeysSpec

\* Once operators and failures leave it alone, the cluster's hosts can talk
\* to each other for good.
EventuallyDeployed == <>[](\A h \in Cluster : Deployed(h))
=============================================================================

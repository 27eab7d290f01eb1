--------------------------- MODULE InventoryBuilder ---------------------------
(***************************************************************************)
(* contrib/inventory_builder/inventory.py: the inventory file, and the     *)
(* calls "inventory.py [ip | -ip | -name]..." and "inventory.py load file" *)
(* that read it, change it in memory and write it back.                    *)
(*                                                                         *)
(* Abstractions:                                                           *)
(*  - A host's name is HOST_PREFIX and a number; the number stands for it. *)
(*    Of its options only ip matters: NoIP when there is none.             *)
(*  - The arguments of a call are handled one action at a time; nothing is *)
(*    on disk before the call writes.  A file of several entries that is   *)
(*    loaded does what files of one entry each do, in its order.           *)
(*  - A write that is cut leaves whole lines.                              *)
(*  - k8s-cluster:children, the same in every file, is left out, and so    *)
(*    are the commands that only print.                                    *)
(***************************************************************************)
EXTENDS SequencesExt

CONSTANTS
  IPs,         \* the addresses given to the tool
  NoIP,        \* a host without the option ip
  Env,         \* the environment variables that are set
  Loads,       \* the groups of the files given to "load"
  MaxId,       \* bound: host numbers
  MaxArgs,     \* bound: arguments of a call
  MaxCrashes   \* bound: writes that are cut

Groups == {"kube-master", "kube-node", "etcd", "calico-rr", "vault"}
Thresholds == {"SCALE_THRESHOLD", "MASSIVE_SCALE_THRESHOLD"}

ASSUME AddressAssumption == NoIP \notin IPs
ASSUME EnvAssumption == DOMAIN Env \subseteq Thresholds /\ \A v \in DOMAIN Env : Env[v] \in Nat
ASSUME LoadsAssumption == Loads \subseteq Groups \cup {"all"}
ASSUME BoundsAssumption == MaxId \in Nat /\ MaxArgs \in Nat /\ MaxCrashes \in Nat

Getenv(name, default) == IF name \in DOMAIN Env THEN Env[name] ELSE default

SCALE_THRESHOLD         == Getenv("SCALE_THRESHOLD", 50)
MASSIVE_SCALE_THRESHOLD == Getenv("SCALE_THRESHOLD", 200)

VARIABLES
  all,      \* section "all" of the file, in its order
  groups,   \* the other sections of the file
  whole,    \* no write of the file was cut since the last that set every group
  hosts,    \* all_hosts, while a call is under way
  nextId,   \* next_host_id
  args,     \* arguments handled so far
  running,  \* a call is under way
  crashes

file == <<all, groups, whole>>
call == <<hosts, nextId, args, running>>
vars == <<file, call, crashes>>

Host  == [id : 1 .. MaxId, ip : IPs \cup {NoIP}]
Ids(s) == {s[i].id : i \in DOMAIN s}

TypeOK ==
  /\ all \in Seq(Host) /\ hosts \in Seq(Host)
  /\ groups \in [Groups -> SUBSET (1 .. MaxId)]
  /\ whole \in BOOLEAN /\ running \in BOOLEAN
  /\ nextId \in 1 .. MaxId + 1 /\ args \in 0 .. MaxArgs /\ crashes \in 0 .. MaxCrashes

\* No file, or an empty one.
Init ==
  /\ all = <<>> /\ groups = [g \in Groups |-> {}] /\ whole = TRUE
  /\ hosts = <<>> /\ nextId = 1 /\ args = 0 /\ running = FALSE
  /\ crashes = 0

-----------------------------------------------------------------------------
(***************************************************************************)
(* Reading and writing the file.                                           *)
(***************************************************************************)

\* The order in which the sections are written, after "all".
Position == [g \in Groups |-> CASE g = "kube-master" -> 1 [] g = "kube-node" -> 2
                                [] g = "etcd" -> 3 [] g = "calico-rr" -> 4
                                [] g = "vault" -> 5]

\* The file is truncated and written from its start.
WriteCut(a, gs) ==
  /\ crashes < MaxCrashes /\ crashes' = crashes + 1
  /\ whole' = FALSE
  /\ \/ /\ all' \in Prefixes(a)
        /\ groups' = [g \in Groups |-> {}]
     \/ /\ all' = a
        /\ \E last \in Groups, part \in SUBSET (1 .. MaxId) :
             /\ part \subseteq gs[last]
             /\ groups' = [g \in Groups |-> IF g = last THEN part
                                            ELSE IF Position[g] < Position[last] THEN gs[g]
                                            ELSE {}]

WriteConfig(a, gs, complete) ==
  \/ /\ all' = a /\ groups' = gs /\ whole' = complete
     /\ UNCHANGED crashes
  \/ WriteCut(a, gs)

EndCall == hosts' = <<>> /\ nextId' = 1 /\ args' = 0 /\ running' = FALSE

-----------------------------------------------------------------------------
(***************************************************************************)
(* A call that adds and deletes hosts.                                     *)
(***************************************************************************)
HighestId == CHOOSE n \in Ids(all) \cup {0} : \A m \in Ids(all) : m <= n

CountHosts == Len(all) + 1
NextHostId == HighestId + 1

\* build_hostnames starts from the hosts of the file.
Start ==
  /\ ~running
  /\ running' = TRUE /\ hosts' = all /\ nextId' = NextHostId /\ args' = 0
  /\ UNCHANGED <<file, crashes>>

\* exists_ip raises ValueError at a host without ip that it meets before a
\* match, and the call ends.
IpAt(ip)     == {i \in DOMAIN hosts : hosts[i].ip = ip}
FirstOf(S)   == CHOOSE i \in S : \A j \in S : i <= j
Readable(ip) == \A i \in IpAt(NoIP) : \E j \in IpAt(ip) : j < i

Argument == running /\ args < MaxArgs /\ args' = args + 1

AddHost(ip) ==
  /\ Argument /\ Readable(ip)
  /\ IF IpAt(ip) # {}
     THEN UNCHANGED <<hosts, nextId>>
     ELSE /\ nextId <= MaxId
          /\ hosts' = Append(hosts, [id |-> nextId, ip |-> ip])
          /\ nextId' = nextId + 1
  /\ UNCHANGED <<file, running, crashes>>

DeleteByIp(ip) ==
  /\ Argument /\ Readable(ip)
  /\ hosts' = IF IpAt(ip) = {} THEN hosts ELSE RemoveAt(hosts, FirstOf(IpAt(ip)))
  /\ UNCHANGED <<nextId, file, running, crashes>>

\* A name that is not there is tried as an address.
DeleteByName(n) ==
  /\ Argument
  /\ \/ \E i \in DOMAIN hosts : hosts[i].id = n /\ hosts' = RemoveAt(hosts, i)
     \/ n \notin Ids(hosts) /\ IpAt(NoIP) = {} /\ UNCHANGED hosts
  /\ UNCHANGED <<nextId, file, running, crashes>>

\* An exception: an argument that is a host name, or an address looked up
\* past a host without ip.  Nothing is written.
Abort ==
  /\ running
  /\ EndCall
  /\ UNCHANGED <<file, crashes>>

\* list(hosts.keys())[from:to]
Slice(from, to) == {hosts[i].id : i \in {j \in DOMAIN hosts : from < j /\ j <= to}}

AtScale == Len(hosts) >= SCALE_THRESHOLD
Massive == Len(hosts) >= MASSIVE_SCALE_THRESHOLD

\* purge_invalid_hosts goes over every section; the set_* methods only add.
KeptAll(g) == groups[g]
Kept(g) == groups[g] \cap Ids(hosts)

SetEtcdNext == Kept("etcd") \cup (IF Kept("etcd") = {} THEN Slice(0, 3) ELSE {})
SetEtcd  == Kept("etcd") \cup Slice(0, 3)
SetVault == Kept("vault") \cup Slice(0, 3)

SetKubeMasterLate == Kept("kube-master") \cup (IF AtScale THEN Slice(4, 6) ELSE Slice(0, 2))
SetKubeMaster == Kept("kube-master") \cup (IF AtScale THEN Slice(3, 5) ELSE Slice(0, 2))

Excluded(h) == \/ AtScale /\ h \in SetEtcd
               \/ Massive /\ h \in SetKubeMaster

SetKubeNodeNew == Kept("kube-node") \cup {h \in Ids(hosts) \ Ids(all) : ~Excluded(h)}
SetKubeNode == Kept("kube-node") \cup {h \in Ids(hosts) : ~Excluded(h)}

\* The guards of set_calico_rr compare a name with (name, options) pairs and
\* so never skip a host.
SetCalicoRr == Kept("calico-rr") \cup (IF AtScale THEN Slice(0, 3) ELSE {})

Section(g) == CASE g = "kube-master" -> SetKubeMaster
                [] g = "kube-node"   -> SetKubeNode
                [] g = "etcd"        -> SetEtcd
                [] g = "calico-rr"   -> SetCalicoRr
                [] g = "vault"       -> SetVault

Sections == [g \in Groups |-> Section(g)]

Write ==
  /\ running /\ args > 0
  /\ WriteConfig(hosts, Sections, TRUE)
  /\ EndCall

-----------------------------------------------------------------------------
(***************************************************************************)
(* load: the host's options are set in "all", then the host is set in its  *)
(* group without options, which for the group "all" takes the options away *)
(* again.                                                                  *)
(***************************************************************************)
Load(g, n, ip) ==
  LET host   == [id |-> n, ip |-> IF g = "all" THEN NoIP ELSE ip]
      loaded == IF n \in Ids(all)
                THEN [i \in DOMAIN all |-> IF all[i].id = n THEN host ELSE all[i]]
                ELSE Append(all, host)
  IN
  /\ ~running
  /\ WriteConfig(loaded, [x \in Groups |-> IF x = g THEN groups[x] \cup {n} ELSE groups[x]],
                 whole)
  /\ UNCHANGED call

Next ==
  \/ Start \/ Abort \/ Write
  \/ \E ip \in IPs : AddHost(ip) \/ DeleteByIp(ip)
  \/ \E n \in 1 .. MaxId : DeleteByName(n)
  \/ \E g \in Loads, n \in 1 .. MaxId, ip \in IPs : Load(g, n, ip)

Spec == Init /\ [][Next]_vars

-----------------------------------------------------------------------------
(***************************************************************************)
(* Properties.                                                             *)
(***************************************************************************)
Distinct(s) == \A i, j \in DOMAIN s : i # j => s[i].id # s[j].id /\ s[i].ip # s[j].ip

\* However often hosts are deleted and added, no two hosts of the file have
\* the same name or the same address (numbers restart at the highest one in
\* the file, and a call looks addresses up in the hosts it has so far).
UniqueHosts == Distinct(all)

\* A call never gives a name the file has to another address, not even one
\* it deletes: the number it starts from is fixed before it deletes
\* (inventory.py:153).
NamesKeepAddress ==
  [][\A i \in DOMAIN all, j \in DOMAIN all' : all[i].id = all'[j].id => all[i].ip = all'[j].ip]_vars

\* No group names a host that is not in "all", after any deletions, loads and
\* interrupted writes.
NoDangling == \A g \in Groups : groups[g] \subseteq Ids(all)

FirstHosts(k) == {all[i].id : i \in {j \in DOMAIN all : j <= k}}

\* set_etcd only adds, yet after any calls etcd is the first three hosts: it
\* never grows to four members.
EtcdIsFirstThree == whole => groups["etcd"] = FirstHosts(3)

\* A cluster that is (again) below the scale threshold runs pods on every
\* host, those that a larger cluster kept for etcd included.
SmallRunsEverywhere ==
  whole /\ Len(all) < SCALE_THRESHOLD => groups["kube-node"] = Ids(all)

\* Whatever was deleted, a cluster has a master.
MasterExists == whole /\ all # <<>> => groups["kube-master"] # {}
===============================================================================

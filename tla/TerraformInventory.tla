-------------------------- MODULE TerraformInventory --------------------------
(***************************************************************************)
(* One call of the dynamic inventory contrib/terraform/terraform.py: a     *)
(* pass over the state files for floating IPs, then a second one for the   *)
(* servers, while terraform may apply changes.                             *)
(*                                                                         *)
(* Abstractions:                                                           *)
(*  - A server is its id, its name, the addresses its attributes hold and  *)
(*    the groups its tags give it; an attribute is Missing, Blank or an    *)
(*    address. Attributes every server of a provider has, and those that   *)
(*    are only copied, are left out, and with them the other ways a parser *)
(*    raises: user_data that is not JSON, a Boolean that is not one, ...   *)
(*  - A file is read as a whole when the pass gets to it (json.load), and  *)
(*    its resources come in any order (a dict's). terraform is external:   *)
(*    it adds or removes one resource of a file at a time.                 *)
(*  - An exception ends the call without output.                           *)
(*  - Members of a group and lines of a host file are sets: how often a    *)
(*    name occurs in them is not told.                                     *)
(***************************************************************************)
EXTENDS Naturals, FiniteSets

CONSTANTS
  Files,      \* the state files are 1 .. Files, in the order of os.walk
  Servers,    \* servers: [type, id, name, public, private, tags]
  Floating,   \* associations of floating IPs: [instance_id, ip]
  Others,     \* resources that are neither
  Planned,    \* the resources it may create during the call
  Starts,     \* contents of the state files to start from
  Targets,    \* names --host is called with
  MaxApplies, \* bound: changes by terraform
  Missing, Blank, NoId

ASSUME StartsAssumption ==
  /\ Files \in Nat \ {0} /\ MaxApplies \in Nat /\ Targets # {}
  /\ Starts \subseteq [1..Files -> SUBSET (Servers \cup Floating \cup Others)]

\* The types PARSERS has a parser for.
Providers ==
  {"triton", "digitalocean", "softlayer", "openstack", "aws", "gce", "vsphere", "azure", "clc"}

ASSUME ServersAssumption == \A s \in Servers : s.type \in Providers
ASSUME BlankAssumption == Blank # Missing
ASSUME FloatingAssumption == \A f \in Floating : f.ip # Missing

Resources == Servers \cup Floating \cup Others

Ids       == {s.id : s \in Servers} \cup {f.instance_id : f \in Floating}
Addresses ==
  {Blank} \cup
    (({s.public : s \in Servers} \cup {s.private : s \in Servers} \cup {f.ip : f \in Floating})
       \ {Missing})
Tags      == {"publicly_routable"} \cup UNION {s.tags : s \in Servers}

VARIABLES
  files,    \* 1..Files -> the resources of a state file
  phase,    \* where the call is: reading ips or hosts, printed, aborted
  mode,     \* --list, --host or --hostfile
  target,   \* the name --host asks for
  at,       \* the file the pass is at
  pending,  \* resources of that file it has not handled
  ips,      \* instance id -> floating IP
  meta,     \* name -> hostvars of _meta
  members,  \* pairs of a group and the name of a member
  answer,   \* {} or {the hostvars --host found}
  lines,    \* pairs of an address and a name of --hostfile
  applies,
  quiet,    \* whether terraform has changed nothing since the call began
  steady    \* the servers that have been in the files since then

vars == <<files, phase, mode, target, at, pending, ips, meta, members, answer, lines, applies, quiet,
          steady>>

input  == <<mode, target>>
output == <<meta, members, answer, lines>>
outside == <<files, applies, quiet, steady>>

Vars == [id: Ids \cup {NoId}, ssh: Addresses]

TypeOK ==
  /\ files \in [1..Files -> SUBSET Resources]
  /\ phase \in {"ips", "hosts", "printed", "aborted"}
  /\ mode \in {"list", "host", "hostfile"} /\ target \in Targets
  /\ at \in 1..Files /\ pending \subseteq Resources
  /\ \E D \in SUBSET Ids : ips \in [D -> {f.ip : f \in Floating}]
  /\ DOMAIN meta \subseteq {s.name : s \in Servers} \cup Ids
  /\ \A n \in DOMAIN meta : meta[n] \in Vars
  /\ members \subseteq Tags \X DOMAIN meta
  /\ answer \subseteq Vars /\ Cardinality(answer) \in {0, 1}
  /\ lines \subseteq Addresses \X ({s.name : s \in Servers} \cup Ids)
  /\ applies \in 0..MaxApplies /\ quiet \in BOOLEAN /\ steady \subseteq Servers

All(fs) == UNION {fs[i] : i \in 1..Files}
-----------------------------------------------------------------------------
(* The parsers: the set of a server's entry, or {} when one raises.        *)
Entry(name, id, ssh, groups) == {[name |-> name, vars |-> [id |-> id, ssh |-> ssh], groups |-> groups]}

Routable == {"publicly_routable"}

azure_host_quiet(s)  == Entry(s.name, s.id, s.public, s.tags)

triton_machine(s)    == IF s.public = Missing THEN {} ELSE Entry(s.name, s.id, s.public, s.tags)
digitalocean_host(s) == IF s.public = Missing THEN {} ELSE Entry(s.name, s.id, s.public, s.tags)
azure_host(s)        == IF s.public = Missing THEN {} ELSE Entry(s.name, s.id, s.public, s.tags)

\* A private address is wanted too.
softlayer_host(s) ==
  IF Missing \in {s.public, s.private} THEN {} ELSE Entry(s.name, s.id, s.public, s.tags)

\* The try around access_ip_v4 comes after two reads of it outside.
openstack_host(s) ==
  IF Missing \in {s.public, s.private} THEN {}
  ELSE Entry(s.name, s.id, s.public, s.tags \cup Routable)

\* The name is a tag; the tag sshPrivateIp asks for the private address.
aws_host(s) ==
  IF Missing \in {s.name, s.public, s.private} THEN {}
  ELSE Entry(s.name, s.id, IF "sshPrivateIp" \in s.tags THEN s.private ELSE s.public, s.tags)

\* public: nat_ip or else assigned_nat_ip, of which both may be blank. An
\* instance without access_config raises an IndexError nobody catches; one
\* whose interface has no address (private) raises a KeyError that is caught.
gce_host(s) ==
  IF s.public = Missing THEN {}
  ELSE IF s.private = Missing THEN Entry(s.id, NoId, Blank, s.tags)
  ELSE Entry(s.id, NoId, s.public, s.tags \cup Routable)

\* public: ipv4_address; private: ip_address, which is read in any case.
vsphere_host(s) ==
  IF s.private = Missing THEN {}
  ELSE Entry(s.name, s.id, IF s.public = Missing THEN s.private ELSE s.public, s.tags)

clc_server(s) ==
  IF s.public # Missing /\ s.private # Missing
  THEN Entry(s.id, NoId, s.public, s.tags \cup Routable)
  ELSE IF s.private # Missing THEN Entry(s.id, NoId, s.private, s.tags) ELSE {}

Parse(s) ==
  CASE s.type = "triton"       -> triton_machine(s)
    [] s.type = "digitalocean" -> digitalocean_host(s)
    [] s.type = "softlayer"    -> softlayer_host(s)
    [] s.type = "openstack"    -> openstack_host(s)
    [] s.type = "aws"          -> aws_host(s)
    [] s.type = "gce"          -> gce_host(s)
    [] s.type = "vsphere"      -> vsphere_host(s)
    [] s.type = "azure"        -> azure_host(s)
    [] s.type = "clc"          -> clc_server(s)
-----------------------------------------------------------------------------
(* A pass gets to its next file, or is through. *)
Open(i) == at' = i /\ pending' = files[i]

Init ==
  /\ files \in Starts
  /\ phase = "ips"
  /\ mode \in {"list", "host", "hostfile"}
  /\ IF mode = "host" THEN target \in Targets ELSE target = CHOOSE t \in Targets : TRUE
  /\ at = 1 /\ pending = files[1]
  /\ ips = <<>> /\ meta = <<>> /\ members = {} /\ answer = {} /\ lines = {}
  /\ applies = 0 /\ quiet = TRUE
  /\ steady = All(files) \cap Servers

(* iterips: the last association of an instance wins. *)
ReadIp(r) ==
  /\ phase = "ips" /\ r \in pending
  /\ pending' = pending \ {r}
  /\ ips' = IF r \in Floating
            THEN [i \in DOMAIN ips \cup {r.instance_id} |->
                    IF i = r.instance_id THEN r.ip ELSE ips[i]]
            ELSE ips
  /\ UNCHANGED <<phase, at, input, output, outside>>

EndIpsOfOneFile ==
  /\ phase = "ips" /\ pending = {}
  /\ Open(1) /\ phase' = "hosts"
  /\ UNCHANGED <<ips, input, output, outside>>

(* The first pass ends only after the last file; the second begins then,   *)
(* for iterhosts is a generator that the query drives.                     *)
EndIps ==
  /\ phase = "ips" /\ pending = {}
  /\ IF at < Files THEN Open(at + 1) /\ UNCHANGED phase ELSE Open(1) /\ phase' = "hosts"
  /\ UNCHANGED <<ips, input, output, outside>>

LackingAlways(e) == e.vars.id = NoId

(* iter_host_ips: asked only when there are floating IPs at all, it wants  *)
(* an id of every server, and raises for one without.                      *)
Lacking(e) == DOMAIN ips # {} /\ e.vars.id = NoId

AddressedInList(v) ==
  IF mode # "host" /\ v.id \in DOMAIN ips THEN [v EXCEPT !.ssh = ips[v.id]] ELSE v

Addressed(v) == IF v.id \in DOMAIN ips THEN [v EXCEPT !.ssh = ips[v.id]] ELSE v

(* query_list, query_host and query_hostfile take a server. *)
List(e) ==
  /\ mode = "list"
  /\ meta' = [n \in DOMAIN meta \cup {e.name} |-> IF n = e.name THEN Addressed(e.vars) ELSE meta[n]]
  /\ members' = members \cup (e.groups \X {e.name})
  /\ UNCHANGED <<phase, answer, lines>>

Match(e) ==
  /\ mode = "host"
  /\ IF e.name = target THEN answer' = {Addressed(e.vars)} /\ phase' = "printed"
                       ELSE UNCHANGED <<answer, phase>>
  /\ UNCHANGED <<meta, members, lines>>

HostLine(e) ==
  /\ mode = "hostfile"
  /\ lines' = lines \cup {<<Addressed(e.vars).ssh, e.name>>}
  /\ UNCHANGED <<phase, meta, members, answer>>

(* The second pass gets to a server whose entry can be made. *)
ReadHost(s) ==
  /\ phase = "hosts" /\ s \in pending \cap Servers
  /\ pending' = pending \ {s}
  /\ \E e \in Parse(s) : ~Lacking(e) /\ (List(e) \/ Match(e) \/ HostLine(e))
  /\ UNCHANGED <<at, ips, input, outside>>

SkipHost(s) ==
  /\ phase = "hosts" /\ s \in pending \cap Servers
  /\ \A e \in Parse(s) : Lacking(e)
  /\ pending' = pending \ {s}
  /\ UNCHANGED <<phase, at, ips, input, output, outside>>

(* It gets to one whose parser or whose missing id raises. *)
RaiseHost(s) ==
  /\ phase = "hosts" /\ s \in pending \cap Servers
  /\ \A e \in Parse(s) : Lacking(e)
  /\ phase' = "aborted"
  /\ UNCHANGED <<at, pending, ips, input, output, outside>>

(* It gets to a resource without a parser. *)
SkipOther(r) ==
  /\ phase = "hosts" /\ r \in pending \ Servers
  /\ pending' = pending \ {r}
  /\ UNCHANGED <<phase, at, ips, input, output, outside>>

EndHosts ==
  /\ phase = "hosts" /\ pending = {}
  /\ IF at < Files THEN Open(at + 1) /\ UNCHANGED phase
                   ELSE phase' = "printed" /\ UNCHANGED <<at, pending>>
  /\ UNCHANGED <<ips, input, output, outside>>

(* terraform adds a resource to a state file, or removes one from it.      *)
(* External: an id stands for one server.                                  *)
TerraformApplies ==
  /\ phase \in {"ips", "hosts"} /\ applies < MaxApplies
  /\ \E i \in 1..Files, r \in Servers \cup Floating :
       \/ r \in files[i] /\ files' = [files EXCEPT ![i] = @ \ {r}]
       \/ /\ r \in Planned \ All(files)
          /\ r \in Servers => \A s \in All(files) \cap Servers : s.id # r.id
          /\ files' = [files EXCEPT ![i] = @ \cup {r}]
  /\ applies' = applies + 1
  /\ quiet' = FALSE
  /\ steady' = steady \cap All(files')
  /\ UNCHANGED <<phase, input, at, pending, ips, output>>

Over == phase \in {"printed", "aborted"} /\ UNCHANGED vars

Next ==
  \/ \E r \in Resources : ReadIp(r) \/ SkipOther(r)
  \/ EndIps
  \/ \E s \in Servers : ReadHost(s) \/ RaiseHost(s)
  \/ EndHosts
  \/ TerraformApplies
  \/ Over

Spec == Init /\ [][Next]_vars
-----------------------------------------------------------------------------
(* What the state files say, without passes: a server's hostvars have its  *)
(* floating IP, or else its own address.                                   *)
FloatingOf(s) == {f \in All(files) \cap Floating : f.instance_id = s.id}

Right(s, e, v) ==
  /\ v.id = e.vars.id
  /\ IF e.vars.id # NoId /\ FloatingOf(s) # {} THEN \E f \in FloatingOf(s) : v.ssh = f.ip
                                               ELSE v.ssh = e.vars.ssh

Present == All(files) \cap Servers

(* Printed while terraform was quiet, --list has an entry for exactly the  *)
(* servers of the files, each is one a server of that name should have     *)
(* wherever its association stands in the files, and the members of a      *)
(* group are those with its tag.                                           *)
ListIsRight ==
  phase = "printed" /\ mode = "list" /\ quiet =>
    /\ DOMAIN meta = {e.name : e \in UNION {Parse(s) : s \in Present}}
    /\ \A n \in DOMAIN meta :
         \E s \in Present : \E e \in Parse(s) : e.name = n /\ Right(s, e, meta[n])
    /\ members = UNION {e.groups \X {e.name} : e \in UNION {Parse(s) : s \in Present}}

(* So does --host: its answer is one --list could have for the name, and   *)
(* {} only for a name that no server has.                                  *)
HostIsRight ==
  phase = "printed" /\ mode = "host" /\ quiet =>
    /\ \A v \in answer :
         \E s \in Present : \E e \in Parse(s) : e.name = target /\ Right(s, e, v)
    /\ answer = {} => \A s \in Present : \A e \in Parse(s) : e.name # target

(* A server that stays in its file while the call lasts is never left out  *)
(* of what is printed, whatever terraform does meanwhile: a parser that    *)
(* cannot make its entry prevents any output.                              *)
NoServerLeftOut ==
  phase = "printed" => \A s \in steady :
    /\ mode = "list" => \E e \in Parse(s) : e.name \in DOMAIN meta
    /\ mode = "hostfile" => \E e \in Parse(s), l \in lines : l[2] = e.name

(* While terraform is quiet, a call fails only over a server whose parser  *)
(* raises, or, once any server has a floating IP, over one without an id.  *)
AbortHasCause ==
  phase = "aborted" /\ quiet =>
    \E s \in Present :
      Parse(s) = {} \/ (All(files) \cap Floating # {} /\ \E e \in Parse(s) : e.vars.id = NoId)
=============================================================================

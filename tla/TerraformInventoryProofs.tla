----------------------- MODULE TerraformInventoryProofs -----------------------
(***************************************************************************)
(* Proofs about TerraformInventory, for any number of state files, any     *)
(* resources in them and any changes terraform makes during the call.      *)
(***************************************************************************)
EXTENDS TerraformInventory, FiniteSetTheorems, TLAPS

-----------------------------------------------------------------------------
(* What the parsers make of a server. *)

\* An entry has the server's own name or id, its id or none, one of its
\* addresses or a blank, and no group that is not one of its tags or publicly_routable.
LEMMA ParseFacts ==
  ASSUME NEW s \in Servers, NEW e \in Parse(s)
  PROVE  /\ e = [name |-> e.name, vars |-> [id |-> e.vars.id, ssh |-> e.vars.ssh],
                 groups |-> e.groups]
         /\ e.name \in {s.name, s.id}
         /\ e.vars.id \in {s.id, NoId}
         /\ e.vars.ssh \in {s.public, s.private, Blank} /\ e.vars.ssh # Missing
         /\ e.groups \subseteq s.tags \cup Routable
<1>1. CASE s.type \in {"triton", "digitalocean", "azure"}
  BY <1>1 DEF Parse, triton_machine, digitalocean_host, azure_host, Entry
<1>2. CASE s.type = "softlayer"
  BY <1>2 DEF Parse, softlayer_host, Entry
<1>3. CASE s.type = "openstack"
  BY <1>3 DEF Parse, openstack_host, Entry
<1>4. CASE s.type = "aws"
  BY <1>4 DEF Parse, aws_host, Entry
<1>5. CASE s.type = "gce"
  BY <1>5, BlankAssumption DEF Parse, gce_host, Entry
<1>6. CASE s.type = "vsphere"
  BY <1>6 DEF Parse, vsphere_host, Entry
<1>7. CASE s.type = "clc"
  BY <1>7 DEF Parse, clc_server, Entry
<1> QED BY <1>1, <1>2, <1>3, <1>4, <1>5, <1>6, <1>7, ServersAssumption DEF Providers

\* What is printed of an entry that does not lack an id: its floating IP if
\* the first pass has found one, or else its own address.
LEMMA AddressedFacts ==
  ASSUME NEW s \in Servers, NEW e \in Parse(s)
  PROVE  Addressed(e.vars) =
           IF e.vars.id \in DOMAIN ips THEN [id |-> e.vars.id, ssh |-> ips[e.vars.id]]
                                       ELSE [id |-> e.vars.id, ssh |-> e.vars.ssh]
<1>1. e.vars = [id |-> e.vars.id, ssh |-> e.vars.ssh]
  <2>1. e = [name |-> e.name, vars |-> [id |-> e.vars.id, ssh |-> e.vars.ssh],
             groups |-> e.groups]
    BY ParseFacts
  <2> QED BY <2>1
<1> QED BY <1>1 DEF Addressed

-----------------------------------------------------------------------------
(* Type correctness. *)

IpsType == \E D \in SUBSET Ids : ips \in [D -> {f.ip : f \in Floating}]

LEMMA AddressedType ==
  ASSUME IpsType, NEW s \in Servers, NEW e \in Parse(s)
  PROVE  Addressed(e.vars) \in Vars
<1>1. e.vars.id \in Ids \cup {NoId} /\ e.vars.ssh \in Addresses
  BY ParseFacts DEF Ids, Addresses
<1>2. \A i \in DOMAIN ips : ips[i] \in Addresses
  BY FloatingAssumption DEF IpsType, Addresses
<1>3. CASE e.vars.id \in DOMAIN ips
  <2>1. Addressed(e.vars) = [id |-> e.vars.id, ssh |-> ips[e.vars.id]]
    BY <1>3, AddressedFacts
  <2> QED BY <1>1, <1>2, <1>3, <2>1 DEF Vars
<1>4. CASE e.vars.id \notin DOMAIN ips
  <2>1. Addressed(e.vars) = [id |-> e.vars.id, ssh |-> e.vars.ssh]
    BY <1>4, AddressedFacts
  <2> QED BY <1>1, <2>1 DEF Vars
<1> QED BY <1>3, <1>4

LEMMA InitType == Init => TypeOK
<1> SUFFICES ASSUME Init PROVE TypeOK OBVIOUS
<1>1. files \in [1..Files -> SUBSET Resources] /\ 1 \in 1..Files /\ 0 \in 0..MaxApplies
  BY StartsAssumption DEF Init, Resources
<1>2. target \in Targets
  BY StartsAssumption DEF Init
<1>3. ips \in [{} -> {f.ip : f \in Floating}] BY DEF Init
<1>4. DOMAIN meta = {} BY DEF Init
<1>5. Cardinality(answer) = 0 BY FS_EmptySet DEF Init
<1> QED BY <1>1, <1>2, <1>3, <1>4, <1>5 DEF Init, TypeOK, Resources

\* Where the passes get to their next file.
LEMMA OpenType ==
  ASSUME TypeOK, NEW i \in 1..Files, Open(i)
  PROVE  at' \in 1..Files /\ pending' \subseteq Resources
BY DEF TypeOK, Open

LEMMA ReadType ==
  ASSUME TypeOK, NEW s \in Servers, ReadHost(s)
  PROVE  TypeOK'
<1>1. PICK e \in Parse(s) : ~Lacking(e) /\ (List(e) \/ Match(e) \/ HostLine(e))
  BY DEF ReadHost
<1>2. /\ UNCHANGED <<files, mode, target, at, ips, applies, quiet, steady>>
      /\ pending' \subseteq Resources /\ phase = "hosts"
  BY DEF ReadHost, TypeOK, input, outside
<1>3. Addressed(e.vars) \in Vars BY AddressedType DEF TypeOK, IpsType
<1>4. e.name \in {t.name : t \in Servers} \cup Ids BY ParseFacts DEF Ids
<1>5. e.groups \subseteq Tags
  <2>1. s.tags \in {t.tags : t \in Servers} OBVIOUS
  <2>2. \A g \in s.tags : g \in Tags BY <2>1 DEF Tags
  <2>3. \A g \in Routable : g \in Tags BY DEF Routable, Tags
  <2>4. e.groups \subseteq s.tags \cup Routable BY ParseFacts
  <2> HIDE DEF Routable
  <2> QED BY <2>2, <2>3, <2>4
<1>6. CASE List(e)
  <2>1. /\ DOMAIN meta' = DOMAIN meta \cup {e.name}
        /\ \A n \in DOMAIN meta' : meta'[n] = IF n = e.name THEN Addressed(e.vars) ELSE meta[n]
    BY <1>6 DEF List
  <2>2. \A n \in DOMAIN meta' : meta'[n] \in Vars BY <1>3, <2>1 DEF TypeOK
  <2>3. members' \subseteq Tags \X DOMAIN meta' BY <1>5, <1>6, <2>1 DEF List, TypeOK
  <2> QED BY <1>2, <1>4, <1>6, <2>1, <2>2, <2>3 DEF List, TypeOK
<1>7. CASE Match(e)
  <2>1. answer' \subseteq Vars /\ Cardinality(answer') \in {0, 1} /\ phase' \in {"hosts", "printed"}
    BY <1>2, <1>3, <1>7, FS_Singleton DEF Match, TypeOK
  <2> QED BY <1>2, <1>7, <2>1 DEF Match, TypeOK
<1>8. CASE HostLine(e)
  <2>1. Addressed(e.vars).ssh \in Addresses BY <1>3 DEF Vars
  <2> QED BY <1>2, <1>4, <1>8, <2>1 DEF HostLine, TypeOK
<1> QED BY <1>1, <1>6, <1>7, <1>8

LEMMA NextType == TypeOK /\ [Next]_vars => TypeOK'
<1> SUFFICES ASSUME TypeOK, [Next]_vars PROVE TypeOK' OBVIOUS
<1> USE DEF input, output, outside
<1>1. ASSUME NEW r \in Resources, ReadIp(r) PROVE TypeOK'
  <2>1. PICK D \in SUBSET Ids : ips \in [D -> {f.ip : f \in Floating}] BY DEF TypeOK
  <2>2. \E E \in SUBSET Ids : ips' \in [E -> {f.ip : f \in Floating}]
    <3>1. CASE r \notin Floating BY <1>1, <2>1, <3>1 DEF ReadIp
    <3>2. CASE r \in Floating
      <4>1. ips' = [i \in D \cup {r.instance_id} |-> IF i = r.instance_id THEN r.ip ELSE ips[i]]
        BY <1>1, <2>1, <3>2 DEF ReadIp
      <4>2. D \cup {r.instance_id} \in SUBSET Ids BY <3>2 DEF Ids
      <4>3. ips' \in [D \cup {r.instance_id} -> {f.ip : f \in Floating}]
        BY <2>1, <3>2, <4>1
      <4> QED BY <4>2, <4>3
    <3> QED BY <3>1, <3>2
  <2> QED BY <1>1, <2>2 DEF ReadIp, TypeOK
<1>2. ASSUME NEW r \in Resources, SkipOther(r) PROVE TypeOK'
  BY <1>2 DEF SkipOther, TypeOK
<1>3. CASE EndIps
  <2>1. at' \in 1..Files /\ pending' \subseteq Resources
    BY <1>3, OpenType, StartsAssumption DEF EndIps, TypeOK
  <2> QED BY <1>3, <2>1 DEF EndIps, TypeOK
<1>4. ASSUME NEW s \in Servers, ReadHost(s) PROVE TypeOK'
  BY <1>4, ReadType
<1>5. ASSUME NEW s \in Servers, RaiseHost(s) PROVE TypeOK'
  BY <1>5 DEF RaiseHost, TypeOK
<1>6. CASE EndHosts
  <2>1. at' \in 1..Files /\ pending' \subseteq Resources
    BY <1>6, OpenType, StartsAssumption DEF EndHosts, TypeOK
  <2> QED BY <1>6, <2>1 DEF EndHosts, TypeOK
<1>7. CASE TerraformApplies
  <2>1. PICK i \in 1..Files, r \in Servers \cup Floating :
          files' \in {[files EXCEPT ![i] = @ \ {r}], [files EXCEPT ![i] = @ \cup {r}]}
    BY <1>7 DEF TerraformApplies
  <2>2. files' \in [1..Files -> SUBSET Resources] BY <2>1 DEF TypeOK, Resources
  <2>3. applies' \in 0..MaxApplies BY <1>7, StartsAssumption DEF TerraformApplies, TypeOK
  <2> QED BY <1>7, <2>2, <2>3 DEF TerraformApplies, TypeOK
<1>8. CASE Over \/ UNCHANGED vars
  BY <1>8 DEF Over, vars, TypeOK
<1> QED BY <1>1, <1>2, <1>3, <1>4, <1>5, <1>6, <1>7, <1>8 DEF Next

\* Every variable keeps its type: every address printed is one a server or a
\* floating IP has, and a group lists only names with hostvars.
THEOREM TypeCorrect == Spec => []TypeOK
BY InitType, NextType, PTL DEF Spec

-----------------------------------------------------------------------------
(* While terraform is quiet.  What each pass has gathered is what the      *)
(* resources it has handled say.                                           *)

Handled ==
  {r \in Resources : \/ \E i \in 1..Files : i < at /\ r \in files[i]
                     \/ r \in files[at] \ pending}

IpsFrom(R) ==
  /\ DOMAIN ips = {f.instance_id : f \in R \cap Floating}
  /\ \A i \in DOMAIN ips : \E f \in R \cap Floating : f.instance_id = i /\ ips[i] = f.ip

Entries(R) == UNION {Parse(s) : s \in R \cap Servers}

ListFrom(R) ==
  /\ DOMAIN meta = {e.name : e \in Entries(R)}
  /\ \A n \in DOMAIN meta :
       \E s \in R \cap Servers : \E e \in Parse(s) : e.name = n /\ Right(s, e, meta[n])
  /\ members = UNION {e.groups \X {e.name} : e \in Entries(R)}

NotFoundIn(R) == answer = {} /\ \A s \in R \cap Servers : \A e \in Parse(s) : e.name # target

FirstPass  == phase = "ips" => IpsFrom(Handled) /\ ListFrom({}) /\ NotFoundIn({})
IpsKnown   == phase # "ips" => IpsFrom(All(files))
SecondPass ==
  /\ phase = "hosts" /\ mode = "list" => ListFrom(Handled)
  /\ phase = "hosts" /\ mode = "host" => NotFoundIn(Handled)
Results    == ListIsRight /\ HostIsRight /\ AbortHasCause

QuietInv ==
  quiet => pending \subseteq files[at] /\ FirstPass /\ IpsKnown /\ SecondPass /\ Results

\* A server has at most one entry.
LEMMA ParseOne ==
  ASSUME NEW s \in Servers, NEW e \in Parse(s)
  PROVE  Parse(s) = {e}
<1>1. CASE s.type \in {"triton", "digitalocean", "azure"}
  BY <1>1 DEF Parse, triton_machine, digitalocean_host, azure_host, Entry
<1>2. CASE s.type \in {"softlayer", "openstack"}
  BY <1>2 DEF Parse, softlayer_host, openstack_host, Entry
<1>3. CASE s.type \in {"aws", "gce"}
  BY <1>3 DEF Parse, aws_host, gce_host, Entry
<1>4. CASE s.type \in {"vsphere", "clc"}
  BY <1>4 DEF Parse, vsphere_host, clc_server, Entry
<1> QED BY <1>1, <1>2, <1>3, <1>4, ServersAssumption DEF Providers

LEMMA EntriesStep ==
  ASSUME NEW R, NEW s \in Servers, NEW e \in Parse(s)
  PROVE  Entries(R \cup {s}) = Entries(R) \cup {e}
BY ParseOne DEF Entries

LEMMA EntriesMembers ==
  ASSUME NEW R, NEW e
  PROVE  e \in Entries(R) <=> \E s \in R \cap Servers : e \in Parse(s)
BY DEF Entries

\* How the handled resources move: one at a time within a file, not at all
\* from a file to the next, and from none to all over a pass.
LEMMA HandleOne ==
  ASSUME TypeOK, pending \subseteq files[at], NEW r \in pending,
         files' = files, at' = at, pending' = pending \ {r}
  PROVE  Handled' = Handled \cup {r} /\ pending' \subseteq files'[at']
BY DEF TypeOK, Handled

LEMMA OpenNext ==
  ASSUME TypeOK, pending = {}, files' = files, Open(at + 1), at < Files
  PROVE  Handled' = Handled /\ pending' \subseteq files'[at']
<1>1. at \in Nat /\ Files \in Nat /\ at + 1 \in 1..Files
  BY StartsAssumption DEF TypeOK
<1>2. ASSUME NEW i \in 1..Files PROVE i < at + 1 <=> (i < at \/ i = at)
  BY <1>1
<1>3. at \in 1..Files BY DEF TypeOK
<1>4. Handled' = {r \in Resources : \E i \in 1..Files : i < at + 1 /\ r \in files[i]}
  BY DEF Handled, Open
<1>5. Handled = {r \in Resources : \E i \in 1..Files : (i < at \/ i = at) /\ r \in files[i]}
  BY <1>3 DEF Handled
<1> QED BY <1>2, <1>4, <1>5 DEF Open

LEMMA OpenFirst ==
  ASSUME files' = files, Open(1)
  PROVE  Handled' = {} /\ pending' \subseteq files'[at']
<1>1. \A i \in 1..Files : ~(i < 1) BY StartsAssumption
<1> QED BY <1>1 DEF Handled, Open

LEMMA AllHandled ==
  ASSUME TypeOK, pending = {}, ~(at < Files)
  PROVE  Handled = All(files)
<1>1. at = Files BY StartsAssumption DEF TypeOK
<1>2. ASSUME NEW i \in 1..Files PROVE i < at \/ i = at BY <1>1, StartsAssumption
<1>3. \A i \in 1..Files : files[i] \subseteq Resources BY DEF TypeOK
<1>4. at \in 1..Files BY DEF TypeOK
<1> QED BY <1>2, <1>3, <1>4 DEF Handled, All

\* What is printed of a server is right once the first pass has gathered the
\* floating IPs of all files.
LEMMA AddressedRight ==
  ASSUME IpsFrom(All(files)), NEW s \in Servers, NEW e \in Parse(s), ~Lacking(e)
  PROVE  Right(s, e, Addressed(e.vars))
<1>1. e.vars.id \in {s.id, NoId} BY ParseFacts
<1>2. CASE e.vars.id \in DOMAIN ips
  <2>1. Addressed(e.vars) = [id |-> e.vars.id, ssh |-> ips[e.vars.id]]
    BY <1>2, AddressedFacts
  <2>2. e.vars.id = s.id /\ e.vars.id # NoId BY <1>1, <1>2 DEF Lacking
  <2>3. PICK f \in All(files) \cap Floating : f.instance_id = s.id /\ ips[s.id] = f.ip
    BY <1>2, <2>2 DEF IpsFrom
  <2>4. f \in FloatingOf(s) BY <2>3 DEF FloatingOf
  <2> QED BY <2>1, <2>2, <2>3, <2>4 DEF Right
<1>3. CASE e.vars.id \notin DOMAIN ips
  <2>1. Addressed(e.vars) = [id |-> e.vars.id, ssh |-> e.vars.ssh]
    BY <1>3, AddressedFacts
  <2>2. e.vars.id # NoId => FloatingOf(s) = {}
    BY <1>1, <1>3 DEF IpsFrom, FloatingOf
  <2> QED BY <2>1, <2>2 DEF Right
<1> QED BY <1>2, <1>3

LEMMA IpsStep ==
  ASSUME TypeOK, IpsFrom(Handled), NEW r \in Resources, ReadIp(r), Handled' = Handled \cup {r}
  PROVE  IpsFrom(Handled)'
<1>1. CASE r \notin Floating
  BY <1>1 DEF ReadIp, IpsFrom
<1>2. CASE r \in Floating
  <2>1. /\ DOMAIN ips' = DOMAIN ips \cup {r.instance_id}
        /\ \A i \in DOMAIN ips' : ips'[i] = IF i = r.instance_id THEN r.ip ELSE ips[i]
    BY <1>2 DEF ReadIp
  <2>2. DOMAIN ips' = {f.instance_id : f \in Handled' \cap Floating}
    BY <1>2, <2>1 DEF IpsFrom
  <2>3. ASSUME NEW i \in DOMAIN ips'
        PROVE  \E f \in Handled' \cap Floating : f.instance_id = i /\ ips'[i] = f.ip
    <3>1. CASE i = r.instance_id BY <1>2, <2>1, <3>1
    <3>2. CASE i # r.instance_id BY <2>1, <3>2 DEF IpsFrom
    <3> QED BY <3>1, <3>2
  <2> QED BY <2>2, <2>3 DEF IpsFrom
<1> QED BY <1>1, <1>2

LEMMA ListStep ==
  ASSUME IpsFrom(All(files)), ListFrom(Handled), NEW s \in Servers, NEW e \in Parse(s),
         ~Lacking(e), List(e), files' = files, Handled' = Handled \cup {s}
  PROVE  ListFrom(Handled)'
<1> DEFINE Old == Entries(Handled)
           New == Entries(Handled)'
<1>1. New = Old \cup {e}
  BY EntriesStep
<1>2. /\ DOMAIN meta' = DOMAIN meta \cup {e.name}
      /\ \A n \in DOMAIN meta' : meta'[n] = IF n = e.name THEN Addressed(e.vars) ELSE meta[n]
      /\ members' = members \cup (e.groups \X {e.name})
  BY DEF List
<1>3. DOMAIN meta = {d.name : d \in Old} /\ members = UNION {d.groups \X {d.name} : d \in Old}
  BY DEF ListFrom
<1>4. DOMAIN meta' = {d.name : d \in New} /\ members' = UNION {d.groups \X {d.name} : d \in New}
  <2> HIDE DEF Old, New
  <2>1. DOMAIN meta' = {d.name : d \in New} BY <1>1, <1>2, <1>3
  <2>2. members' = UNION {d.groups \X {d.name} : d \in New} BY <1>1, <1>2, <1>3
  <2> QED BY <2>1, <2>2
<1>5. ASSUME NEW n \in DOMAIN meta'
      PROVE  \E t \in Handled' \cap Servers : \E d \in Parse(t) :
               d.name = n /\ Right(t, d, meta'[n])
  <2>1. CASE n = e.name
    <3>1. meta'[n] = Addressed(e.vars) BY <1>2, <2>1
    <3>2. Right(s, e, meta'[n]) BY <3>1, AddressedRight
    <3> QED BY <2>1, <3>2
  <2>2. CASE n # e.name
    <3>1. n \in DOMAIN meta /\ meta'[n] = meta[n] BY <1>2, <2>2
    <3>2. PICK t \in Handled \cap Servers : \E d \in Parse(t) : d.name = n /\ Right(t, d, meta[n])
      BY <3>1 DEF ListFrom
    <3> QED BY <3>1, <3>2
  <2> QED BY <2>1, <2>2
<1>6. (\A n \in DOMAIN meta : \E t \in Handled \cap Servers : \E d \in Parse(t) :
         d.name = n /\ Right(t, d, meta[n]))'
  <2> HIDE DEF Handled
  <2>1. All(files)' = All(files) BY DEF All
  <2> QED BY <1>5, <2>1 DEF Right, FloatingOf
<1> QED BY <1>4, <1>6 DEF ListFrom

LEMMA MatchStep ==
  ASSUME NotFoundIn(Handled), NEW s \in Servers, NEW e \in Parse(s), Match(e),
         e.name # target, target' = target, Handled' = Handled \cup {s}
  PROVE  NotFoundIn(Handled)' /\ phase' = phase
<1>1. Parse(s) = {e} BY ParseOne
<1> QED BY <1>1 DEF NotFoundIn, Match

LEMMA InitQuiet == Init => QuietInv
<1> SUFFICES ASSUME Init PROVE QuietInv OBVIOUS
<1>1. phase = "ips" /\ pending = files[at] /\ at = 1 BY DEF Init
<1>2. Handled = {}
  <2>1. \A i \in 1..Files : ~(i < 1) BY StartsAssumption
  <2> QED BY <1>1, <2>1 DEF Handled
<1>3. DOMAIN ips = {} /\ DOMAIN meta = {} /\ members = {} /\ answer = {} BY DEF Init
<1>4. IpsFrom({}) BY <1>3 DEF IpsFrom
<1>5. ListFrom({}) BY <1>3 DEF ListFrom, Entries
<1>6. NotFoundIn({}) BY <1>3 DEF NotFoundIn
<1> QED BY <1>1, <1>2, <1>4, <1>5, <1>6
        DEF QuietInv, FirstPass, IpsKnown, SecondPass, Results, ListIsRight, HostIsRight,
            AbortHasCause

LEMMA ReadIpQuiet ==
  ASSUME TypeOK, QuietInv, quiet, NEW r \in Resources, ReadIp(r)
  PROVE  QuietInv'
<1>1. phase = "ips" /\ phase' = "ips" /\ UNCHANGED <<files, mode, at, meta, members, answer, target>>
  BY DEF ReadIp, input, output, outside
<1>2. Handled' = Handled \cup {r} /\ pending' \subseteq files'[at']
  BY <1>1, HandleOne DEF ReadIp, QuietInv
<1>3. IpsFrom(Handled)' BY <1>1, <1>2, IpsStep DEF QuietInv, FirstPass
<1>4. ListFrom({})' BY <1>1 DEF QuietInv, FirstPass, ListFrom, Entries
<1>5. NotFoundIn({})' BY <1>1 DEF QuietInv, FirstPass, NotFoundIn
<1> QED BY <1>1, <1>2, <1>3, <1>4, <1>5
        DEF QuietInv, FirstPass, IpsKnown, SecondPass, Results, ListIsRight, HostIsRight,
            AbortHasCause

LEMMA EndIpsQuiet ==
  ASSUME TypeOK, QuietInv, quiet, EndIps
  PROVE  QuietInv'
<1>1. /\ phase = "ips" /\ pending = {}
      /\ UNCHANGED <<files, mode, ips, meta, members, answer, target>>
  BY DEF EndIps, input, output, outside
<1>2. IpsFrom(Handled) /\ ListFrom({}) /\ NotFoundIn({})
  BY <1>1 DEF QuietInv, FirstPass
<1>3. ListFrom({})' BY <1>1, <1>2 DEF ListFrom, Entries
<1>4. NotFoundIn({})' BY <1>1, <1>2 DEF NotFoundIn
<1>5. CASE at < Files
  <2>1. Open(at + 1) /\ phase' = "ips" BY <1>1, <1>5 DEF EndIps
  <2>2. Handled' = Handled /\ pending' \subseteq files'[at'] BY <1>1, <1>5, <2>1, OpenNext
  <2>3. IpsFrom(Handled)' BY <1>1, <1>2, <2>2 DEF IpsFrom
  <2> QED BY <1>3, <1>4, <2>1, <2>2, <2>3
          DEF QuietInv, FirstPass, IpsKnown, SecondPass, Results, ListIsRight, HostIsRight,
              AbortHasCause
<1>6. CASE ~(at < Files)
  <2>1. Open(1) /\ phase' = "hosts" BY <1>6 DEF EndIps
  <2>2. Handled' = {} /\ pending' \subseteq files'[at'] BY <1>1, <2>1, OpenFirst
  <2>3. IpsFrom(All(files))
    <3>1. Handled = All(files) BY <1>1, <1>6, AllHandled
    <3> QED BY <1>2, <3>1
  <2>4. IpsFrom(All(files))' BY <1>1, <2>3 DEF IpsFrom, All
  <2>5. ListFrom(Handled)' BY <1>3, <2>2 DEF ListFrom, Entries, Right, FloatingOf
  <2>6. NotFoundIn(Handled)' BY <1>4, <2>2 DEF NotFoundIn
  <2> QED BY <2>1, <2>2, <2>4, <2>5, <2>6
          DEF QuietInv, FirstPass, IpsKnown, SecondPass, Results, ListIsRight, HostIsRight,
              AbortHasCause
<1> QED BY <1>5, <1>6

LEMMA ReadHostQuiet ==
  ASSUME TypeOK, QuietInv, quiet, NEW s \in Servers, ReadHost(s)
  PROVE  QuietInv'
<1>1. /\ phase = "hosts" /\ s \in pending /\ pending' = pending \ {s}
      /\ UNCHANGED <<files, mode, at, ips, target>>
  BY DEF ReadHost, input, outside
<1>2. Handled' = Handled \cup {s} /\ pending' \subseteq files'[at'] /\ s \in files[at]
  BY <1>1, HandleOne DEF QuietInv
<1>3. IpsFrom(All(files)) BY <1>1 DEF QuietInv, IpsKnown
<1>4. IpsFrom(All(files))' BY <1>1, <1>3 DEF IpsFrom, All
<1>5. PICK e \in Parse(s) : ~Lacking(e) /\ (List(e) \/ Match(e) \/ HostLine(e))
  BY DEF ReadHost
<1>6. CASE List(e)
  <2>1. mode = "list" /\ mode' = "list" /\ phase' = "hosts" BY <1>1, <1>6 DEF List
  <2>2. ListFrom(Handled)'
    BY <1>1, <1>2, <1>3, <1>5, <1>6, <2>1, ListStep DEF QuietInv, SecondPass
  <2> QED BY <1>2, <1>4, <2>1, <2>2
          DEF QuietInv, FirstPass, IpsKnown, SecondPass, Results, ListIsRight, HostIsRight,
              AbortHasCause
<1>7. CASE Match(e) /\ e.name # target
  <2>1. mode = "host" /\ mode' = "host" BY <1>1, <1>7 DEF Match
  <2>2. NotFoundIn(Handled)' /\ phase' = phase
    BY <1>1, <1>2, <1>7, <2>1, MatchStep DEF QuietInv, SecondPass
  <2> QED BY <1>1, <1>2, <1>4, <2>1, <2>2
          DEF QuietInv, FirstPass, IpsKnown, SecondPass, Results, ListIsRight, HostIsRight,
              AbortHasCause
<1>8. CASE Match(e) /\ e.name = target
  <2>1. mode' = "host" /\ phase' = "printed" /\ answer' = {Addressed(e.vars)}
    BY <1>1, <1>8 DEF Match
  <2>2. s \in Present'
    <3>1. at \in 1..Files BY DEF TypeOK
    <3>2. s \in All(files) BY <1>2, <3>1 DEF All
    <3> QED BY <1>1, <3>2 DEF Present, All
  <2>3. Right(s, e, Addressed(e.vars))' = Right(s, e, Addressed(e.vars))
    BY <1>1 DEF Right, FloatingOf, All, Addressed
  <2>4. HostIsRight'
    <3>1. Right(s, e, Addressed(e.vars)) BY <1>3, <1>5, AddressedRight
    <3>2. Addressed(e.vars)' = Addressed(e.vars) BY <1>1 DEF Addressed
    <3>3. \A v \in answer' : v = Addressed(e.vars)' BY <2>1, <3>2
    <3>4. Right(s, e, Addressed(e.vars))' BY <2>3, <3>1
    <3>5. \A v \in answer' : Right(s, e, v)' BY <3>3, <3>4 DEF Right
    <3>6. e.name = target' /\ answer' # {} BY <1>1, <1>8, <2>1
    <3> QED BY <2>2, <3>5, <3>6 DEF HostIsRight
  <2> QED BY <1>2, <1>4, <2>1, <2>4
          DEF QuietInv, FirstPass, IpsKnown, SecondPass, Results, ListIsRight, AbortHasCause
<1>9. CASE HostLine(e)
  <2>1. mode' = "hostfile" /\ phase' = "hosts" BY <1>1, <1>9 DEF HostLine
  <2> QED BY <1>2, <1>4, <2>1
          DEF QuietInv, FirstPass, IpsKnown, SecondPass, Results, ListIsRight, HostIsRight,
              AbortHasCause
<1> QED BY <1>5, <1>6, <1>7, <1>8, <1>9

\* A resource without a parser changes nothing the second pass has gathered.
LEMMA SkipOtherQuiet ==
  ASSUME TypeOK, QuietInv, quiet, NEW r \in Resources, SkipOther(r)
  PROVE  QuietInv'
<1>1. /\ phase = "hosts" /\ phase' = "hosts" /\ r \in pending /\ r \notin Servers
      /\ pending' = pending \ {r}
      /\ UNCHANGED <<files, mode, at, ips, target, meta, members, answer>>
  BY DEF SkipOther, input, output, outside
<1>2. Handled' = Handled \cup {r} /\ pending' \subseteq files'[at']
  BY <1>1, HandleOne DEF QuietInv
<1>3. Handled' \cap Servers = Handled \cap Servers BY <1>1, <1>2
<1>4. IpsFrom(All(files))' BY <1>1 DEF QuietInv, IpsKnown, IpsFrom, All
<1>5. mode = "list" => ListFrom(Handled)'
  <2>1. mode = "list" => ListFrom(Handled) BY <1>1 DEF QuietInv, SecondPass
  <2> HIDE DEF Handled
  <2> QED BY <1>1, <1>3, <2>1 DEF ListFrom, Entries, Right, FloatingOf, All
<1>6. mode = "host" => NotFoundIn(Handled)'
  <2>1. mode = "host" => NotFoundIn(Handled) BY <1>1 DEF QuietInv, SecondPass
  <2> QED BY <1>1, <1>3, <2>1 DEF NotFoundIn
<1> QED BY <1>1, <1>2, <1>4, <1>5, <1>6
        DEF QuietInv, FirstPass, IpsKnown, SecondPass, Results, ListIsRight, HostIsRight,
            AbortHasCause

LEMMA RaiseHostQuiet ==
  ASSUME TypeOK, QuietInv, quiet, NEW s \in Servers, RaiseHost(s)
  PROVE  QuietInv'
<1>1. /\ phase = "hosts" /\ phase' = "aborted" /\ s \in pending
      /\ UNCHANGED <<files, mode, at, pending, ips, target>>
  BY DEF RaiseHost, input, output, outside
<1>2. IpsFrom(All(files)) BY <1>1 DEF QuietInv, IpsKnown
<1>3. IpsFrom(All(files))' BY <1>1, <1>2 DEF IpsFrom, All
<1>4. AbortHasCause'
  <2>1. s \in Present'
    <3>1. at \in 1..Files BY DEF TypeOK
    <3>2. s \in All(files) BY <1>1, <3>1 DEF QuietInv, All
    <3> QED BY <1>1, <3>2 DEF Present, All
  <2>2. \A e \in Parse(s) : Lacking(e) BY DEF RaiseHost
  <2>3. CASE Parse(s) = {} BY <2>1, <2>3 DEF AbortHasCause
  <2>4. CASE Parse(s) # {}
    <3>1. PICK e \in Parse(s) : DOMAIN ips # {} /\ e.vars.id = NoId BY <2>2, <2>4 DEF Lacking
    <3>2. (All(files) \cap Floating # {})' BY <1>1, <1>2, <3>1 DEF IpsFrom, All
    <3> QED BY <2>1, <3>1, <3>2 DEF AbortHasCause
  <2> QED BY <2>3, <2>4
<1> QED BY <1>1, <1>3, <1>4
        DEF QuietInv, FirstPass, IpsKnown, SecondPass, Results, ListIsRight, HostIsRight

LEMMA EndHostsQuiet ==
  ASSUME TypeOK, QuietInv, quiet, EndHosts
  PROVE  QuietInv'
<1>1. /\ phase = "hosts" /\ pending = {}
      /\ UNCHANGED <<files, mode, ips, target, meta, members, answer>>
  BY DEF EndHosts, input, output, outside
<1>2. IpsFrom(All(files))' BY <1>1 DEF QuietInv, IpsKnown, IpsFrom, All
<1>3. /\ mode = "list" => ListFrom(Handled)
      /\ mode = "host" => NotFoundIn(Handled)
  BY <1>1 DEF QuietInv, SecondPass
<1>4. CASE at < Files
  <2>1. Open(at + 1) /\ phase' = "hosts" BY <1>1, <1>4 DEF EndHosts
  <2>2. Handled' = Handled /\ pending' \subseteq files'[at'] BY <1>1, <1>4, <2>1, OpenNext
  <2>3. mode = "list" => ListFrom(Handled)'
    <3> HIDE DEF Handled
    <3> QED BY <1>1, <1>3, <2>2 DEF ListFrom, Entries, Right, FloatingOf, All
  <2>4. mode = "host" => NotFoundIn(Handled)' BY <1>1, <1>3, <2>2 DEF NotFoundIn
  <2> QED BY <1>1, <1>2, <2>1, <2>2, <2>3, <2>4
          DEF QuietInv, FirstPass, IpsKnown, SecondPass, Results, ListIsRight, HostIsRight,
              AbortHasCause
<1>5. CASE ~(at < Files)
  <2>1. phase' = "printed" /\ UNCHANGED <<at, pending>> BY <1>5 DEF EndHosts
  <2>2. Handled = All(files) BY <1>1, <1>5, AllHandled
  <2>3. mode = "list" => ListFrom(All(files)) BY <1>3, <2>2
  <2>4. mode = "list" => ListIsRight'
    <3>1. Present' = Present /\ All(files)' = All(files) BY <1>1 DEF Present, All
    <3> QED BY <1>1, <2>3, <3>1 DEF ListIsRight, ListFrom, Entries, Present, Right, FloatingOf
  <2>5. mode = "host" => HostIsRight'
    <3>1. mode = "host" => NotFoundIn(All(files)) BY <1>3, <2>2
    <3> QED BY <1>1, <3>1 DEF HostIsRight, NotFoundIn, Present, All
  <2>6. pending' \subseteq files'[at'] BY <1>1, <2>1
  <2> QED BY <1>1, <1>2, <2>1, <2>4, <2>5, <2>6
          DEF QuietInv, FirstPass, IpsKnown, SecondPass, Results, ListIsRight, HostIsRight,
              AbortHasCause
<1> QED BY <1>4, <1>5

LEMMA NextQuiet == TypeOK /\ QuietInv /\ [Next]_vars => QuietInv'
<1> SUFFICES ASSUME TypeOK, QuietInv, [Next]_vars, quiet' PROVE QuietInv'
  BY DEF QuietInv
<1>1. ASSUME NEW r \in Resources, ReadIp(r) PROVE QuietInv'
  BY <1>1, ReadIpQuiet DEF ReadIp, outside
<1>2. ASSUME NEW r \in Resources, SkipOther(r) PROVE QuietInv'
  BY <1>2, SkipOtherQuiet DEF SkipOther, outside
<1>3. CASE EndIps BY <1>3, EndIpsQuiet DEF EndIps, outside
<1>4. ASSUME NEW s \in Servers, ReadHost(s) PROVE QuietInv'
  BY <1>4, ReadHostQuiet DEF ReadHost, outside
<1>5. ASSUME NEW s \in Servers, RaiseHost(s) PROVE QuietInv'
  BY <1>5, RaiseHostQuiet DEF RaiseHost, outside
<1>6. CASE EndHosts BY <1>6, EndHostsQuiet DEF EndHosts, outside
<1>7. CASE TerraformApplies
  BY <1>7 DEF TerraformApplies
<1>8. CASE Over \/ UNCHANGED vars
  <2>1. UNCHANGED vars BY <1>8 DEF Over
  <2> QED BY <2>1
          DEF vars, QuietInv, FirstPass, IpsKnown, SecondPass, Results, ListIsRight, HostIsRight,
              AbortHasCause, IpsFrom, ListFrom, NotFoundIn, Entries, Handled, All, Present, Right,
              FloatingOf
<1> QED BY <1>1, <1>2, <1>3, <1>4, <1>5, <1>6, <1>7, <1>8 DEF Next

LEMMA Quiet == Spec => []QuietInv
BY TypeCorrect, InitQuiet, NextQuiet, PTL DEF Spec

\* Printed while terraform was quiet, --list has exactly the servers of the
\* files, each with a floating IP of its own if it has one, and the groups
\* their tags make (query_list over iter_host_ips).
THEOREM ListIsRightHolds == Spec => []ListIsRight
<1>1. QuietInv => ListIsRight BY DEF QuietInv, Results, ListIsRight
<1> QED BY <1>1, Quiet, PTL

\* The answer of --host is one --list could have for the name, and there is
\* none only when no server has it (query_host).
THEOREM HostIsRightHolds == Spec => []HostIsRight
<1>1. QuietInv => HostIsRight BY DEF QuietInv, Results, HostIsRight
<1> QED BY <1>1, Quiet, PTL

\* A call fails only over a server whose parser raises, or over one without
\* an id once any server has a floating IP.
THEOREM AbortHasCauseHolds == Spec => []AbortHasCause
<1>1. QuietInv => AbortHasCause BY DEF QuietInv, Results, AbortHasCause
<1> QED BY <1>1, Quiet, PTL

-----------------------------------------------------------------------------
(* Whatever terraform does.  A server that stays has its place in the      *)
(* output or is still pending once the pass has come to a file with it:    *)
(* terraform can take such a server out of a file, but never put it into   *)
(* one, for it adds only what no file has.                                 *)

Told(s) ==
  /\ mode = "list" => \E e \in Parse(s) : e.name \in DOMAIN meta
  /\ mode = "hostfile" => \E e \in Parse(s), l \in lines : l[2] = e.name

SteadyInv ==
  /\ steady \subseteq All(files) \cap Servers
  /\ phase = "hosts" => \A s \in steady : \A k \in 1..at : s \in files[k] => Told(s) \/ s \in pending
  /\ phase = "printed" => \A s \in steady : Told(s)

LEMMA ToldStays ==
  ASSUME NEW s, NEW e, Told(s), List(e) \/ Match(e) \/ HostLine(e), mode' = mode
  PROVE  Told(s)'
BY DEF Told, List, Match, HostLine

LEMMA ToldNow ==
  ASSUME NEW s, NEW e \in Parse(s), List(e) \/ Match(e) \/ HostLine(e), mode' = mode
  PROVE  Told(s)'
<1>1. CASE List(e)
  <2>1. mode' = "list" /\ e.name \in DOMAIN meta' BY <1>1 DEF List
  <2> QED BY <2>1 DEF Told
<1>2. CASE Match(e) BY <1>2 DEF Told, Match
<1>3. CASE HostLine(e)
  <2>1. mode' = "hostfile" /\ <<Addressed(e.vars).ssh, e.name>> \in lines' BY <1>3 DEF HostLine
  <2> QED BY <2>1 DEF Told
<1> QED BY <1>1, <1>2, <1>3

LEMMA NextSteady == TypeOK /\ SteadyInv /\ [Next]_vars => SteadyInv'
<1> SUFFICES ASSUME TypeOK, SteadyInv, [Next]_vars PROVE SteadyInv' OBVIOUS
<1> USE DEF input, output, outside
<1>0. at \in 1..Files /\ Files \in Nat /\ 1 \in 1..Files BY StartsAssumption DEF TypeOK
<1>1. ASSUME NEW r \in Resources, ReadIp(r) PROVE SteadyInv'
  BY <1>1 DEF ReadIp, SteadyInv, All
<1>2. ASSUME NEW r \in Resources, SkipOther(r) PROVE SteadyInv'
  <2>1. \A s \in steady : s # r BY <1>2 DEF SkipOther, SteadyInv
  <2> QED BY <1>2, <2>1 DEF SkipOther, SteadyInv, All, Told
<1>3. CASE EndIps
  <2>1. CASE at < Files BY <1>3, <2>1 DEF EndIps, Open, SteadyInv, All
  <2>2. CASE ~(at < Files)
    <3>1. phase' = "hosts" /\ at' = 1 /\ pending' = files'[1] /\ UNCHANGED <<files, steady>>
      BY <1>3, <2>2 DEF EndIps, Open
    <3>2. \A k \in 1..at' : k = 1 BY <3>1
    <3> QED BY <3>1, <3>2 DEF SteadyInv, All
  <2> QED BY <2>1, <2>2
<1>4. ASSUME NEW s \in Servers, ReadHost(s) PROVE SteadyInv'
  <2>1. /\ phase = "hosts" /\ pending' = pending \ {s}
        /\ UNCHANGED <<files, mode, at, steady>>
    BY <1>4 DEF ReadHost
  <2>2. PICK e \in Parse(s) : List(e) \/ Match(e) \/ HostLine(e) BY <1>4 DEF ReadHost
  <2>3. Told(s)' /\ \A t \in steady : Told(t) => Told(t)'
    BY <2>1, <2>2, ToldNow, ToldStays
  <2>4. CASE phase' = "hosts"
    BY <2>1, <2>3, <2>4 DEF SteadyInv, All
  <2>5. CASE phase' # "hosts"
    <3>1. mode' = "host" /\ phase' = "printed" BY <2>1, <2>2, <2>5 DEF List, Match, HostLine
    <3> QED BY <2>1, <3>1 DEF SteadyInv, All, Told
  <2> QED BY <2>4, <2>5
<1>5. ASSUME NEW s \in Servers, RaiseHost(s) PROVE SteadyInv'
  BY <1>5 DEF RaiseHost, SteadyInv, All
<1>6. CASE EndHosts
  <2>1. /\ phase = "hosts" /\ pending = {}
        /\ UNCHANGED <<files, mode, meta, lines, steady>>
    BY <1>6 DEF EndHosts
  <2>2. \A s \in steady : \A k \in 1..at : s \in files[k] => Told(s)
    BY <2>1 DEF SteadyInv
  <2>3. \A s : Told(s)' <=> Told(s) BY <2>1 DEF Told
  <2>4. CASE at < Files
    <3>1. phase' = "hosts" /\ at' = at + 1 /\ pending' = files'[at'] /\ files' = files
      BY <1>6, <2>1, <2>4 DEF EndHosts, Open
    <3>2. \A k \in 1..at' : k \in 1..at \/ k = at' BY <1>0, <3>1
    <3>3. \A s \in steady' : \A k \in 1..at' : s \in files'[k] => Told(s)' \/ s \in pending'
      BY <2>1, <2>2, <2>3, <3>1, <3>2
    <3> QED BY <2>1, <3>1, <3>3 DEF SteadyInv, All
  <2>5. CASE ~(at < Files)
    <3>1. at = Files BY <1>0, <2>5
    <3>2. phase' = "printed" BY <1>6, <2>5 DEF EndHosts
    <3>3. \A s \in steady : \E k \in 1..at : s \in files[k] BY <3>1 DEF SteadyInv, All
    <3>4. \A s \in steady' : Told(s)' BY <2>1, <2>2, <2>3, <3>3
    <3> QED BY <2>1, <3>2, <3>4 DEF SteadyInv, All
  <2> QED BY <2>4, <2>5
<1>7. CASE TerraformApplies
  <2>1. /\ phase \in {"ips", "hosts"} /\ steady' = steady \cap All(files)'
        /\ UNCHANGED <<phase, mode, at, pending, meta, lines>>
    BY <1>7 DEF TerraformApplies, All
  <2>2. PICK i \in 1..Files, r \in Servers \cup Floating :
          \/ files' = [files EXCEPT ![i] = @ \ {r}]
          \/ r \notin All(files) /\ files' = [files EXCEPT ![i] = @ \cup {r}]
    BY <1>7 DEF TerraformApplies
  <2>3. \A s \in steady : s \in All(files) BY DEF SteadyInv
  <2>4. \A s \in steady, k \in 1..Files : s \in files'[k] => s \in files[k]
    BY <2>2, <2>3 DEF TypeOK
  <2>5. \A s : Told(s)' <=> Told(s) BY <2>1 DEF Told
  <2>6. \A k \in 1..at : k \in 1..Files BY <1>0
  <2> QED BY <2>1, <2>4, <2>5, <2>6 DEF SteadyInv
<1>8. CASE Over \/ UNCHANGED vars
  BY <1>8 DEF Over, vars, SteadyInv, All, Told
<1> QED BY <1>1, <1>2, <1>3, <1>4, <1>5, <1>6, <1>7, <1>8 DEF Next

\* A server that stays in its file is never left out of what is printed,
\* whatever terraform does during the two passes.
THEOREM NoServerLeftOutHolds == Spec => []NoServerLeftOut
<1>1. Init => SteadyInv BY DEF Init, SteadyInv
<1>2. SteadyInv => NoServerLeftOut BY DEF SteadyInv, NoServerLeftOut, Told
<1> QED BY <1>1, <1>2, TypeCorrect, NextSteady, PTL DEF Spec

=============================================================================

------------------------ MODULE InventoryBuilderProofs ------------------------
(***************************************************************************)
(* Proofs about InventoryBuilder, for any addresses, thresholds and bounds *)
(* and any number of hosts.  TypeOK and NoDangling hold whatever is loaded *)
(* from files; the other properties need that nothing is, since "load"     *)
(* sets any name in any group.                                             *)
(***************************************************************************)
EXTENDS InventoryBuilder, WellFoundedInduction, SequenceTheorems, TLAPS

\* A non-empty set of numbers up to a bound has a greatest element.
LEMMA Greatest ==
  ASSUME NEW B \in Nat, NEW S \in SUBSET (0 .. B), S # {}
  PROVE  \E n \in S : \A m \in S : m <= n
<1> DEFINE T == {B - n : n \in S}
<1>1. T \subseteq Nat /\ T # {}
  <2>1. \A n \in S : B - n \in Nat
    OBVIOUS
  <2>2. PICK n \in S : TRUE
    OBVIOUS
  <2>3. B - n \in T
    OBVIOUS
  <2> QED BY <2>1, <2>3
<1>2. PICK x \in T : \A y \in T : ~ (<<y, x>> \in OpToRel(<, Nat))
  BY <1>1, NatLessThanWellFounded, WFMin
<1>3. PICK n \in S : x = B - n
  BY <1>2
<1>4. ASSUME NEW m \in S PROVE m <= n
  <2>1. B - m \in T /\ B - m \in Nat /\ x \in Nat
    BY <1>1, <1>2
  <2>2. ~ (B - m < x)
    BY <2>1, <1>2 DEF OpToRel
  <2> QED BY <2>1, <2>2, <1>3
<1> QED BY <1>4

LEMMA RemoveAtProperties ==
  ASSUME NEW S, NEW s \in Seq(S), NEW i \in 1 .. Len(s)
  PROVE  /\ RemoveAt(s, i) \in Seq(S)
         /\ Len(RemoveAt(s, i)) = Len(s) - 1
         /\ \A k \in 1 .. Len(s) - 1 :
              RemoveAt(s, i)[k] = IF k < i THEN s[k] ELSE s[k + 1]
<1> DEFINE a == SubSeq(s, 1, i - 1)
           b == SubSeq(s, i + 1, Len(s))
<1>1. /\ a \in Seq(S) /\ Len(a) = i - 1
      /\ \A k \in 1 .. i - 1 : a[k] = s[k]
  BY SMT
<1>2. /\ b \in Seq(S) /\ Len(b) = Len(s) - i
      /\ \A k \in 1 .. Len(s) - i : b[k] = s[i + k]
  BY SMT
<1>3. RemoveAt(s, i) = a \o b
  BY DEF RemoveAt
<1> HIDE DEF a, b
<1>4. a \o b \in Seq(S) /\ Len(a \o b) = Len(s) - 1
  <2>1. a \o b \in Seq(S) /\ Len(a \o b) = Len(a) + Len(b)
    BY <1>1, <1>2, ConcatProperties
  <2>2. i \in Nat /\ Len(s) \in Nat
    BY LenProperties
  <2> QED BY <2>1, <2>2, <1>1, <1>2
<1>5. \A k \in 1 .. Len(s) - 1 : (a \o b)[k] = IF k < i THEN s[k] ELSE s[k + 1]
  BY <1>1, <1>2, ConcatProperties
<1> QED BY <1>3, <1>4, <1>5

-----------------------------------------------------------------------------
(***************************************************************************)
(* Type correctness, and what a write leaves in the file.                  *)
(***************************************************************************)
Sectioned == [Groups -> SUBSET (1 .. MaxId)]

LEMMA IdsTyped ==
  ASSUME NEW s \in Seq(Host)
  PROVE  Ids(s) \in SUBSET (1 .. MaxId)
<1>1. \A i \in DOMAIN s : s[i] \in Host
  BY LenProperties
<1>2. \A i \in DOMAIN s : s[i].id \in 1 .. MaxId
  BY <1>1 DEF Host
<1> QED BY <1>2 DEF Ids

LEMMA HighestIdIsHighest ==
  ASSUME all \in Seq(Host)
  PROVE  HighestId \in 0 .. MaxId /\ \A m \in Ids(all) : m <= HighestId
<1> DEFINE S == Ids(all) \cup {0}
<1>1. S \in SUBSET (0 .. MaxId) /\ S # {} /\ MaxId \in Nat
  BY IdsTyped, BoundsAssumption
<1>2. PICK n \in S : \A m \in S : m <= n
  BY <1>1, Greatest
<1>3. HighestId \in S /\ \A m \in Ids(all) : m <= HighestId
  BY <1>2 DEF HighestId
<1> QED BY <1>1, <1>3

\* What a write of a and gs leaves, whether or not it is cut.
Left(a, gs, complete) ==
  /\ all' \in Seq(Host) /\ groups' \in Sectioned /\ whole' \in BOOLEAN
  /\ crashes' \in 0 .. MaxCrashes
  /\ Len(all') <= Len(a) /\ \A i \in DOMAIN all' : i \in DOMAIN a /\ all'[i] = a[i]
  /\ \A g \in Groups : groups'[g] \subseteq gs[g]
  /\ all' = a \/ \A g \in Groups : groups'[g] = {}
  /\ whole' => all' = a /\ groups' = gs /\ complete

LEMMA WriteLeaves ==
  ASSUME TypeOK, NEW a \in Seq(Host), NEW gs \in Sectioned, NEW complete \in BOOLEAN,
         WriteConfig(a, gs, complete)
  PROVE  Left(a, gs, complete)
<1>1. CASE all' = a /\ groups' = gs /\ whole' = complete /\ UNCHANGED crashes
  BY <1>1 DEF Left, TypeOK
<1>2. CASE WriteCut(a, gs)
  <2>1. crashes' \in 0 .. MaxCrashes /\ whole' = FALSE
    BY <1>2, BoundsAssumption DEF WriteCut, TypeOK
  <2>2. CASE all' \in Prefixes(a) /\ groups' = [g \in Groups |-> {}]
    <3>1. PICK l \in 0 .. Len(a) : all' = SubSeq(a, 1, l)
      BY <2>2 DEF Prefixes
    <3>2. /\ all' \in Seq(Host) /\ Len(all') = l /\ l \in Nat
          /\ \A i \in 1 .. l : all'[i] = a[i]
      BY <3>1, LenProperties
    <3>3. \A i \in DOMAIN all' : i \in DOMAIN a /\ all'[i] = a[i]
      BY <3>2, LenProperties
    <3>4. groups' \in Sectioned
      BY <2>2 DEF Sectioned
    <3>5. Len(all') <= Len(a)
      BY <3>2, LenProperties
    <3>6. \A g \in Groups : groups'[g] = {}
      BY <2>2
    <3>7. \A g \in Groups : groups'[g] \subseteq gs[g]
      BY <3>6
    <3> QED BY <2>1, <3>2, <3>3, <3>4, <3>5, <3>6, <3>7 DEF Left
  <2>3. ASSUME all' = a, NEW last \in Groups, NEW part \in SUBSET (1 .. MaxId),
               part \subseteq gs[last],
               groups' = [g \in Groups |-> IF g = last THEN part
                                           ELSE IF Position[g] < Position[last] THEN gs[g]
                                           ELSE {}]
        PROVE  Left(a, gs, complete)
    <3>1. groups' \in Sectioned /\ \A g \in Groups : groups'[g] \subseteq gs[g]
      BY <2>3 DEF Sectioned
    <3>2. Len(all') <= Len(a) /\ \A i \in DOMAIN all' : i \in DOMAIN a /\ all'[i] = a[i]
      BY <2>3, LenProperties
    <3> QED BY <2>1, <2>3, <3>1, <3>2 DEF Left
  <2> QED BY <1>2, <2>2, <2>3 DEF WriteCut
<1> QED BY <1>1, <1>2 DEF WriteConfig

LEMMA SectionsOfHosts ==
  ASSUME hosts \in Seq(Host)
  PROVE  Sections \in Sectioned /\ \A g \in Groups : Sections[g] \subseteq Ids(hosts)
<1>1. Ids(hosts) \in SUBSET (1 .. MaxId)
  BY IdsTyped
<1>2. \A from, to \in Nat : Slice(from, to) \subseteq Ids(hosts)
  BY DEF Slice, Ids
<1>3. \A g \in Groups : Kept(g) \subseteq Ids(hosts)
  BY DEF Kept
<1>4. /\ SetKubeMaster \subseteq Ids(hosts) /\ SetKubeNode \subseteq Ids(hosts)
      /\ SetEtcd \subseteq Ids(hosts) /\ SetCalicoRr \subseteq Ids(hosts)
      /\ SetVault \subseteq Ids(hosts)
  BY <1>2, <1>3 DEF SetKubeMaster, SetKubeNode, SetEtcd, SetCalicoRr, SetVault, Groups
<1>5. \A g \in Groups : Section(g) \subseteq Ids(hosts)
  BY <1>4 DEF Section, Groups
<1>6. Sections = [g \in Groups |-> Section(g)]
  BY DEF Sections
<1>7. \A g \in Groups : Sections[g] = Section(g)
  BY <1>6
<1>8. \A g \in Groups : Section(g) \in SUBSET (1 .. MaxId)
  BY <1>1, <1>5
<1> QED BY <1>5, <1>6, <1>7, <1>8 DEF Sectioned

\* The host a load sets, and the section "all" it makes.
Loaded(g, n, ip) == [id |-> n, ip |-> IF g = "all" THEN NoIP ELSE ip]
LoadedAll(g, n, ip) ==
  IF n \in Ids(all)
  THEN [i \in DOMAIN all |-> IF all[i].id = n THEN Loaded(g, n, ip) ELSE all[i]]
  ELSE Append(all, Loaded(g, n, ip))
LoadedGroups(g, n) ==
  [x \in Groups |-> IF x = g THEN groups[x] \cup {n} ELSE groups[x]]

LEMMA LoadedTyped ==
  ASSUME TypeOK, NEW g \in Loads, NEW n \in 1 .. MaxId, NEW ip \in IPs
  PROVE  /\ LoadedAll(g, n, ip) \in Seq(Host) /\ LoadedGroups(g, n) \in Sectioned
         /\ Ids(all) \cup {n} \subseteq Ids(LoadedAll(g, n, ip))
<1> DEFINE h == Loaded(g, n, ip)
           s == LoadedAll(g, n, ip)
<1>1. h \in Host /\ h.id = n
  BY DEF Loaded, Host
<1>2. LoadedGroups(g, n) \in Sectioned
  BY DEF LoadedGroups, Sectioned, TypeOK
<1>3. all \in Seq(Host)
  BY DEF TypeOK
<1> HIDE DEF h
<1>4. CASE n \in Ids(all)
  <2>1. s = [i \in DOMAIN all |-> IF all[i].id = n THEN h ELSE all[i]]
    BY <1>4 DEF LoadedAll, h
  <2>2. DOMAIN s = DOMAIN all /\ DOMAIN all = 1 .. Len(all) /\ Len(all) \in Nat
    BY <1>3, <2>1, LenProperties
  <2>3. \A i \in DOMAIN all : s[i] \in Host /\ s[i].id = all[i].id
    BY <1>1, <1>3, <2>1
  <2>4. s \in Seq(Host)
    <3>1. s \in [1 .. Len(all) -> Host]
      BY <2>1, <2>2, <2>3
    <3> QED BY <2>2, <3>1, SeqDef
  <2>5. Ids(all) \subseteq Ids(s)
    BY <2>2, <2>3 DEF Ids
  <2> QED BY <1>2, <1>4, <2>4, <2>5
<1>5. CASE n \notin Ids(all)
  <2>1. s = Append(all, h)
    BY <1>5 DEF LoadedAll, h
  <2>2. s \in Seq(Host) /\ Len(s) = Len(all) + 1 /\ s[Len(all) + 1] = h
        /\ \A i \in 1 .. Len(all) : s[i] = all[i]
    BY <1>1, <1>3, <2>1, AppendProperties
  <2>3. DOMAIN s = 1 .. Len(all) + 1 /\ DOMAIN all = 1 .. Len(all) /\ Len(all) \in Nat
    BY <1>3, <2>2, LenProperties
  <2>4. Ids(all) \cup {n} \subseteq Ids(s)
    BY <1>1, <2>2, <2>3 DEF Ids
  <2> QED BY <1>2, <2>2, <2>4
<1> QED BY <1>4, <1>5

LEMMA LoadWrites ==
  ASSUME TypeOK, NEW g \in Loads, NEW n \in 1 .. MaxId, NEW ip \in IPs, Load(g, n, ip)
  PROVE  /\ Left(LoadedAll(g, n, ip), LoadedGroups(g, n), whole)
         /\ UNCHANGED call
<1>1. WriteConfig(LoadedAll(g, n, ip), LoadedGroups(g, n), whole) /\ UNCHANGED call
  BY DEF Load, LoadedAll, LoadedGroups, Loaded
<1>2. whole \in BOOLEAN
  BY DEF TypeOK
<1> QED BY <1>1, <1>2, LoadedTyped, WriteLeaves

-----------------------------------------------------------------------------
(***************************************************************************)
(* Deleting a host.                                                        *)
(***************************************************************************)

\* s without its i-th host.
Without(s, i) ==
  /\ s' \in Seq(Host) /\ Len(s') = Len(s) - 1
  /\ \A k \in 1 .. Len(s) - 1 : s'[k] = IF k < i THEN s[k] ELSE s[k + 1]

LEMMA FirstOfIsIn ==
  ASSUME hosts \in Seq(Host), NEW ip \in IPs, IpAt(ip) # {}
  PROVE  FirstOf(IpAt(ip)) \in DOMAIN hosts /\ hosts[FirstOf(IpAt(ip))].ip = ip
<1>1. IpAt(ip) \subseteq 1 .. Len(hosts) /\ Len(hosts) \in Nat
  BY LenProperties DEF IpAt
<1> DEFINE N == Len(hosts)
           T == {N - i : i \in IpAt(ip)}
<1>2. \E i \in IpAt(ip) : \A j \in IpAt(ip) : i <= j
  <2>1. T \in SUBSET (0 .. N) /\ T # {}
    <3>1. \A i \in IpAt(ip) : N - i \in 0 .. N
      BY <1>1
    <3>2. PICK i \in IpAt(ip) : TRUE
      OBVIOUS
    <3>3. N - i \in T
      OBVIOUS
    <3> QED BY <3>1, <3>3
  <2>2. PICK x \in T : \A y \in T : y <= x
    BY <2>1, <1>1, Greatest
  <2>3. PICK i \in IpAt(ip) : x = N - i
    OBVIOUS
  <2>4. ASSUME NEW j \in IpAt(ip) PROVE i <= j
    <3>1. N - j \in T
      OBVIOUS
    <3>2. N - j <= x
      BY <2>2, <3>1
    <3> QED BY <3>2, <2>3, <1>1
  <2> QED BY <2>4
<1>3. FirstOf(IpAt(ip)) \in IpAt(ip)
  BY <1>2 DEF FirstOf
<1> QED BY <1>3 DEF IpAt

LEMMA RemovedIsWithout ==
  ASSUME hosts \in Seq(Host), NEW i \in DOMAIN hosts, hosts' = RemoveAt(hosts, i)
  PROVE  Without(hosts, i)
<1>1. i \in 1 .. Len(hosts)
  BY LenProperties
<1> QED BY <1>1, RemoveAtProperties DEF Without

LEMMA DeleteByIpRemoves ==
  ASSUME hosts \in Seq(Host), NEW ip \in IPs, DeleteByIp(ip)
  PROVE  /\ hosts' \in Seq(Host)
         /\ UNCHANGED hosts \/ \E i \in DOMAIN hosts : Without(hosts, i)
<1>1. CASE IpAt(ip) = {}
  BY <1>1 DEF DeleteByIp
<1>2. CASE IpAt(ip) # {}
  <2>1. FirstOf(IpAt(ip)) \in DOMAIN hosts
    BY <1>2, FirstOfIsIn
  <2>2. hosts' = RemoveAt(hosts, FirstOf(IpAt(ip)))
    BY <1>2 DEF DeleteByIp
  <2>3. Without(hosts, FirstOf(IpAt(ip)))
    BY <2>1, <2>2, RemovedIsWithout
  <2> QED BY <2>1, <2>3 DEF Without
<1> QED BY <1>1, <1>2

LEMMA DeleteByNameRemoves ==
  ASSUME hosts \in Seq(Host), NEW n \in 1 .. MaxId, DeleteByName(n)
  PROVE  /\ hosts' \in Seq(Host)
         /\ UNCHANGED hosts \/ \E i \in DOMAIN hosts : Without(hosts, i)
<1>1. CASE UNCHANGED hosts
  BY <1>1
<1>2. ASSUME NEW i \in DOMAIN hosts, hosts' = RemoveAt(hosts, i)
      PROVE  hosts' \in Seq(Host) /\ Without(hosts, i)
  BY <1>2, RemovedIsWithout DEF Without
<1> QED BY <1>1, <1>2 DEF DeleteByName

-----------------------------------------------------------------------------
LEMMA Zero == 1 \in 1 .. MaxId + 1 /\ 0 \in 0 .. MaxArgs /\ 0 \in 0 .. MaxCrashes
              /\ << >> \in Seq(Host)
BY BoundsAssumption, EmptySeq

LEMMA TypeInit == Init => TypeOK
BY Zero DEF Init, TypeOK

LEMMA TypeStep == TypeOK /\ [Next]_vars => TypeOK'
<1> SUFFICES ASSUME TypeOK, [Next]_vars PROVE TypeOK'
  OBVIOUS
<1> USE BoundsAssumption
<1>s. all \in Seq(Host) /\ hosts \in Seq(Host)
  BY DEF TypeOK
<1>1. CASE Start
  <2>1. nextId' \in 1 .. MaxId + 1
    BY <1>1, <1>s, HighestIdIsHighest DEF Start, NextHostId
  <2> QED BY <1>1, <2>1 DEF Start, TypeOK, file
<1>2. CASE Abort
  BY <1>2, Zero DEF Abort, EndCall, TypeOK, file
<1>3. CASE Write
  <2>1. Left(hosts, Sections, TRUE)
    BY <1>3, <1>s, SectionsOfHosts, WriteLeaves DEF Write
  <2>2. hosts' \in Seq(Host) /\ nextId' \in 1 .. MaxId + 1 /\ args' \in 0 .. MaxArgs
        /\ running' \in BOOLEAN
    BY <1>3, Zero DEF Write, EndCall
  <2> QED BY <2>1, <2>2 DEF TypeOK, Left, Sectioned
<1>4. ASSUME NEW ip \in IPs, AddHost(ip) PROVE TypeOK'
  <2>1. args' \in 0 .. MaxArgs /\ running' = running /\ crashes' = crashes /\ UNCHANGED file
    BY <1>4 DEF AddHost, Argument, TypeOK
  <2>2. CASE IpAt(ip) # {}
    BY <1>4, <2>1, <2>2 DEF AddHost, TypeOK, file
  <2>3. CASE IpAt(ip) = {}
    <3>1. nextId <= MaxId /\ hosts' = Append(hosts, [id |-> nextId, ip |-> ip])
          /\ nextId' = nextId + 1
      BY <1>4, <2>3 DEF AddHost
    <3>2. nextId \in 1 .. MaxId /\ nextId' \in 1 .. MaxId + 1
      BY <3>1 DEF TypeOK
    <3>3. [id |-> nextId, ip |-> ip] \in Host
      BY <3>2 DEF Host
    <3>4. hosts' \in Seq(Host)
      BY <3>1, <3>3, <1>s, AppendProperties
    <3> QED BY <2>1, <3>2, <3>4 DEF TypeOK, file
  <2> QED BY <2>2, <2>3
<1>5. ASSUME NEW ip \in IPs, DeleteByIp(ip) PROVE TypeOK'
  <2>1. args' \in 0 .. MaxArgs /\ UNCHANGED <<nextId, file, running, crashes>>
    BY <1>5 DEF DeleteByIp, Argument, TypeOK
  <2>2. hosts' \in Seq(Host)
    BY <1>5, <1>s, DeleteByIpRemoves
  <2> QED BY <2>1, <2>2 DEF TypeOK, file
<1>6. ASSUME NEW n \in 1 .. MaxId, DeleteByName(n) PROVE TypeOK'
  <2>1. args' \in 0 .. MaxArgs /\ UNCHANGED <<nextId, file, running, crashes>>
    BY <1>6 DEF DeleteByName, Argument, TypeOK
  <2>2. hosts' \in Seq(Host)
    BY <1>6, <1>s, DeleteByNameRemoves
  <2> QED BY <2>1, <2>2 DEF TypeOK, file
<1>7. ASSUME NEW g \in Loads, NEW n \in 1 .. MaxId, NEW ip \in IPs, Load(g, n, ip)
      PROVE  TypeOK'
  BY <1>7, LoadWrites DEF TypeOK, Left, Sectioned, call
<1>8. CASE UNCHANGED vars
  BY <1>8 DEF vars, file, call, TypeOK
<1> QED BY <1>1, <1>2, <1>3, <1>4, <1>5, <1>6, <1>7, <1>8 DEF Next

\* Every variable has its type, whatever is added, deleted and loaded
\* (inventory.py:140-253).
THEOREM TypeCorrect == Spec => []TypeOK
BY TypeInit, TypeStep, PTL DEF Spec

-----------------------------------------------------------------------------
(***************************************************************************)
(* No group names a host that is gone.                                     *)
(***************************************************************************)
LEMMA DanglingStep == TypeOK /\ NoDangling /\ [Next]_vars => NoDangling'
<1> SUFFICES ASSUME TypeOK, NoDangling, [Next]_vars PROVE NoDangling'
  OBVIOUS
<1>1. CASE Write
  <2>1. hosts \in Seq(Host)
    BY DEF TypeOK
  <2>2. Left(hosts, Sections, TRUE) /\ \A g \in Groups : Sections[g] \subseteq Ids(hosts)
    BY <1>1, <2>1, SectionsOfHosts, WriteLeaves DEF Write
  <2> QED BY <2>2 DEF Left, NoDangling, Ids
<1>2. ASSUME NEW g \in Loads, NEW n \in 1 .. MaxId, NEW ip \in IPs, Load(g, n, ip)
      PROVE  NoDangling'
  <2> DEFINE s == LoadedAll(g, n, ip)
             gs == LoadedGroups(g, n)
  <2>1. Left(s, gs, whole) /\ Ids(all) \cup {n} \subseteq Ids(s)
    BY <1>2, LoadWrites, LoadedTyped
  <2>2. \A x \in Groups : gs[x] \subseteq Ids(s)
    BY <2>1 DEF NoDangling, LoadedGroups
  <2> HIDE DEF s, gs
  <2> QED BY <2>1, <2>2 DEF Left, NoDangling, Ids
<1>3. CASE UNCHANGED file
  BY <1>3 DEF file, NoDangling, Ids
<1>4. ASSUME NEW ip \in IPs, AddHost(ip) \/ DeleteByIp(ip) PROVE UNCHANGED file
  BY <1>4 DEF AddHost, DeleteByIp
<1>5. ASSUME NEW n \in 1 .. MaxId, DeleteByName(n) PROVE UNCHANGED file
  BY <1>5 DEF DeleteByName
<1> QED BY <1>1, <1>2, <1>3, <1>4, <1>5 DEF Next, Start, Abort, vars

\* No group names a host that is not in "all", after any deletions, loads and
\* interrupted writes (purge_invalid_hosts, inventory.py:198-204).
THEOREM NoDanglingHolds == Spec => []NoDangling
<1>1. Init => NoDangling
  BY DEF Init, NoDangling
<1> QED BY <1>1, TypeCorrect, DanglingStep, PTL DEF Spec

-----------------------------------------------------------------------------
(***************************************************************************)
(* The inductive invariant, when nothing is loaded: hosts stand in the     *)
(* order of their numbers, in the file and in the call, and a host of the  *)
(* call is one of the file, no further back than there, or newer than all  *)
(* of them.                                                                *)
(***************************************************************************)
Rising(s)     == \A i, j \in DOMAIN s : i < j => s[i].id < s[j].id
OneAddress(s) == \A i, j \in DOMAIN s : s[i].ip = s[j].ip => i = j

Inherited(i) == \E p \in DOMAIN all : i <= p /\ hosts[i] = all[p]
Newer(i)     == \A p \in DOMAIN all : all[p].id < hosts[i].id

CallInv ==
  running =>
    /\ \A i \in DOMAIN all : all[i].id < nextId
    /\ \A i \in DOMAIN hosts : hosts[i].id < nextId
    /\ \A i \in DOMAIN hosts : Inherited(i) \/ Newer(i)

EtcdWithin == groups["etcd"] \subseteq FirstHosts(3)

IInv ==
  /\ TypeOK
  /\ Rising(all) /\ OneAddress(all)
  /\ Rising(hosts) /\ OneAddress(hosts)
  /\ CallInv
  /\ EtcdWithin /\ EtcdIsFirstThree

\* What the proofs use of the types.
LEMMA Typed ==
  ASSUME TypeOK
  PROVE  /\ all \in Seq(Host) /\ hosts \in Seq(Host)
         /\ DOMAIN all = 1 .. Len(all) /\ Len(all) \in Nat
         /\ DOMAIN hosts = 1 .. Len(hosts) /\ Len(hosts) \in Nat
         /\ \A i \in DOMAIN all : all[i] \in Host /\ all[i].id \in Nat
         /\ \A i \in DOMAIN hosts : hosts[i] \in Host /\ hosts[i].id \in Nat
         /\ nextId \in Nat
<1>1. all \in Seq(Host) /\ hosts \in Seq(Host) /\ nextId \in Nat
  BY BoundsAssumption DEF TypeOK
<1>2. /\ DOMAIN all = 1 .. Len(all) /\ Len(all) \in Nat
      /\ DOMAIN hosts = 1 .. Len(hosts) /\ Len(hosts) \in Nat
      /\ \A i \in DOMAIN all : all[i] \in Host
      /\ \A i \in DOMAIN hosts : hosts[i] \in Host
  BY <1>1, LenProperties
<1>3. \A h \in Host : h.id \in Nat
  BY BoundsAssumption DEF Host
<1> QED BY <1>1, <1>2, <1>3

LEMMA InvInit == Init => IInv
<1> SUFFICES ASSUME Init PROVE IInv
  OBVIOUS
<1>1. TypeOK
  BY TypeInit
<1>2. all = << >> /\ hosts = << >> /\ groups["etcd"] = {} /\ running = FALSE
  BY DEF Init, Groups
<1>3. DOMAIN all = {} /\ DOMAIN hosts = {}
  BY <1>2
<1> QED BY <1>1, <1>2, <1>3 DEF IInv, Rising, OneAddress, CallInv, EtcdWithin,
        EtcdIsFirstThree, FirstHosts

\* A call that goes on with some of its hosts, in their order, keeps the
\* invariant.
LEMMA DeletionKeeps ==
  ASSUME IInv, TypeOK', NEW i \in DOMAIN hosts, Without(hosts, i),
         UNCHANGED <<nextId, file, running, crashes>>
  PROVE  IInv'
<1> DEFINE Shift(k) == IF k < i THEN k ELSE k + 1
<1>t. TypeOK
  BY DEF IInv
<1>1. DOMAIN hosts' = 1 .. Len(hosts) - 1
  BY LenProperties DEF Without
<1>2. \A k \in DOMAIN hosts' : /\ k \in Nat /\ Shift(k) \in Nat
                               /\ Shift(k) \in DOMAIN hosts /\ k <= Shift(k)
                               /\ hosts'[k] = hosts[Shift(k)]
  BY <1>1, <1>t, Typed DEF Without
<1>3. \A k, l \in DOMAIN hosts' : /\ k < l => Shift(k) < Shift(l)
                                  /\ Shift(k) = Shift(l) => k = l
  BY <1>1, <1>t, Typed
<1> HIDE DEF Shift
<1>4. Rising(hosts)'
  BY <1>2, <1>3 DEF IInv, Rising
<1>5. OneAddress(hosts)'
  BY <1>2, <1>3 DEF IInv, OneAddress
<1>6. CallInv'
  <2> SUFFICES ASSUME running' PROVE CallInv!2'
    BY DEF CallInv
  <2>1. running /\ all' = all /\ nextId' = nextId
    BY DEF file
  <2>2. \A k \in DOMAIN hosts' : hosts'[k].id < nextId'
    BY <1>2, <2>1 DEF IInv, CallInv
  <2>3. ASSUME NEW k \in DOMAIN hosts' PROVE Inherited(k)' \/ Newer(k)'
    <3>1. Inherited(Shift(k)) \/ Newer(Shift(k))
      BY <1>2, <2>1 DEF IInv, CallInv
    <3>2. CASE Newer(Shift(k))
      BY <1>2, <2>1, <3>2 DEF Newer
    <3>3. CASE Inherited(Shift(k))
      <4>1. PICK p \in DOMAIN all : Shift(k) <= p /\ hosts[Shift(k)] = all[p]
        BY <3>3 DEF Inherited
      <4>2. k <= p
        BY <1>2, <4>1, <1>t, Typed
      <4> QED BY <1>2, <2>1, <4>1, <4>2 DEF Inherited
    <3> QED BY <3>1, <3>2, <3>3
  <2> QED BY <2>1, <2>2, <2>3 DEF IInv, CallInv
<1> QED BY <1>4, <1>5, <1>6 DEF IInv, file, Rising, OneAddress, EtcdWithin,
        EtcdIsFirstThree, FirstHosts

\* A new host goes last, with a number above all others and an address of its
\* own.
LEMMA AdditionKeeps ==
  ASSUME IInv, TypeOK', NEW ip \in IPs, AddHost(ip), IpAt(ip) = {}
  PROVE  IInv'
<1> DEFINE h == [id |-> nextId, ip |-> ip]
<1>t. TypeOK
  BY DEF IInv
<1>1. /\ hosts' = Append(hosts, h) /\ nextId' = nextId + 1 /\ running
      /\ UNCHANGED <<file, running>> /\ nextId <= MaxId
  BY DEF AddHost, Argument
<1>2. h \in Host
  BY <1>1, <1>t DEF TypeOK, Host
<1>3. /\ Len(hosts') = Len(hosts) + 1 /\ hosts'[Len(hosts) + 1] = h
      /\ \A k \in 1 .. Len(hosts) : hosts'[k] = hosts[k]
  BY <1>1, <1>2, <1>t, Typed, AppendProperties
<1>4. DOMAIN hosts' = 1 .. Len(hosts) + 1
  <2>1. hosts' \in Seq(Host)
    BY DEF TypeOK
  <2> QED BY <2>1, <1>3, LenProperties
<1>5. /\ \A k \in DOMAIN hosts : hosts[k].id < nextId
      /\ \A k \in DOMAIN all : all[k].id < nextId
      /\ \A k \in DOMAIN hosts : Inherited(k) \/ Newer(k)
  BY <1>1 DEF IInv, CallInv
<1>6. \A k \in DOMAIN hosts : hosts[k].ip # ip
  BY DEF IpAt
<1>7. h.id = nextId /\ h.ip = ip
  OBVIOUS
<1> HIDE DEF h
<1>8. \A k \in DOMAIN hosts' : \/ k \in DOMAIN hosts /\ hosts'[k] = hosts[k]
                               \/ k = Len(hosts) + 1 /\ hosts'[k] = h
  BY <1>3, <1>4, <1>t, Typed
<1>9. Rising(hosts)'
  BY <1>t, Typed, <1>4, <1>5, <1>7, <1>8 DEF IInv, Rising
<1>10. OneAddress(hosts)'
  BY <1>t, Typed, <1>4, <1>6, <1>7, <1>8 DEF IInv, OneAddress
<1>11. CallInv'
  <2>1. all' = all
    BY <1>1 DEF file
  <2>2. \A k \in DOMAIN hosts' : hosts'[k].id < nextId'
    BY <1>1, <1>5, <1>7, <1>8, <1>t, Typed
  <2>3. \A k \in DOMAIN all' : all'[k].id < nextId'
    BY <1>1, <1>5, <2>1, <1>t, Typed
  <2>4. ASSUME NEW k \in DOMAIN hosts' PROVE Inherited(k)' \/ Newer(k)'
    <3>1. CASE k \in DOMAIN hosts /\ hosts'[k] = hosts[k]
      BY <3>1, <1>5, <2>1 DEF Inherited, Newer
    <3>2. CASE hosts'[k] = h
      BY <3>2, <1>5, <1>7, <2>1 DEF Newer
    <3> QED BY <1>8, <3>1, <3>2
  <2> QED BY <2>2, <2>3, <2>4 DEF CallInv
<1> QED BY <1>1, <1>9, <1>10, <1>11 DEF IInv, file, Rising, OneAddress, EtcdWithin,
        EtcdIsFirstThree, FirstHosts

LEMMA StartKeeps ==
  ASSUME IInv, TypeOK', Start
  PROVE  IInv'
<1>t. TypeOK
  BY DEF IInv
<1>1. hosts' = all /\ nextId' = HighestId + 1 /\ UNCHANGED file
  BY DEF Start, NextHostId
<1>2. \A i \in DOMAIN all : all[i].id \in Ids(all)
  BY DEF Ids
<1>3. HighestId \in Nat /\ \A m \in Ids(all) : m <= HighestId
  BY <1>t, Typed, HighestIdIsHighest, BoundsAssumption
<1>4. \A i \in DOMAIN all : all[i].id < nextId'
  BY <1>1, <1>2, <1>3, <1>t, Typed
<1>5. \A i \in DOMAIN all : i <= i
  BY <1>t, Typed
<1>6. CallInv'
  BY <1>1, <1>4, <1>5 DEF CallInv, Inherited, file
<1> QED BY <1>1, <1>6 DEF IInv, file, Rising, OneAddress, EtcdWithin, EtcdIsFirstThree,
        FirstHosts

\* Between calls there are no hosts in memory.
LEMMA EndedKeeps ==
  ASSUME EndCall, TypeOK'
  PROVE  Rising(hosts)' /\ OneAddress(hosts)' /\ CallInv'
<1>1. hosts' = << >> /\ running' = FALSE
  BY DEF EndCall
<1>2. DOMAIN hosts' = {}
  BY <1>1
<1> QED BY <1>1, <1>2 DEF Rising, OneAddress, CallInv

\* The first three hosts of the call hold every host that was one of the
\* first three of the file and is left.
LEMMA FirstStayFirst ==
  ASSUME IInv, running
  PROVE  FirstHosts(3) \cap Ids(hosts) \subseteq Slice(0, 3)
<1>t. TypeOK
  BY DEF IInv
<1>1. ASSUME NEW p \in DOMAIN all, p <= 3, NEW i \in DOMAIN hosts, hosts[i].id = all[p].id
      PROVE  i <= 3
  <2>1. Inherited(i) \/ Newer(i)
    BY DEF IInv, CallInv
  <2>2. ~ Newer(i)
    BY <1>1, <1>t, Typed DEF Newer
  <2>3. PICK q \in DOMAIN all : i <= q /\ hosts[i] = all[q]
    BY <2>1, <2>2 DEF Inherited
  <2>4. ~ (p < q) /\ ~ (q < p)
    BY <1>1, <2>3, <1>t, Typed DEF IInv, Rising
  <2> QED BY <1>1, <2>3, <2>4, <1>t, Typed
<1>2. \A i \in DOMAIN hosts : 0 < i
  BY <1>t, Typed
<1>3. ASSUME NEW n \in FirstHosts(3) \cap Ids(hosts) PROVE n \in Slice(0, 3)
  <2>1. PICK p \in DOMAIN all : p <= 3 /\ all[p].id = n
    BY <1>3 DEF FirstHosts
  <2>2. PICK i \in DOMAIN hosts : hosts[i].id = n
    BY <1>3 DEF Ids
  <2>3. 0 < i /\ i <= 3
    BY <1>1, <1>2, <2>1, <2>2
  <2> QED BY <2>2, <2>3 DEF Slice
<1> QED BY <1>3

LEMMA WriteKeeps ==
  ASSUME IInv, TypeOK', Write
  PROVE  IInv'
<1>t. TypeOK
  BY DEF IInv
<1>1. running /\ Left(hosts, Sections, TRUE) /\ EndCall
  BY <1>t, Typed, SectionsOfHosts, WriteLeaves DEF Write
<1>2. \A i \in DOMAIN all' : i \in DOMAIN hosts /\ all'[i] = hosts[i]
  BY <1>1 DEF Left
<1>3. Rising(all)' /\ OneAddress(all)'
  BY <1>2 DEF IInv, Rising, OneAddress
<1>4. Sections["etcd"] = SetEtcd
  BY DEF Sections, Section, Groups
<1>5. SetEtcd = Slice(0, 3)
  BY <1>1, FirstStayFirst DEF SetEtcd, Kept, IInv, EtcdWithin
<1>6. all' = hosts => FirstHosts(3)' = Slice(0, 3)
  <2> SUFFICES ASSUME all' = hosts PROVE FirstHosts(3)' = Slice(0, 3)
    OBVIOUS
  <2>1. {j \in DOMAIN hosts : j <= 3} = {j \in DOMAIN hosts : 0 < j /\ j <= 3}
    BY <1>t, Typed
  <2> QED BY <2>1 DEF FirstHosts, Slice
<1>7. groups'["etcd"] \subseteq Slice(0, 3)
  BY <1>1, <1>4, <1>5 DEF Left, Groups
<1>8. EtcdWithin'
  <2>1. CASE all' = hosts
    BY <1>6, <1>7, <2>1 DEF EtcdWithin
  <2>2. CASE groups'["etcd"] = {}
    BY <2>2 DEF EtcdWithin
  <2> QED BY <1>1, <2>1, <2>2 DEF Left, Groups
<1>9. EtcdIsFirstThree'
  BY <1>1, <1>4, <1>5, <1>6 DEF EtcdIsFirstThree, Left
<1> QED BY <1>1, <1>3, <1>8, <1>9, EndedKeeps DEF IInv

LEMMA InvStep ==
  ASSUME Loads = {}
  PROVE  IInv /\ [Next]_vars => IInv'
<1> SUFFICES ASSUME IInv, [Next]_vars PROVE IInv'
  OBVIOUS
<1>t. TypeOK /\ TypeOK' /\ hosts \in Seq(Host)
  BY TypeStep, Typed DEF IInv
<1>1. CASE Start
  BY <1>1, <1>t, StartKeeps
<1>2. CASE Abort
  BY <1>2, <1>t, EndedKeeps DEF Abort, IInv, file, Rising, OneAddress, EtcdWithin,
     EtcdIsFirstThree, FirstHosts
<1>3. CASE Write
  BY <1>3, <1>t, WriteKeeps
<1>4. ASSUME NEW ip \in IPs, AddHost(ip) PROVE IInv'
  <2>1. CASE IpAt(ip) # {}
    <3>1. UNCHANGED <<hosts, nextId, file, running>>
      BY <1>4, <2>1 DEF AddHost
    <3> QED BY <3>1, <1>t DEF IInv, file, Rising, OneAddress, CallInv, Inherited, Newer,
            EtcdWithin, EtcdIsFirstThree, FirstHosts
  <2> QED BY <2>1, <1>4, <1>t, AdditionKeeps
<1>5. ASSUME UNCHANGED <<hosts, nextId, file, running, crashes>> PROVE IInv'
  BY <1>5, <1>t DEF IInv, file, Rising, OneAddress, CallInv, Inherited, Newer,
     EtcdWithin, EtcdIsFirstThree, FirstHosts
<1>6. ASSUME NEW ip \in IPs, DeleteByIp(ip) PROVE IInv'
  <2>1. UNCHANGED <<nextId, file, running, crashes>>
    BY <1>6 DEF DeleteByIp
  <2> QED BY <2>1, <1>5, <1>6, <1>t, DeleteByIpRemoves, DeletionKeeps
<1>7. ASSUME NEW n \in 1 .. MaxId, DeleteByName(n) PROVE IInv'
  <2>1. UNCHANGED <<nextId, file, running, crashes>>
    BY <1>7 DEF DeleteByName
  <2> QED BY <2>1, <1>5, <1>7, <1>t, DeleteByNameRemoves, DeletionKeeps
<1>8. CASE UNCHANGED vars
  BY <1>8, <1>5 DEF vars, call
<1> QED BY <1>1, <1>2, <1>3, <1>4, <1>6, <1>7, <1>8 DEF Next

\* The invariant holds when nothing is loaded.
THEOREM Inductive == Loads = {} => (Spec => []IInv)
<1> SUFFICES ASSUME Loads = {} PROVE Spec => []IInv
  OBVIOUS
<1>1. IInv /\ [Next]_vars => IInv'
  BY InvStep
<1> QED BY <1>1, InvInit, PTL DEF Spec

\* However often hosts are deleted and added, no two hosts of the file have
\* the same name or the same address (build_hostnames, inventory.py:140-180).
THEOREM UniqueHostsHolds == Loads = {} => (Spec => []UniqueHosts)
<1> SUFFICES ASSUME Loads = {} PROVE Spec => []UniqueHosts
  OBVIOUS
<1>1. IInv => UniqueHosts
  <2> SUFFICES ASSUME IInv, NEW i \in DOMAIN all, NEW j \in DOMAIN all, i # j
               PROVE  all[i].id # all[j].id /\ all[i].ip # all[j].ip
    BY DEF UniqueHosts, Distinct
  <2>1. i < j \/ j < i
    BY Typed DEF IInv
  <2>2. all[i].id < all[j].id \/ all[j].id < all[i].id
    BY <2>1 DEF IInv, Rising
  <2> QED BY <2>2, Typed DEF IInv, OneAddress
<1> QED BY <1>1, Inductive, PTL

\* The etcd group is the first three hosts after any calls, none of whose
\* writes was cut (set_etcd, inventory.py:250-253, which only adds).
THEOREM EtcdIsFirstThreeHolds == Loads = {} => (Spec => []EtcdIsFirstThree)
<1> SUFFICES ASSUME Loads = {} PROVE Spec => []EtcdIsFirstThree
  OBVIOUS
<1>1. IInv => EtcdIsFirstThree
  BY DEF IInv
<1> QED BY <1>1, Inductive, PTL

\* A call never gives a name of the file to another address
\* (inventory.py:153).
THEOREM NamesKeepAddressHolds == Loads = {} => (Spec => NamesKeepAddress)
<1> SUFFICES ASSUME Loads = {} PROVE Spec => NamesKeepAddress
  OBVIOUS
<1> DEFINE Same == \A i \in DOMAIN all, j \in DOMAIN all' :
                      all[i].id = all'[j].id => all[i].ip = all'[j].ip
<1>1. ASSUME IInv, [Next]_vars PROVE [Same]_vars
  <2>1. CASE all' = all
    <3>1. \A i, j \in DOMAIN all : all[i].id = all[j].id => i = j
      <4> SUFFICES ASSUME NEW i \in DOMAIN all, NEW j \in DOMAIN all,
                          all[i].id = all[j].id, i # j
                   PROVE  FALSE
        OBVIOUS
      <4>1. i < j \/ j < i
        BY <1>1, Typed DEF IInv
      <4>2. all[i].id < all[j].id \/ all[j].id < all[i].id
        BY <1>1, <4>1 DEF IInv, Rising
      <4> QED BY <4>2, <1>1, Typed DEF IInv
    <3> QED BY <2>1, <3>1
  <2>2. CASE Write
    <3> SUFFICES ASSUME NEW i \in DOMAIN all, NEW j \in DOMAIN all',
                        all[i].id = all'[j].id
                 PROVE  all[i].ip = all'[j].ip
      OBVIOUS
    <3>1. running /\ j \in DOMAIN hosts /\ all'[j] = hosts[j]
      BY <1>1, <2>2, Typed, SectionsOfHosts, WriteLeaves DEF Write, Left, IInv
    <3>2. Inherited(j) \/ Newer(j)
      BY <1>1, <3>1 DEF IInv, CallInv
    <3>3. ~ Newer(j)
      BY <1>1, <3>1, Typed DEF Newer, IInv
    <3>4. PICK p \in DOMAIN all : hosts[j] = all[p]
      BY <3>2, <3>3 DEF Inherited
    <3>5. ~ (p < i) /\ ~ (i < p)
      BY <1>1, <3>1, <3>4, Typed DEF IInv, Rising
    <3>6. p = i
      BY <1>1, <3>5, Typed DEF IInv
    <3> QED BY <3>1, <3>4, <3>6
  <2>3. CASE Start \/ Abort
    BY <2>1, <2>3 DEF Start, Abort, file
  <2>4. ASSUME NEW ip \in IPs, AddHost(ip) \/ DeleteByIp(ip) PROVE all' = all
    BY <2>4 DEF AddHost, DeleteByIp, file
  <2>5. ASSUME NEW n \in 1 .. MaxId, DeleteByName(n) PROVE all' = all
    BY <2>5 DEF DeleteByName, file
  <2> QED BY <1>1, <2>1, <2>2, <2>3, <2>4, <2>5 DEF Next, vars, file
<1> QED BY <1>1, Inductive, PTL DEF Spec, NamesKeepAddress

-----------------------------------------------------------------------------
(***************************************************************************)
(* Properties of the file a completed call leaves.                         *)
(***************************************************************************)
LEMMA FileChanges ==
  ASSUME TypeOK, Loads = {}, [Next]_vars
  PROVE  \/ UNCHANGED file
         \/ whole' => all' = hosts /\ groups' = Sections
<1>1. CASE Write
  BY <1>1, Typed, SectionsOfHosts, WriteLeaves DEF Write, Left
<1>2. CASE Start \/ Abort \/ UNCHANGED vars
  BY <1>2 DEF Start, Abort, vars
<1>3. ASSUME NEW ip \in IPs, AddHost(ip) \/ DeleteByIp(ip) PROVE UNCHANGED file
  BY <1>3 DEF AddHost, DeleteByIp
<1>4. ASSUME NEW n \in 1 .. MaxId, DeleteByName(n) PROVE UNCHANGED file
  BY <1>4 DEF DeleteByName
<1> QED BY <1>1, <1>2, <1>3, <1>4 DEF Next

LEMMA ThresholdsOrdered ==
  SCALE_THRESHOLD \in Nat /\ MASSIVE_SCALE_THRESHOLD \in Nat
    /\ SCALE_THRESHOLD <= MASSIVE_SCALE_THRESHOLD
BY EnvAssumption DEF SCALE_THRESHOLD, MASSIVE_SCALE_THRESHOLD, Getenv

\* A cluster below the scale threshold, whether it always was or has shrunk,
\* runs pods on every host (set_kube_node, inventory.py:234-248).
THEOREM SmallRunsEverywhereHolds == Loads = {} => (Spec => []SmallRunsEverywhere)
<1> SUFFICES ASSUME Loads = {} PROVE Spec => []SmallRunsEverywhere
  OBVIOUS
<1>1. Init => SmallRunsEverywhere
  BY DEF Init, SmallRunsEverywhere, Ids, Groups
<1>2. ASSUME TypeOK, SmallRunsEverywhere, [Next]_vars PROVE SmallRunsEverywhere'
  <2>1. CASE UNCHANGED file
    BY <1>2, <2>1 DEF file, SmallRunsEverywhere, Ids
  <2>2. CASE whole' => all' = hosts /\ groups' = Sections
    <3> SUFFICES ASSUME whole', Len(all') < SCALE_THRESHOLD
                 PROVE  groups'["kube-node"] = Ids(all')
      BY DEF SmallRunsEverywhere, Ids
    <3>1. all' = hosts /\ groups'["kube-node"] = SetKubeNode
      BY <2>2 DEF Sections, Section, Groups
    <3>2. ~ AtScale /\ ~ Massive
      BY <1>2, <3>1, ThresholdsOrdered, Typed DEF AtScale, Massive
    <3>3. SetKubeNode = Ids(hosts)
      BY <3>2 DEF SetKubeNode, Excluded, Kept
    <3> QED BY <3>1, <3>3 DEF Ids
  <2> QED BY <1>2, <2>1, <2>2, FileChanges
<1> QED BY <1>1, <1>2, TypeCorrect, PTL DEF Spec

\* With a scale threshold of at least four hosts, every cluster has a master,
\* whatever was deleted (inventory.py:88-92).
THEOREM MasterExistsHolds ==
  Loads = {} /\ SCALE_THRESHOLD >= 4 => (Spec => []MasterExists)
<1> SUFFICES ASSUME Loads = {}, SCALE_THRESHOLD >= 4 PROVE Spec => []MasterExists
  OBVIOUS
<1>1. Init => MasterExists
  BY DEF Init, MasterExists
<1>2. ASSUME TypeOK, MasterExists, [Next]_vars PROVE MasterExists'
  <2>1. CASE UNCHANGED file
    BY <1>2, <2>1 DEF file, MasterExists
  <2>2. CASE whole' => all' = hosts /\ groups' = Sections
    <3> SUFFICES ASSUME whole', all' # << >> PROVE groups'["kube-master"] # {}
      BY DEF MasterExists
    <3>1. hosts # << >> /\ groups'["kube-master"] = SetKubeMaster
      BY <2>2 DEF Sections, Section, Groups
    <3>2. Len(hosts) > 0
      BY <1>2, <3>1, Typed, EmptySeq
    <3>3. CASE AtScale
      <4>1. 4 \in DOMAIN hosts /\ 3 < 4 /\ 4 <= 5
        BY <1>2, <3>3, ThresholdsOrdered, Typed DEF AtScale
      <4>2. hosts[4].id \in Slice(3, 5)
        BY <4>1 DEF Slice
      <4> QED BY <3>1, <3>3, <4>2 DEF SetKubeMaster
    <3>4. CASE ~ AtScale
      <4>1. 1 \in DOMAIN hosts /\ 0 < 1 /\ 1 <= 2
        BY <1>2, <3>2, Typed
      <4>2. hosts[1].id \in Slice(0, 2)
        BY <4>1 DEF Slice
      <4> QED BY <3>1, <3>4, <4>2 DEF SetKubeMaster
    <3> QED BY <3>3, <3>4
  <2> QED BY <1>2, <2>1, <2>2, FileChanges
<1> QED BY <1>1, <1>2, TypeCorrect, PTL DEF Spec
=============================================================================

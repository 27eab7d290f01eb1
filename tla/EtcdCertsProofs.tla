--------------------------- MODULE EtcdCertsProofs ---------------------------
(***************************************************************************)
(* Proofs about EtcdCerts, for any hosts, bounds and operator actions.     *)
(* What is said of certificates holds under the conditions of Regular: the *)
(* first etcd host stays the first, and the script is not killed between   *)
(* two files.  What is said of member pairs also asks that hosts join etcd *)
(* before they hold a node key.  What is said of keys alone holds without  *)
(* any of these.                                                           *)
(***************************************************************************)
EXTENDS EtcdCerts, TLAPS

Regular == "front" \notin Edits /\ TornInstall = FALSE

FreshMembers == "promote" \notin Edits

-----------------------------------------------------------------------------
(* The inductive invariant. *)

Has(p) == p # NoPair
WholeUnder(p, c) == Has(p) => Usable(p, c)

\* The etcd hosts whose member pairs the invariant speaks of: a node that joins
\* etcd has a node key and so never gets a member pair.
Members == {h \in etcd : FreshMembers}
USE DEF Members

\* Between check_certs.yml and the script the facts still describe the disks.
FactsCurrent ==
  step = "generate" =>
    /\ genNode = {h \in nodes \cup etcd : node[first][h].key = None}
    /\ gen = (ca[first].pem = None \/ genNode # {})
    /\ \A h \in Targets \cap genNode : h \in sync

PlayShape ==
  /\ play = "etcd" => lead = first
  /\ ~AtRest <=> play # "none"

\* Everything on the first etcd host comes from its own CA.
FirstWhole ==
  /\ ca[first].key = ca[first].pem
  /\ \A h \in Hosts : /\ WholeUnder(node[first][h], ca[first])
                      /\ WholeUnder(member[first][h], ca[first])

\* The first etcd host holds node pairs of hosts in the groups only.
Holders == \A h \in Hosts : Has(node[first][h]) => h \in nodes

SameKey(h) == node[h][h].key = node[first][h].key /\ node[h][h].key # None

\* A node key identifies its pair and the CA, and in etcd the member pair: it
\* is the last of the files a host receives.
KeyMeansPair ==
  \A h \in Hosts :
    /\ SameKey(h) => node[h][h] = node[first][h] /\ ca[h].pem = ca[first].pem
    /\ h \in Members /\ SameKey(h) => member[h][h] = member[first][h]
    /\ h \in Members /\ Has(node[first][h]) => Has(member[first][h])

\* Once the etcd play is past the script, the first etcd host lacks nothing.
PastScript == (play = "etcd" /\ step = "sync") \/ play = "nodes" \/ step = "done"

FirstComplete ==
  PastScript => /\ ca[first].pem # None
                /\ \A h \in nodes : Has(node[first][h])
                /\ \A h \in Members : Has(member[first][h])

\* Hosts of the play that need no sync, or have had it, are served.
Served(h) == /\ h \in nodes => Deployed(h)
             /\ h \in Members => MemberDeployed(h)

PlayServed ==
  /\ step = "generate" => \A h \in Targets \ (sync \cup {first}) : Served(h)
  /\ step = "sync" /\ play \in {"etcd", "nodes"} =>
       \A h \in Targets \ (sync \cup {first}) : Served(h)

EtcdServed == play = "nodes" \/ step = "done" => \A h \in Members : MemberDeployed(h)

IInv ==
  /\ TypeOK /\ PlayShape /\ FactsCurrent
  /\ FirstWhole /\ Holders /\ KeyMeansPair
  /\ FirstComplete /\ PlayServed /\ EtcdServed /\ NodesConverged

-----------------------------------------------------------------------------
(* Type correctness. *)

\* Moved keeps the shape of a host's pairs.
LEMMA MovedType ==
  ASSUME NEW pairs \in [Hosts -> Pairs], NEW keys, NEW pems,
         NEW n \in MaybeSerial, NEW c \in MaybeSerial
  PROVE  Moved(pairs, keys, pems, n, c) \in [Hosts -> Pairs]
BY DEF Moved, Pairs

\* Whatever the script installed of its files, the disks keep their type.
LEMMA InstallType ==
  ASSUME TypeOK, NEW m, NEW n \in Serial, NEW c \in MaybeSerial, Install(m, n, c)
  PROVE  /\ ca' \in [Hosts -> CAs]
         /\ node' \in [Hosts -> [Hosts -> Pairs]]
         /\ member' \in [Hosts -> [Hosts -> Pairs]]
<1> USE DEF TypeOK, Install
<1>1. n \in MaybeSerial BY DEF MaybeSerial
<1>2. ca' \in [Hosts -> CAs] BY <1>1 DEF CAs
<1>3. node' \in [Hosts -> [Hosts -> Pairs]] BY <1>1, MovedType
<1>4. member' \in [Hosts -> [Hosts -> Pairs]] BY <1>1, MovedType
<1> QED BY <1>2, <1>3, <1>4

LEMMA SignerType == ASSUME TypeOK, NEW n \in Serial PROVE SignerOf(n) \in MaybeSerial
BY DEF TypeOK, SignerOf, CAs, MaybeSerial

LEMMA UnpackType ==
  ASSUME NEW new \in Pairs, NEW old \in Pairs, NEW k, NEW p
  PROVE  Unpack(new, old, k, p) \in Pairs
BY DEF Unpack, Pairs

LEMMA UnpackCAType ==
  ASSUME NEW new \in CAs, NEW old \in CAs, NEW k, NEW p
  PROVE  UnpackCA(new, old, k, p) \in CAs
BY DEF UnpackCA, CAs

\* Whatever files a host receives, the disks keep their type.
LEMMA ReceiveType ==
  ASSUME TypeOK, NEW h \in Hosts, NEW m, Receive(h, m)
  PROVE  /\ ca' \in [Hosts -> CAs]
         /\ node' \in [Hosts -> [Hosts -> Pairs]]
         /\ member' \in [Hosts -> [Hosts -> Pairs]]
<1>1. ca' \in [Hosts -> CAs]
  BY UnpackCAType DEF Receive, TypeOK
<1>2. node' \in [Hosts -> [Hosts -> Pairs]]
  BY UnpackType DEF Receive, TypeOK
<1>3. member' \in [Hosts -> [Hosts -> Pairs]]
  BY UnpackType DEF Receive, TypeOK
<1> QED BY <1>1, <1>2, <1>3

LEMMA NoneTypes == NoPair \in Pairs /\ NoCA \in CAs
BY DEF NoPair, NoCA, Pairs, CAs, MaybeSerial

LEMMA InitType == Init => TypeOK
<1> SUFFICES ASSUME Init PROVE TypeOK OBVIOUS
<1>1. failures \in 0 .. MaxFailures /\ edits \in 0 .. MaxEdits BY BoundsAssumption DEF Init
<1>2. ca \in [Hosts -> CAs] BY NoneTypes DEF Init
<1>3. node \in [Hosts -> [Hosts -> Pairs]] BY NoneTypes DEF Init
<1>4. member \in [Hosts -> [Hosts -> Pairs]] BY NoneTypes DEF Init
<1> QED BY <1>1, <1>2, <1>3, <1>4 DEF Init, TypeOK

\* The two counters stop at their bounds.
LEMMA CountersType ==
  ASSUME TypeOK, [Next]_vars
  PROVE  failures' \in 0 .. MaxFailures /\ edits' \in 0 .. MaxEdits
<1>1. /\ failures' = failures \/ (failures < MaxFailures /\ failures' = failures + 1)
      /\ edits' = edits \/ (edits < MaxEdits /\ edits' = edits + 1)
  BY DEF Next, Run, Interruption, Operator, vars, disks, StartCluster, StartScale, Fail, CheckCerts,
         RunScript, KillScript, ScriptRefuses, SkipScript, SyncHost, CutUnpack, EndEtcdPlay,
         EndRun, NoCAToTrust, AddNode, AddEtcd, MoveFirst, Reset, Edit
<1>2. failures \in 0 .. MaxFailures /\ edits \in 0 .. MaxEdits BY DEF TypeOK
<1> QED BY <1>1, <1>2, BoundsAssumption

\* Every step keeps the variables in their types.
LEMMA NextType == TypeOK /\ [Next]_vars => TypeOK'
<1> SUFFICES ASSUME TypeOK, [Next]_vars PROVE TypeOK' OBVIOUS
<1>0. failures' \in 0 .. MaxFailures /\ edits' \in 0 .. MaxEdits BY CountersType
<1> USE <1>0 DEF inventory, disks, facts
<1>1. CASE StartCluster
  BY <1>1 DEF StartCluster, Enter, TypeOK
<1>2. CASE StartScale
  BY <1>2 DEF StartScale, Enter, TypeOK
<1>3. CASE Fail
  BY <1>3 DEF Fail, Leave, TypeOK
<1>4. CASE CheckCerts
  BY <1>4 DEF CheckCerts, Missing, TypeOK, Targets
<1>5. CASE RunScript
  <2>1. PICK n \in Serial : Install(AllMoved(etcd \cap genNode, nodes \cap genNode), n, SignerOf(n))
    BY <1>5 DEF RunScript
  <2>2. /\ ca' \in [Hosts -> CAs]
        /\ node' \in [Hosts -> [Hosts -> Pairs]]
        /\ member' \in [Hosts -> [Hosts -> Pairs]]
    BY <2>1, SignerType, InstallType
  <2> QED BY <1>5, <2>2 DEF RunScript, TypeOK, Targets
<1>6. CASE KillScript
  <2>1. PICK n \in Serial, m \in Moves : Install(m, n, SignerOf(n))
    BY <1>6 DEF KillScript
  <2>2. /\ ca' \in [Hosts -> CAs]
        /\ node' \in [Hosts -> [Hosts -> Pairs]]
        /\ member' \in [Hosts -> [Hosts -> Pairs]]
    BY <2>1, SignerType, InstallType
  <2> QED BY <1>6, <2>2 DEF KillScript, Leave, TypeOK
<1>7. CASE ScriptRefuses
  BY <1>7 DEF ScriptRefuses, Leave, TypeOK
<1>8. CASE SkipScript
  BY <1>8 DEF SkipScript, TypeOK, Targets
<1>9. ASSUME NEW h \in Hosts, SyncHost(h) PROVE TypeOK'
  <2>1. /\ ca' \in [Hosts -> CAs]
        /\ node' \in [Hosts -> [Hosts -> Pairs]]
        /\ member' \in [Hosts -> [Hosts -> Pairs]]
    BY <1>9, ReceiveType DEF SyncHost
  <2> QED BY <1>9, <2>1 DEF SyncHost, TypeOK, Targets
<1>10. CASE EndEtcdPlay
  BY <1>10 DEF EndEtcdPlay, Enter, TypeOK
<1>11. CASE EndRun
  BY <1>11 DEF EndRun, Leave, TypeOK
<1>12. CASE NoCAToTrust
  BY <1>12 DEF NoCAToTrust, Leave, TypeOK
<1>13. ASSUME NEW h \in Hosts, AddNode(h) PROVE TypeOK'
  BY <1>13 DEF AddNode, Edit, Leave, TypeOK
<1>14. ASSUME NEW h \in Hosts, AddEtcd(h) PROVE TypeOK'
  BY <1>14 DEF AddEtcd, Edit, Leave, TypeOK
<1>15. ASSUME NEW h \in Hosts, MoveFirst(h) PROVE TypeOK'
  BY <1>15 DEF MoveFirst, Edit, Leave, TypeOK
<1>16. ASSUME NEW h \in Hosts, Reset(h) PROVE TypeOK'
  <2>1. /\ ca' \in [Hosts -> CAs]
        /\ node' \in [Hosts -> [Hosts -> Pairs]]
        /\ member' \in [Hosts -> [Hosts -> Pairs]]
    BY <1>16, NoneTypes DEF Reset, TypeOK
  <2> QED BY <1>16, <2>1 DEF Reset, Edit, Leave, TypeOK
<1>17. CASE UNCHANGED vars
  BY <1>17 DEF vars, TypeOK, Targets
<1>18. ASSUME NEW h \in Hosts, CutUnpack(h) PROVE TypeOK'
  <2>1. PICK m : Receive(h, m) BY <1>18 DEF CutUnpack
  <2>2. /\ ca' \in [Hosts -> CAs]
        /\ node' \in [Hosts -> [Hosts -> Pairs]]
        /\ member' \in [Hosts -> [Hosts -> Pairs]]
    BY <2>1, ReceiveType
  <2> QED BY <1>18, <2>2 DEF CutUnpack, Leave, TypeOK
<1> QED BY <1>1, <1>2, <1>3, <1>4, <1>5, <1>6, <1>7, <1>8, <1>9, <1>10, <1>11,
           <1>12, <1>13, <1>14, <1>15, <1>16, <1>17, <1>18 DEF Next, Run, Interruption, Operator

\* Type correctness, whatever the operator and the failures do.
THEOREM TypeCorrect == Spec => []TypeOK
<1>1. Init => TypeOK BY InitType
<1>2. TypeOK /\ [Next]_vars => TypeOK' BY NextType
<1> QED BY <1>1, <1>2, PTL DEF Spec

-----------------------------------------------------------------------------
(* What the actions that write to the disks do to each pair. *)

LEMMA SerialNotNone == \A n \in Serial : n # None
BY BoundsAssumption DEF Serial, None

LEMMA PairShape ==
  ASSUME NEW p \in Pairs, NEW c, WholeUnder(p, c)
  PROVE  Has(p) <=> p.key # None
BY DEF Has, WholeUnder, Usable, NoPair, Pairs

NewPair(n, c) == [key |-> n, pem |-> n, ca |-> c]

LEMMA MovedAll ==
  ASSUME NEW pairs \in [Hosts -> Pairs], NEW S, NEW n, NEW c, NEW h \in Hosts
  PROVE  Moved(pairs, S, S, n, c)[h] = IF h \in S THEN NewPair(n, c) ELSE pairs[h]
BY DEF Moved, Pairs, NewPair

LEMMA ScriptEffect ==
  ASSUME TypeOK, RunScript
  PROVE  \E n \in Serial, c \in MaybeSerial :
           /\ \A h \in Hosts : node[h][h].key # n
           /\ c = (IF ca[first].key = None THEN n ELSE ca[first].key)
           /\ ca[first].key # None => ca[first].pem = ca[first].key
           /\ ca' = [ca EXCEPT ![first] = [pem |-> c, key |-> c]]
           /\ \A d \in Hosts \ {first} : node'[d] = node[d] /\ member'[d] = member[d]
           /\ \A h \in Hosts :
                /\ node'[first][h] = IF h \in nodes \cap genNode THEN NewPair(n, c)
                                     ELSE node[first][h]
                /\ member'[first][h] = IF h \in etcd \cap genNode THEN NewPair(n, c)
                                       ELSE member[first][h]
<1>1. PICK n \in Serial : /\ Fresh(n)
                          /\ Install(AllMoved(etcd \cap genNode, nodes \cap genNode), n, SignerOf(n))
  BY DEF RunScript
<1>2. SignerOf(n) \in MaybeSerial BY SignerType
<1>3. \A h \in Hosts : node[h][h].key # n
  <2> SUFFICES ASSUME NEW h \in Hosts PROVE node[h][h].key \in InUse
    BY <1>1 DEF Fresh
  <2>1. node[h][h].key \in Serials(h, h) BY DEF Serials
  <2>2. Serials(h, h) \in {Serials(d, x) : d \in Hosts, x \in Hosts} OBVIOUS
  <2>3. node[h][h].key \in UNION {Serials(d, x) : d \in Hosts, x \in Hosts}
    BY <2>1, <2>2
  <2> QED BY <2>3 DEF InUse
<1>4. node[first] \in [Hosts -> Pairs] /\ member[first] \in [Hosts -> Pairs] /\ first \in Hosts
  BY DEF TypeOK
<1>5. ca' = [ca EXCEPT ![first] = [pem |-> SignerOf(n), key |-> SignerOf(n)]]
  BY <1>1 DEF Install, AllMoved
<1>6. /\ node' = [node EXCEPT ![first] = Moved(node[first], nodes \cap genNode, nodes \cap genNode, n, SignerOf(n))]
      /\ member' = [member EXCEPT ![first] = Moved(member[first], etcd \cap genNode, etcd \cap genNode, n, SignerOf(n))]
  BY <1>1 DEF Install, AllMoved
<1>7. \A d \in Hosts \ {first} : node'[d] = node[d] /\ member'[d] = member[d]
  BY <1>6 DEF TypeOK
<1>8. /\ node'[first] = Moved(node[first], nodes \cap genNode, nodes \cap genNode, n, SignerOf(n))
      /\ member'[first] = Moved(member[first], etcd \cap genNode, etcd \cap genNode, n, SignerOf(n))
  BY <1>6 DEF TypeOK
<1>9. \A h \in Hosts :
         /\ node'[first][h] = IF h \in nodes \cap genNode THEN NewPair(n, SignerOf(n)) ELSE node[first][h]
         /\ member'[first][h] = IF h \in etcd \cap genNode THEN NewPair(n, SignerOf(n)) ELSE member[first][h]
  BY <1>4, <1>8, MovedAll
<1>10. CanSign BY DEF RunScript
<1> QED BY <1>2, <1>3, <1>5, <1>7, <1>9, <1>10 DEF SignerOf, CanSign

LEMMA ReceiveEffect ==
  ASSUME TypeOK, NEW h \in Hosts, NEW m, Receive(h, m)
  PROVE  /\ \A d \in Hosts \ {h} : ca'[d] = ca[d] /\ node'[d] = node[d] /\ member'[d] = member[d]
         /\ ca'[h] = UnpackCA(ca[first], ca[h], m.caKey, m.caPem)
         /\ \A x \in Hosts :
              node'[h][x] = Unpack(node[first][x], node[h][x], x \in m.nKey, x \in m.nPem)
         /\ member'[h][h] = Unpack(member[first][h], member[h][h], h \in m.mKey, h \in m.mPem)
<1>1. \A d \in Hosts \ {h} : ca'[d] = ca[d] /\ node'[d] = node[d] /\ member'[d] = member[d]
  BY DEF Receive, TypeOK
<1>2. ca'[h] = UnpackCA(ca[first], ca[h], m.caKey, m.caPem)
  BY DEF Receive, TypeOK
<1>3. \A x \in Hosts :
        node'[h][x] = Unpack(node[first][x], node[h][x], x \in m.nKey, x \in m.nPem)
  BY DEF Receive, TypeOK
<1>4. member'[h][h] = Unpack(member[first][h], member[h][h], h \in m.mKey, h \in m.mPem)
  BY DEF Receive, TypeOK
<1> QED BY <1>1, <1>2, <1>3, <1>4

\* What a host served in full, and what a host whose unpack was cut, received.
LEMMA SyncReceives ==
  ASSUME NEW h \in Hosts, SyncHost(h) \/ CutUnpack(h)
  PROVE  /\ h # first
         /\ UNCHANGED <<first, etcd, nodes>>
         /\ \E m : /\ Receive(h, m) /\ Prefix(m, Archive(h))
                   /\ SyncHost(h) => m = Archive(h)
<1>1. h # first /\ UNCHANGED <<first, etcd, nodes>> BY DEF SyncHost, CutUnpack, inventory
<1>2. Prefix(Archive(h), Archive(h)) BY DEF Prefix, InOrder, Archive
<1>3. CASE SyncHost(h) BY <1>1, <1>2, <1>3 DEF SyncHost
<1>4. CASE ~SyncHost(h) BY <1>1, <1>4 DEF CutUnpack
<1> QED BY <1>3, <1>4

\* What a host holds after it unpacked what the first etcd host has: that
\* pair if there is one, its old pair if not.
LEMMA UnpackWhole ==
  ASSUME NEW new \in Pairs, NEW old \in Pairs, NEW c, WholeUnder(new, c)
  PROVE  Unpack(new, old, TRUE, TRUE) = IF Has(new) THEN new ELSE old
BY DEF Unpack, WholeUnder, Usable, Has, NoPair, Pairs

\* A host that already held that pair still does, whatever it unpacked.
LEMMA UnpackSame ==
  ASSUME NEW new \in Pairs, NEW k, NEW p
  PROVE  Unpack(new, new, k, p) = new
BY DEF Unpack, Pairs

\* A full archive holds the files its host needs.
LEMMA ArchiveFull ==
  ASSUME NEW h
  PROVE  /\ Archive(h).caPem = TRUE
         /\ h \in nodes \/ h \notin etcd => h \in Archive(h).nKey /\ h \in Archive(h).nPem
         /\ h \in etcd => h \in Archive(h).mKey /\ h \in Archive(h).mPem
BY DEF Archive

-----------------------------------------------------------------------------
(* The part of the invariant that speaks of the disks only. *)

DiskInv == FirstWhole /\ Holders /\ KeyMeansPair

\* On the first etcd host a pair is there or not as its key is, and none is
\* there without the CA.
LEMMA FirstShape ==
  ASSUME TypeOK, FirstWhole, NEW h \in Hosts
  PROVE  /\ Has(node[first][h]) <=> node[first][h].key # None
         /\ Has(member[first][h]) <=> member[first][h].key # None
         /\ Has(node[first][h]) => /\ Usable(node[first][h], ca[first])
                                   /\ ca[first].pem # None
         /\ Has(member[first][h]) => /\ Usable(member[first][h], ca[first])
                                     /\ ca[first].pem # None
<1>1. first \in Hosts BY DEF TypeOK
<1>2. /\ node[first][h] \in Pairs /\ member[first][h] \in Pairs
  BY <1>1 DEF TypeOK
<1>3. /\ WholeUnder(node[first][h], ca[first])
      /\ WholeUnder(member[first][h], ca[first])
  BY DEF FirstWhole
<1> QED BY <1>2, <1>3, PairShape DEF WholeUnder, Usable

LEMMA NewPairUsable ==
  ASSUME NEW n \in Serial, NEW c \in MaybeSerial, c # None, NEW k
  PROVE  /\ Has(NewPair(n, c))
         /\ NewPair(n, c).key = n
         /\ Usable(NewPair(n, c), [pem |-> c, key |-> k])
BY SerialNotNone DEF NewPair, Has, NoPair, Usable

\* The script leaves the first etcd host whole, and what it makes is new.
LEMMA ScriptDisk ==
  ASSUME TypeOK, FactsCurrent, DiskInv, RunScript
  PROVE  DiskInv' /\ ca'[first].pem # None
                  /\ (ca[first].pem # None => ca'[first] = ca[first])
<1>0. /\ first \in Hosts /\ first' = first /\ etcd' = etcd /\ nodes' = nodes
      /\ step = "generate" /\ ca \in [Hosts -> CAs]
  BY DEF TypeOK, RunScript, inventory
<1> USE <1>0
<1>1. PICK n \in Serial, c \in MaybeSerial :
           /\ \A h \in Hosts : node[h][h].key # n
           /\ c = (IF ca[first].key = None THEN n ELSE ca[first].key)
           /\ ca[first].key # None => ca[first].pem = ca[first].key
           /\ ca' = [ca EXCEPT ![first] = [pem |-> c, key |-> c]]
           /\ \A d \in Hosts \ {first} : node'[d] = node[d] /\ member'[d] = member[d]
           /\ \A h \in Hosts :
                /\ node'[first][h] = IF h \in nodes \cap genNode THEN NewPair(n, c)
                                     ELSE node[first][h]
                /\ member'[first][h] = IF h \in etcd \cap genNode THEN NewPair(n, c)
                                       ELSE member[first][h]
  BY ScriptEffect
<1>2. n # None /\ c # None BY <1>1, SerialNotNone
<1>3. /\ ca'[first] = [pem |-> c, key |-> c]
      /\ \A d \in Hosts \ {first} : ca'[d] = ca[d]
  BY <1>1
<1>4. ca[first].pem # None => ca'[first] = ca[first]
  BY <1>1, <1>3 DEF DiskInv, FirstWhole, CAs
<1>5. FirstWhole'
  <2>1. ASSUME NEW h \in Hosts PROVE WholeUnder(node'[first][h], ca'[first])
    BY <1>1, <1>2, <1>3, <1>4, NewPairUsable, FirstShape DEF WholeUnder, DiskInv
  <2>2. ASSUME NEW h \in Hosts PROVE WholeUnder(member'[first][h], ca'[first])
    BY <1>1, <1>2, <1>3, <1>4, NewPairUsable, FirstShape DEF WholeUnder, DiskInv
  <2> QED BY <1>3, <2>1, <2>2 DEF FirstWhole, WholeUnder, Has, Usable
<1>6. Holders' BY <1>1 DEF Holders, DiskInv, Has
<1>7. KeyMeansPair'
  <2> SUFFICES ASSUME NEW h \in Hosts
               PROVE  /\ SameKey(h)' => (node[h][h] = node[first][h] /\ ca[h].pem = ca[first].pem)'
                      /\ h \in Members' /\ SameKey(h)' => (member[h][h] = member[first][h])'
                      /\ h \in Members' /\ Has(node[first][h])' => Has(member[first][h])'
    BY DEF KeyMeansPair
  <2>1. h \in Members' /\ Has(node[first][h])' => Has(member[first][h])'
    BY <1>1, <1>2, NewPairUsable DEF DiskInv, KeyMeansPair, Has
  <2>2. CASE h = first BY <2>1, <2>2
  <2>3. CASE h # first
    <3>1. node'[h][h] = node[h][h] /\ member'[h][h] = member[h][h] /\ ca'[h] = ca[h]
      BY <1>1, <1>3, <2>3
    <3>2. SameKey(h)' => SameKey(h) /\ node'[first][h] = node[first][h]
      BY <1>1, <1>2, <3>1, NewPairUsable DEF SameKey
    <3>3. SameKey(h) => ca'[first] = ca[first] /\ h \notin genNode
      BY <1>4, FirstShape DEF DiskInv, SameKey, FactsCurrent
    <3>4. SameKey(h)' => member'[first][h] = member[first][h]
      BY <1>1, <3>2, <3>3
    <3> QED BY <2>1, <3>1, <3>2, <3>3, <3>4 DEF DiskInv, KeyMeansPair
  <2> QED BY <2>2, <2>3
<1> QED BY <1>2, <1>3, <1>4, <1>5, <1>6, <1>7 DEF DiskInv

\* A host that is synced ends up with what the first etcd host holds for it,
\* and keeps its own where the first etcd host holds nothing.
LEMMA SyncOwn ==
  ASSUME TypeOK, DiskInv, NEW h \in Hosts, SyncHost(h)
  PROVE  /\ ca[first].pem # None => ca'[h].pem = ca[first].pem
         /\ h \in nodes /\ Has(node[first][h]) => node'[h][h] = node[first][h]
         /\ h \in etcd /\ Has(member[first][h]) => member'[h][h] = member[first][h]
<1>0. /\ node[h][h] \in Pairs /\ member[h][h] \in Pairs
      /\ node[first][h] \in Pairs /\ member[first][h] \in Pairs
  BY DEF TypeOK
<1>1. Receive(h, Archive(h)) BY SyncReceives DEF SyncHost
<1>2. /\ WholeUnder(node[first][h], ca[first])
      /\ WholeUnder(member[first][h], ca[first])
  BY DEF DiskInv, FirstWhole
<1>3. ca[first].pem # None => ca'[h].pem = ca[first].pem
  <2>1. ca'[h] = UnpackCA(ca[first], ca[h], Archive(h).caKey, Archive(h).caPem)
    BY <1>1, ReceiveEffect
  <2>2. Archive(h).caPem = TRUE BY ArchiveFull
  <2> QED BY <2>1, <2>2 DEF UnpackCA
<1>4. h \in nodes /\ Has(node[first][h]) => node'[h][h] = node[first][h]
  <2>1. h \in nodes => node'[h][h] = Unpack(node[first][h], node[h][h], TRUE, TRUE)
    BY <1>1, ReceiveEffect, ArchiveFull DEF Unpack
  <2> QED BY <1>0, <1>2, <2>1, UnpackWhole
<1>5. h \in etcd /\ Has(member[first][h]) => member'[h][h] = member[first][h]
  <2>1. h \in etcd => member'[h][h] = Unpack(member[first][h], member[h][h], TRUE, TRUE)
    BY <1>1, ReceiveEffect, ArchiveFull DEF Unpack
  <2> QED BY <1>0, <1>2, <2>1, UnpackWhole
<1> QED BY <1>3, <1>4, <1>5

\* A host that unpacked some of its files has the node key of the first etcd
\* host only if it had it before or has all the files that come before it.
LEMMA ReceiveOwn ==
  ASSUME TypeOK, DiskInv, NEW h \in Hosts, NEW m, Receive(h, m), Prefix(m, Archive(h)),
         h # first, node'[h][h].key = node[first][h].key, node[first][h].key # None
  PROVE  /\ node'[h][h] = node[first][h] /\ ca'[h].pem = ca[first].pem
         /\ h \in Members => member'[h][h] = member[first][h]
<1>0. /\ node[h][h] \in Pairs /\ member[h][h] \in Pairs
      /\ node[first][h] \in Pairs /\ member[first][h] \in Pairs
      /\ ca[h] \in CAs /\ ca[first] \in CAs
  BY DEF TypeOK
<1>1. /\ WholeUnder(node[first][h], ca[first])
      /\ WholeUnder(member[first][h], ca[first])
  BY DEF DiskInv, FirstWhole
<1>2. /\ ca'[h] = UnpackCA(ca[first], ca[h], m.caKey, m.caPem)
      /\ node'[h][h] = Unpack(node[first][h], node[h][h], h \in m.nKey, h \in m.nPem)
      /\ member'[h][h] = Unpack(member[first][h], member[h][h], h \in m.mKey, h \in m.mPem)
  BY ReceiveEffect
<1>3. Has(node[first][h]) /\ ca[first].pem # None
  BY FirstShape DEF DiskInv
<1>4. CASE h \in m.nKey
  <2>1. h \in m.nPem /\ m.caPem /\ (h \in etcd => h \in m.mKey /\ h \in m.mPem)
    BY <1>4 DEF Prefix, InOrder, Archive
  <2>2. node'[h][h] = node[first][h]
    <3>1. node'[h][h] = Unpack(node[first][h], node[h][h], TRUE, TRUE)
      BY <1>2, <1>4, <2>1 DEF Unpack
    <3> QED BY <1>0, <1>1, <1>3, <3>1, UnpackWhole
  <2>3. ca'[h].pem = ca[first].pem BY <1>2, <1>3, <2>1 DEF UnpackCA
  <2>4. h \in Members => member'[h][h] = member[first][h]
    <3>1. h \in Members => Has(member[first][h])
      BY <1>3 DEF DiskInv, KeyMeansPair
    <3>2. h \in Members => member'[h][h] = Unpack(member[first][h], member[h][h], TRUE, TRUE)
      BY <1>2, <2>1 DEF Unpack
    <3> QED BY <1>0, <1>1, <3>1, <3>2, UnpackWhole
  <2> QED BY <2>2, <2>3, <2>4
<1>5. CASE h \notin m.nKey
  <2>1. SameKey(h) BY <1>2, <1>5 DEF Unpack, SameKey
  <2>2. /\ node[h][h] = node[first][h] /\ ca[h].pem = ca[first].pem
        /\ h \in Members => member[h][h] = member[first][h]
    BY <2>1 DEF DiskInv, KeyMeansPair
  <2>3. node'[h][h] = node[first][h] BY <1>0, <1>2, <2>2, UnpackSame
  <2>4. h \in Members => member'[h][h] = member[first][h]
    BY <1>0, <1>2, <2>2, UnpackSame
  <2>5. ca'[h].pem = ca[first].pem BY <1>2, <2>2 DEF UnpackCA
  <2> QED BY <2>3, <2>4, <2>5
<1> QED BY <1>4, <1>5

LEMMA SyncDisk ==
  ASSUME TypeOK, DiskInv, NEW h \in Hosts, SyncHost(h) \/ CutUnpack(h)
  PROVE  DiskInv'
<1>0. first \in Hosts /\ first' = first /\ etcd' = etcd /\ nodes' = nodes /\ h # first
  BY SyncReceives DEF TypeOK
<1>1. PICK m : Receive(h, m) /\ Prefix(m, Archive(h)) BY SyncReceives
<1>2. \A d \in Hosts \ {h} : node'[d] = node[d] /\ member'[d] = member[d] /\ ca'[d] = ca[d]
  BY <1>1, ReceiveEffect
<1>3. node'[first] = node[first] /\ member'[first] = member[first] /\ ca'[first] = ca[first]
  BY <1>0, <1>2
<1>4. FirstWhole' BY <1>0, <1>3 DEF DiskInv, FirstWhole
<1>5. Holders' BY <1>0, <1>3 DEF DiskInv, Holders
<1>6. KeyMeansPair'
  <2> SUFFICES ASSUME NEW x \in Hosts
               PROVE  /\ SameKey(x)' => (node[x][x] = node[first][x] /\ ca[x].pem = ca[first].pem)'
                      /\ x \in Members' /\ SameKey(x)' => (member[x][x] = member[first][x])'
                      /\ x \in Members' /\ Has(node[first][x])' => Has(member[first][x])'
    BY DEF KeyMeansPair
  <2>1. x \in Members' /\ Has(node[first][x])' => Has(member[first][x])'
    BY <1>0, <1>3 DEF DiskInv, KeyMeansPair
  <2>2. CASE x # h
    BY <1>0, <1>2, <1>3, <2>1, <2>2 DEF DiskInv, KeyMeansPair, SameKey
  <2>3. CASE x = h
    BY <1>0, <1>1, <1>3, <2>1, <2>3, ReceiveOwn DEF SameKey
  <2> QED BY <2>2, <2>3
<1> QED BY <1>4, <1>5, <1>6 DEF DiskInv

LEMMA ResetDisk ==
  ASSUME TypeOK, DiskInv, NEW h \in Hosts, Reset(h)
  PROVE  DiskInv'
<1>0. /\ first \in Hosts /\ first' = first /\ etcd' = etcd /\ nodes' = nodes
  BY DEF TypeOK, Reset, inventory
<1>1. /\ \A d \in Hosts \ {h} : node'[d] = node[d] /\ member'[d] = member[d] /\ ca'[d] = ca[d]
      /\ ca'[h] = NoCA /\ \A x \in Hosts : node'[h][x] = NoPair /\ member'[h][x] = NoPair
  BY DEF TypeOK, Reset
<1>2. FirstWhole' BY <1>0, <1>1 DEF DiskInv, FirstWhole, WholeUnder, Has, NoCA
<1>3. Holders' BY <1>0, <1>1 DEF DiskInv, Holders, Has
<1>4. KeyMeansPair' BY <1>0, <1>1 DEF DiskInv, KeyMeansPair, SameKey, Has, NoPair
<1> QED BY <1>2, <1>3, <1>4 DEF DiskInv

\* A host joins a group: one that joins etcd with a node key is no member.
LEMMA InventoryDisk ==
  ASSUME TypeOK, DiskInv, NEW h \in Hosts, AddNode(h) \/ AddEtcd(h)
  PROVE  DiskInv'
<1>0. /\ first' = first /\ ca' = ca /\ node' = node /\ member' = member
      /\ nodes \subseteq nodes' /\ etcd \subseteq etcd'
  BY DEF AddNode, AddEtcd, disks
<1>1. \A x \in Members' \ Members : ~Has(node[first][x])
  BY FirstShape DEF AddNode, AddEtcd, Edit, FreshMembers, DiskInv
<1>2. FirstWhole' BY <1>0 DEF DiskInv, FirstWhole
<1>3. Holders' BY <1>0 DEF DiskInv, Holders
<1>5. KeyMeansPair'
  <2>1. \A x \in Hosts : SameKey(x) => Has(node[first][x])
    BY FirstShape DEF SameKey, DiskInv
  <2> QED BY <1>0, <1>1, <2>1 DEF DiskInv, KeyMeansPair, SameKey
<1> QED BY <1>2, <1>3, <1>5 DEF DiskInv

LEMMA UnchangedDisk ==
  ASSUME DiskInv, UNCHANGED <<inventory, disks>> PROVE DiskInv'
BY DEF DiskInv, FirstWhole, Holders, KeyMeansPair, SameKey,
       inventory, disks

-----------------------------------------------------------------------------
(* The part of the invariant that speaks of the play under way. *)

PlayInv == FactsCurrent /\ FirstComplete /\ PlayServed /\ EtcdServed /\ NodesConverged

LEMMA Split == IInv <=> TypeOK /\ PlayShape /\ DiskInv /\ PlayInv
BY DEF IInv, DiskInv, PlayInv

\* A pair the first etcd host has works there, and on a host that holds the
\* same one under the same CA.
LEMMA FirstServes ==
  ASSUME TypeOK, DiskInv, NEW h \in Hosts
  PROVE  /\ Has(node[first][h]) /\ node[h][h] = node[first][h] /\ ca[h].pem = ca[first].pem
              => Deployed(h)
         /\ Has(member[first][h]) /\ member[h][h] = member[first][h] /\ ca[h].pem = ca[first].pem
              => MemberDeployed(h)
BY DEF DiskInv, FirstWhole, WholeUnder, Usable, Deployed, MemberDeployed

\* Between plays, and when a play begins that promises nothing yet.
LEMMA QuietPlay ==
  ASSUME \/ step' \in {"idle", "scaled"} /\ play' = "none"
         \/ step' = "check" /\ play' \in {"etcd", "scale"}
  PROVE  PlayInv'
BY DEF PlayInv, FactsCurrent, FirstComplete, PastScript, PlayServed, EtcdServed, NodesConverged

\* A host the checks of check_certs.yml let pass is served: its key is the
\* one the first etcd host holds, so its pair is, so its CA is.
LEMMA CheckPlay ==
  ASSUME TypeOK, DiskInv, PlayInv, CheckCerts PROVE PlayInv'
<1>0. /\ step = "check" /\ step' = "generate" /\ UNCHANGED <<first, etcd, nodes, ca, node, member, play, lead>>
      /\ Targets' = Targets
  BY DEF CheckCerts, inventory, disks, Targets
<1>1. FactsCurrent'
  BY <1>0 DEF CheckCerts, Missing, FactsCurrent
<1>2. FirstComplete' /\ EtcdServed' /\ NodesConverged'
  BY <1>0 DEF PlayInv, FirstComplete, PastScript, EtcdServed, MemberDeployed, NodesConverged
<1>3. PlayServed'
  <2>1. ASSUME NEW h \in Targets \ (sync' \cup {first}) PROVE Served(h)
    <3>1. h \in Hosts BY DEF TypeOK, Targets
    <3>2. SameKey(h) /\ ca[h].pem # None BY <3>1 DEF CheckCerts, Stale, SameKey
    <3>3. Has(node[first][h]) BY <3>1, <3>2, FirstShape DEF DiskInv, SameKey
    <3>4. node[h][h] = node[first][h] /\ ca[h].pem = ca[first].pem
      BY <3>1, <3>2 DEF DiskInv, KeyMeansPair
    <3>5. h \in Members => member[h][h] = member[first][h] /\ Has(member[first][h])
      BY <3>1, <3>2, <3>3 DEF DiskInv, KeyMeansPair
    <3> QED BY <3>1, <3>3, <3>4, <3>5, FirstServes DEF Served
  <2> QED BY <1>0, <2>1 DEF PlayServed, Served, Deployed, MemberDeployed
<1> QED BY <1>1, <1>2, <1>3 DEF PlayInv

\* The script fills what the first etcd host lacks, and touches nothing a
\* host that needs no sync relies on.
LEMMA ScriptPlay ==
  ASSUME TypeOK, DiskInv, PlayInv, RunScript PROVE PlayInv'
<1>0. /\ step = "generate" /\ step' = "sync"
      /\ UNCHANGED <<first, etcd, nodes, play, lead, gen, genNode, sync>>
      /\ Targets' = Targets /\ first \in Hosts /\ ca \in [Hosts -> CAs]
      /\ nodes \in SUBSET Hosts /\ etcd \in SUBSET Hosts
  BY DEF RunScript, inventory, facts, Targets, TypeOK
<1>1. DiskInv' /\ ca'[first].pem # None /\ (ca[first].pem # None => ca'[first] = ca[first])
  BY ScriptDisk DEF PlayInv
<1>2. PICK n \in Serial, c \in MaybeSerial :
           /\ ca' = [ca EXCEPT ![first] = [pem |-> c, key |-> c]]
           /\ \A d \in Hosts \ {first} : node'[d] = node[d] /\ member'[d] = member[d]
           /\ \A h \in Hosts :
                /\ node'[first][h] = IF h \in nodes \cap genNode THEN NewPair(n, c)
                                     ELSE node[first][h]
                /\ member'[first][h] = IF h \in etcd \cap genNode THEN NewPair(n, c)
                                       ELSE member[first][h]
  BY ScriptEffect
<1>3. Has(NewPair(n, c)) BY SerialNotNone DEF NewPair, Has, NoPair
<1>4. \A d \in Hosts \ {first} : ca'[d] = ca[d] BY <1>0, <1>2
<1>5. TypeOK' BY NextType DEF Next, Run
<1>6. FactsCurrent' /\ NodesConverged'
  BY <1>0 DEF FactsCurrent, NodesConverged
<1>7. FirstComplete'
  <2>1. ASSUME NEW h \in nodes PROVE Has(node'[first][h])
    BY <1>0, <1>2, <1>3, FirstShape DEF PlayInv, FactsCurrent, DiskInv
  <2>2. ASSUME NEW h \in Members PROVE Has(member'[first][h])
    BY <1>0, <1>2, <1>3, FirstShape DEF PlayInv, FactsCurrent, DiskInv, KeyMeansPair
  <2> QED BY <1>0, <1>1, <2>1, <2>2 DEF FirstComplete, Has
<1>8. PlayServed'
  <2> SUFFICES ASSUME play \in {"etcd", "nodes"}, NEW h \in Targets \ (sync \cup {first})
               PROVE  Served(h)'
    BY <1>0 DEF PlayServed
  <2>1. h \in Hosts /\ h # first BY <1>0 DEF Targets
  <2>2. Served(h) BY <1>0 DEF PlayInv, PlayServed
  <2>3. CASE h \in nodes \/ h \in Members
    <3>1. ca[first].pem # None BY <2>2, <2>3 DEF Served, Deployed, MemberDeployed, Usable
    <3>2. ca'[first] = ca[first] /\ ca'[h] = ca[h] /\ node'[h] = node[h] /\ member'[h] = member[h]
      BY <1>1, <1>2, <1>4, <2>1, <3>1
    <3> QED BY <1>0, <2>2, <3>2 DEF Served, Deployed, MemberDeployed
  <2>4. CASE h \notin nodes /\ h \notin Members
    BY <1>0, <2>4 DEF Served
  <2> QED BY <2>3, <2>4
<1>9. EtcdServed'
  <2> SUFFICES ASSUME play = "nodes", NEW h \in Members PROVE MemberDeployed(h)'
    BY <1>0 DEF EtcdServed
  <2>1. CASE h = first
    BY <1>0, <1>1, <1>7, <2>1 DEF FirstComplete, PastScript, DiskInv, FirstWhole, WholeUnder, MemberDeployed, Has
  <2>2. CASE h # first
    <3>1. MemberDeployed(h) BY DEF PlayInv, EtcdServed
    <3>2. ca[first].pem # None BY DEF PlayInv, FirstComplete, PastScript
    <3>3. ca'[first] = ca[first] /\ ca'[h] = ca[h] /\ member'[h] = member[h]
      BY <1>0, <1>1, <1>2, <1>4, <2>2, <3>2
    <3> QED BY <1>0, <3>1, <3>3 DEF MemberDeployed
  <2> QED BY <2>1, <2>2
<1> QED BY <1>6, <1>7, <1>8, <1>9 DEF PlayInv

\* In the etcd play the script is skipped only when nothing is missing.
LEMMA SkipPlay ==
  ASSUME TypeOK, PlayShape, DiskInv, PlayInv, SkipScript PROVE PlayInv'
<1>0. /\ step = "generate" /\ step' = "sync"
      /\ UNCHANGED <<first, etcd, nodes, ca, node, member, play, lead, gen, genNode, sync>>
      /\ Targets' = Targets
      /\ nodes \in SUBSET Hosts /\ etcd \in SUBSET Hosts
  BY DEF SkipScript, inventory, disks, facts, Targets, TypeOK
<1>1. FactsCurrent' /\ NodesConverged' BY <1>0 DEF FactsCurrent, NodesConverged
<1>2. PlayServed'
  BY <1>0 DEF PlayInv, PlayServed, Served, Deployed, MemberDeployed
<1>3. EtcdServed' BY <1>0 DEF PlayInv, EtcdServed, MemberDeployed
<1>4. FirstComplete'
  <2>1. CASE play = "etcd"
    <3>1. ca[first].pem # None /\ genNode = {}
      BY <1>0, <2>1 DEF SkipScript, ScriptRuns, PlayShape, PlayInv, FactsCurrent
    <3>2. \A h \in nodes \cup etcd : node[first][h].key # None
      BY <1>0, <3>1 DEF PlayInv, FactsCurrent
    <3>3. \A h \in nodes \cup etcd : Has(node[first][h])
      BY <1>0, <3>2, FirstShape DEF DiskInv
    <3> QED BY <1>0, <3>1, <3>3 DEF FirstComplete, DiskInv, KeyMeansPair, Has
  <2>2. CASE play # "etcd"
    BY <1>0, <2>2 DEF PlayInv, FirstComplete, PastScript, Has
  <2> QED BY <2>1, <2>2
<1> QED BY <1>1, <1>2, <1>3, <1>4 DEF PlayInv

LEMMA SyncPlay ==
  ASSUME TypeOK, DiskInv, PlayInv, NEW h \in Hosts, SyncHost(h) PROVE PlayInv'
<1>0. /\ step = "sync" /\ step' = "sync" /\ sync' = sync \ {h} /\ h # first /\ first \in Hosts
      /\ UNCHANGED <<first, etcd, nodes, play, lead, gen, genNode>>
      /\ Targets' = Targets
      /\ nodes \in SUBSET Hosts /\ etcd \in SUBSET Hosts /\ ca \in [Hosts -> CAs]
  BY DEF SyncHost, inventory, Targets, TypeOK
<1>1. \A d \in Hosts \ {h} : node'[d] = node[d] /\ member'[d] = member[d] /\ ca'[d] = ca[d]
  <2>1. PICK m : Receive(h, m) BY SyncReceives
  <2> QED BY <2>1, ReceiveEffect
<1>2. node'[first] = node[first] /\ member'[first] = member[first] /\ ca'[first] = ca[first]
  BY <1>0, <1>1
<1>3. FactsCurrent' /\ NodesConverged' BY <1>0 DEF FactsCurrent, NodesConverged
<1>4. FirstComplete'
  BY <1>0, <1>2 DEF PlayInv, FirstComplete, PastScript, Has
<1>5. ASSUME play \in {"etcd", "nodes"} PROVE Served(h)'
  <2>1. /\ ca[first].pem # None
        /\ h \in nodes => Has(node[first][h])
        /\ h \in Members => Has(member[first][h])
    BY <1>0, <1>5 DEF PlayInv, FirstComplete, PastScript
  <2>2. /\ ca'[h].pem = ca[first].pem
        /\ h \in nodes => node'[h][h] = node[first][h]
        /\ h \in Members => member'[h][h] = member[first][h]
    BY <2>1, SyncOwn
  <2> QED BY <1>0, <1>2, <2>1, <2>2
        DEF Served, Deployed, MemberDeployed, DiskInv, FirstWhole, WholeUnder, Usable
<1>6. PlayServed'
  <2> SUFFICES ASSUME play \in {"etcd", "nodes"}, NEW x \in Targets \ ((sync \ {h}) \cup {first})
               PROVE  Served(x)'
    BY <1>0 DEF PlayServed
  <2>1. x \in Hosts BY <1>0 DEF Targets
  <2>2. CASE x = h BY <1>5, <2>2 DEF Served, Deployed, MemberDeployed
  <2>3. CASE x # h
    <3>1. Served(x) BY <1>0, <2>3 DEF PlayInv, PlayServed
    <3> QED BY <1>0, <1>1, <1>2, <2>1, <2>3, <3>1 DEF Served, Deployed, MemberDeployed
  <2> QED BY <2>2, <2>3
<1>7. EtcdServed'
  <2> SUFFICES ASSUME play = "nodes", NEW x \in Members PROVE MemberDeployed(x)'
    BY <1>0 DEF EtcdServed
  <2>1. CASE x = h BY <1>0, <1>5, <2>1 DEF Served, MemberDeployed
  <2>2. CASE x # h
    <3>1. MemberDeployed(x) BY DEF PlayInv, EtcdServed
    <3> QED BY <1>0, <1>1, <1>2, <2>2, <3>1 DEF MemberDeployed
  <2> QED BY <2>1, <2>2
<1> QED BY <1>3, <1>4, <1>6, <1>7 DEF PlayInv

LEMMA EndEtcdPlayInv ==
  ASSUME TypeOK, DiskInv, PlayInv, EndEtcdPlay PROVE PlayInv'
<1>0. /\ step = "sync" /\ sync \subseteq {first} /\ play = "etcd"
      /\ step' = "check" /\ play' = "nodes"
      /\ UNCHANGED <<first, etcd, nodes, ca, node, member>>
      /\ etcd \in SUBSET Hosts
  BY DEF EndEtcdPlay, Synced, Enter, inventory, disks, TypeOK
<1>1. FirstComplete' BY <1>0 DEF PlayInv, FirstComplete, PastScript, Has
<1>2. EtcdServed'
  <2>1. ASSUME NEW h \in Members PROVE MemberDeployed(h)
    <3>1. CASE h = first
      BY <1>0, <3>1, FirstServes DEF PlayInv, FirstComplete, PastScript
    <3>2. CASE h # first
      BY <1>0, <3>2 DEF PlayInv, PlayServed, Served, Targets
    <3> QED BY <3>1, <3>2
  <2> QED BY <1>0, <2>1 DEF EtcdServed, MemberDeployed
<1>3. FactsCurrent' /\ PlayServed' /\ NodesConverged'
  BY <1>0 DEF FactsCurrent, PlayServed, NodesConverged
<1> QED BY <1>1, <1>2, <1>3 DEF PlayInv

\* cluster.yml completes: every host of its last play is served.
LEMMA EndRunInv ==
  ASSUME TypeOK, DiskInv, PlayInv, EndRun PROVE PlayInv'
<1>0. /\ step = "sync" /\ sync \subseteq {first} /\ play' = "none"
      /\ UNCHANGED <<first, etcd, nodes, ca, node, member>>
      /\ nodes \in SUBSET Hosts
  BY DEF EndRun, Synced, Leave, inventory, disks, TypeOK
<1>1. CASE play = "scale"
  BY <1>0, <1>1, QuietPlay DEF EndRun, Leave
<1>2. CASE play = "nodes"
  <2>1. step' = "done" BY <1>2 DEF EndRun, Leave
  <2>2. FirstComplete' BY <1>0, <1>2, <2>1 DEF PlayInv, FirstComplete, PastScript, Has
  <2>3. EtcdServed' BY <1>0, <1>2, <2>1 DEF PlayInv, EtcdServed, MemberDeployed
  <2>4. NodesConverged'
    <3>1. ASSUME NEW h \in nodes PROVE Deployed(h)
      <4>1. CASE h = first
        BY <1>0, <1>2, <4>1, FirstServes DEF PlayInv, FirstComplete, PastScript
      <4>2. CASE h # first
        BY <1>0, <1>2, <4>2 DEF PlayInv, PlayServed, Served, Targets
      <4> QED BY <4>1, <4>2
    <3> QED BY <1>0, <3>1 DEF NodesConverged, Deployed
  <2>5. FactsCurrent' /\ PlayServed' BY <2>1 DEF FactsCurrent, PlayServed
  <2> QED BY <2>2, <2>3, <2>4, <2>5 DEF PlayInv
<1> QED BY <1>1, <1>2 DEF EndRun

-----------------------------------------------------------------------------
(* The invariant, and what follows from it. *)

LEMMA ShapeNext ==
  ASSUME TypeOK, PlayShape, [Next]_vars PROVE PlayShape'
BY DEF PlayShape, AtRest, Next, Run, Interruption, CutUnpack, Operator, vars, inventory, facts, StartCluster,
       StartScale, Fail, CheckCerts, RunScript, KillScript, ScriptRefuses, SkipScript,
       SyncHost, EndEtcdPlay, EndRun, NoCAToTrust, AddNode, AddEtcd, MoveFirst, Reset,
       Edit, Enter, Leave, Synced

LEMMA InitInv == Init => IInv
<1> SUFFICES ASSUME Init PROVE IInv OBVIOUS
<1>1. TypeOK BY InitType
<1>2. DiskInv
  BY <1>1 DEF Init, DiskInv, FirstWhole, Holders, KeyMeansPair, SameKey,
         WholeUnder, Has, NoPair, NoCA, TypeOK
<1>3. PlayShape /\ PlayInv
  BY DEF Init, PlayShape, AtRest, PlayInv, FactsCurrent, FirstComplete, PastScript,
         PlayServed, EtcdServed, NodesConverged
<1> QED BY <1>1, <1>2, <1>3, Split

LEMMA NextInv == Regular /\ IInv /\ [Next]_vars => IInv'
<1> SUFFICES ASSUME Regular, IInv, [Next]_vars PROVE IInv' OBVIOUS
<1>1. TypeOK /\ PlayShape /\ DiskInv /\ PlayInv BY Split
<1>2. TypeOK' BY <1>1, NextType
<1>3. PlayShape' BY <1>1, ShapeNext
<1>4. DiskInv' /\ PlayInv'
  <2>1. CASE StartCluster
    BY <1>1, <2>1, UnchangedDisk, QuietPlay DEF StartCluster, Enter
  <2>2. CASE StartScale
    BY <1>1, <2>2, UnchangedDisk, QuietPlay DEF StartScale, Enter
  <2>3. CASE Fail
    BY <1>1, <2>3, UnchangedDisk, QuietPlay DEF Fail, Leave
  <2>4. CASE CheckCerts
    BY <1>1, <2>4, UnchangedDisk, CheckPlay DEF CheckCerts
  <2>5. CASE RunScript
    BY <1>1, <2>5, ScriptDisk, ScriptPlay DEF PlayInv
  <2>6. CASE ScriptRefuses
    BY <1>1, <2>6, UnchangedDisk, QuietPlay DEF ScriptRefuses, Leave
  <2>7. CASE SkipScript
    BY <1>1, <2>7, UnchangedDisk, SkipPlay DEF SkipScript
  <2>8. ASSUME NEW h \in Hosts, SyncHost(h) PROVE DiskInv' /\ PlayInv'
    BY <1>1, <2>8, SyncDisk, SyncPlay
  <2>9. CASE EndEtcdPlay
    BY <1>1, <2>9, UnchangedDisk, EndEtcdPlayInv DEF EndEtcdPlay
  <2>10. CASE EndRun
    BY <1>1, <2>10, UnchangedDisk, EndRunInv DEF EndRun
  <2>11. CASE NoCAToTrust
    BY <1>1, <2>11, UnchangedDisk, QuietPlay DEF NoCAToTrust, Leave
  <2>12. CASE KillScript
    BY <2>12 DEF KillScript, Regular
  <2>13. ASSUME NEW h \in Hosts, AddNode(h) \/ AddEtcd(h) PROVE DiskInv' /\ PlayInv'
    BY <1>1, <2>13, InventoryDisk, QuietPlay DEF AddNode, AddEtcd, Edit, Leave
  <2>14. ASSUME NEW h \in Hosts, MoveFirst(h) PROVE FALSE
    BY <2>14 DEF MoveFirst, Edit, Regular
  <2>15. ASSUME NEW h \in Hosts, Reset(h) PROVE DiskInv' /\ PlayInv'
    BY <1>1, <2>15, ResetDisk, QuietPlay DEF Reset, Edit, Leave
  <2>17. ASSUME NEW h \in Hosts, CutUnpack(h) PROVE DiskInv' /\ PlayInv'
    BY <1>1, <2>17, SyncDisk, QuietPlay DEF CutUnpack, Leave
  <2>16. CASE UNCHANGED vars
    BY <1>1, <2>16, UnchangedDisk DEF vars, PlayInv, FactsCurrent, FirstComplete, PastScript,
       PlayServed, EtcdServed, NodesConverged, Served, Deployed, MemberDeployed, Targets,
       inventory, disks, facts
  <2> QED BY <2>1, <2>2, <2>3, <2>4, <2>5, <2>6, <2>7, <2>8, <2>9, <2>10, <2>11, <2>12,
             <2>13, <2>14, <2>15, <2>16, <2>17 DEF Next, Run, Interruption, Operator
<1> QED BY <1>2, <1>3, <1>4 DEF IInv, DiskInv, PlayInv

LEMMA InvHolds == Regular => (Spec => []IInv)
<1> SUFFICES ASSUME Regular PROVE Spec => []IInv OBVIOUS
<1>1. Init => IInv BY InitInv
<1>2. IInv /\ [Next]_vars => IInv' BY NextInv
<1> QED BY <1>1, <1>2, PTL DEF Spec

\* When cluster.yml completes, every node holds a working pair under the
\* first etcd host's CA, for any number of hosts, failed runs and edits.
THEOREM NodesConvergedHolds == Regular => (Spec => []NodesConverged)
<1> SUFFICES ASSUME Regular PROVE Spec => []NodesConverged OBVIOUS
<1>1. IInv => NodesConverged BY DEF IInv
<1> QED BY <1>1, InvHolds, PTL

\* When cluster.yml completes, every etcd host holds working member pairs, as
\* hosts join etcd before they hold a node key.
THEOREM MembersConvergedHolds == Regular /\ FreshMembers => (Spec => []MembersConverged)
<1> SUFFICES ASSUME Regular, FreshMembers PROVE Spec => []MembersConverged OBVIOUS
<1>1. IInv => MembersConverged BY DEF IInv, EtcdServed, MembersConverged
<1> QED BY <1>1, InvHolds, PTL

\* A host whose node key is the first etcd host's has the pair, the CA and
\* the member pair that go with it, wherever unpacks were cut and runs failed.
THEOREM KeyVouchesHolds == Regular /\ FreshMembers => (Spec => []KeyVouches)
<1> SUFFICES ASSUME Regular, FreshMembers PROVE Spec => []KeyVouches OBVIOUS
<1>1. IInv => KeyVouches
  <2> SUFFICES ASSUME IInv, NEW h \in Hosts, SameKey(h)
               PROVE  Deployed(h) /\ (h \in etcd => MemberDeployed(h))
    BY DEF KeyVouches, SameKey
  <2>1. TypeOK /\ DiskInv BY Split
  <2>2. Has(node[first][h]) BY <2>1, FirstShape DEF DiskInv, SameKey
  <2>3. Deployed(h) BY <2>1, <2>2, FirstServes DEF DiskInv, KeyMeansPair
  <2>4. h \in etcd => Has(member[first][h]) /\ member[h][h] = member[first][h]
    BY <2>1, <2>2 DEF DiskInv, KeyMeansPair
  <2> QED BY <2>1, <2>3, <2>4, FirstServes DEF DiskInv, KeyMeansPair
<1> QED BY <1>1, InvHolds, PTL

LEMMA KeyStep ==
  ASSUME Regular, IInv, [Next]_vars, NEW h \in Hosts, SameKey(h)
  PROVE  node'[h][h] \in {node[h][h], NoPair}
<1>1. TypeOK /\ DiskInv /\ PlayInv BY Split
<1>2. CASE UNCHANGED node BY <1>2
<1>3. CASE RunScript
  <2>1. h # first => node'[h] = node[h] BY <1>1, <1>3, ScriptEffect
  <2>2. h = first => node'[h][h] = node[h][h]
    <3>1. (SameKey(h) /\ step = "generate" /\ h \notin genNode) \/ h # first
      BY <1>1, <1>3 DEF RunScript, PlayInv, FactsCurrent, SameKey
    <3> QED BY <1>1, <1>3, <3>1, ScriptEffect
  <2> QED BY <2>1, <2>2
<1>4. ASSUME NEW x \in Hosts, SyncHost(x) \/ CutUnpack(x) PROVE node'[h][h] = node[h][h]
  <2>1. PICK m : Receive(x, m) BY <1>4, SyncReceives
  <2>2. CASE x # h BY <1>1, <2>1, <2>2, ReceiveEffect
  <2>3. CASE x = h
    <3>1. node[h][h] = node[first][h] BY <1>1 DEF DiskInv, KeyMeansPair
    <3>2. node[first][h] \in Pairs BY <1>1 DEF TypeOK
    <3>3. node'[h][h] = Unpack(node[first][h], node[h][h], h \in m.nKey, h \in m.nPem)
      BY <1>1, <2>1, <2>3, ReceiveEffect
    <3> QED BY <3>1, <3>2, <3>3, UnpackSame
  <2> QED BY <2>2, <2>3
<1>5. ASSUME NEW x \in Hosts, Reset(x) PROVE node'[h][h] \in {node[h][h], NoPair}
  BY <1>1, <1>5 DEF Reset, TypeOK
<1> QED BY <1>2, <1>3, <1>4, <1>5
  DEF Next, Run, Interruption, Operator, vars, disks, StartCluster, StartScale, Fail, CheckCerts,
      ScriptRefuses, SkipScript, EndEtcdPlay, EndRun, NoCAToTrust, KillScript, Regular,
      AddNode, AddEtcd, MoveFirst, Edit

\* No run replaces a node key the host and the first etcd host agree on.
THEOREM KeysKeptHolds == Regular => (Spec => KeysKept)
<1> SUFFICES ASSUME Regular PROVE Spec => KeysKept OBVIOUS
<1>1. IInv /\ [Next]_vars =>
        [\A h \in Hosts :
           /\ node[h][h].key # None /\ node[h][h].key = node[first][h].key
           => node'[h][h] \in {node[h][h], NoPair}]_vars
  <2> SUFFICES ASSUME IInv, [Next]_vars, NEW h \in Hosts,
                      node[h][h].key # None, node[h][h].key = node[first][h].key
               PROVE  node'[h][h] \in {node[h][h], NoPair}
    OBVIOUS
  <2> QED BY KeyStep DEF SameKey
<1> QED BY <1>1, InvHolds, PTL DEF Spec, KeysKept

-----------------------------------------------------------------------------
(* The keys after a run that completes; no condition is needed, as the     *)
(* argument follows the keys alone and asks nothing of certificates.       *)

FactsOfCheck ==
  step = "generate" =>
    /\ genNode = {h \in nodes \cup etcd : node[first][h].key = None}
    /\ gen = (ca[first].pem = None \/ genNode # {})

\* Past the script of the etcd play, the first etcd host has a key for every node.
KeysMade == PastScript => \A h \in nodes : node[first][h].key # None

\* In the play over the nodes, who needs no sync, or has had it, has its key.
KeysSpread ==
  play = "nodes" /\ step \in {"generate", "sync"} =>
    \A h \in nodes \ (sync \cup {first}) : SameKey(h)

KeysInv == TypeOK /\ PlayShape /\ FactsOfCheck /\ KeysMade /\ KeysSpread /\ KeysAgree

LEMMA FactsOfCheckNext == TypeOK /\ FactsOfCheck /\ [Next]_vars => FactsOfCheck'
<1> SUFFICES ASSUME FactsOfCheck, [Next]_vars PROVE FactsOfCheck' OBVIOUS
<1>1. CASE CheckCerts
  BY <1>1 DEF FactsOfCheck, CheckCerts, Missing, inventory, disks
<1>2. CASE UNCHANGED vars
  BY <1>2 DEF FactsOfCheck, vars, inventory, disks, facts
<1>3. CASE ~CheckCerts /\ ~UNCHANGED vars
  <2>1. step' # "generate"
    BY <1>3 DEF Next, Run, Interruption, Operator, StartCluster, StartScale, Fail, RunScript,
       KillScript, ScriptRefuses, SkipScript, SyncHost, CutUnpack, EndEtcdPlay, EndRun, NoCAToTrust,
       AddNode, AddEtcd, MoveFirst, Reset, Edit, Enter, Leave, Synced
  <2> QED BY <2>1 DEF FactsOfCheck
<1> QED BY <1>1, <1>2, <1>3

LEMMA ScriptKeys == ASSUME KeysInv, RunScript PROVE KeysMade' /\ KeysSpread' /\ KeysAgree'
<1>0. /\ step = "generate" /\ step' = "sync" /\ first \in Hosts /\ nodes \in SUBSET Hosts
      /\ UNCHANGED <<first, etcd, nodes, play, lead, gen, genNode, sync>>
  BY DEF KeysInv, TypeOK, RunScript, inventory, facts
<1>1. PICK n \in Serial, c \in MaybeSerial :
        /\ \A d \in Hosts \ {first} : node'[d] = node[d]
        /\ \A h \in Hosts : node'[first][h] = IF h \in nodes \cap genNode THEN NewPair(n, c)
                                              ELSE node[first][h]
  BY ScriptEffect DEF KeysInv
<1>2. genNode = {h \in nodes \cup etcd : node[first][h].key = None}
  BY <1>0 DEF KeysInv, FactsOfCheck
<1>3. \A h \in nodes : node'[first][h].key # None
  BY <1>0, <1>1, <1>2, SerialNotNone DEF NewPair
<1>4. KeysSpread'
  <2> SUFFICES ASSUME play = "nodes", NEW h \in nodes \ (sync \cup {first}) PROVE SameKey(h)'
    BY <1>0 DEF KeysSpread
  <2>1. SameKey(h) BY <1>0 DEF KeysInv, KeysSpread
  <2>2. h \notin genNode BY <1>0, <1>2, <2>1 DEF SameKey
  <2> QED BY <1>0, <1>1, <2>1, <2>2 DEF SameKey
<1> QED BY <1>0, <1>3, <1>4 DEF KeysMade, KeysAgree

LEMMA SyncKeys ==
  ASSUME KeysInv, NEW h \in Hosts, SyncHost(h) PROVE KeysMade' /\ KeysSpread' /\ KeysAgree'
<1>0. /\ step = "sync" /\ step' = "sync" /\ sync' = sync \ {h} /\ first \in Hosts /\ h # first
      /\ nodes \in SUBSET Hosts /\ UNCHANGED <<first, etcd, nodes, play>>
  BY DEF KeysInv, TypeOK, SyncHost, inventory
<1>1. /\ \A d \in Hosts \ {h} : node'[d] = node[d]
      /\ h \in nodes => node'[h][h] = Unpack(node[first][h], node[h][h], TRUE, TRUE)
  <2>1. Receive(h, Archive(h)) BY DEF SyncHost
  <2> QED BY <2>1, ReceiveEffect, ArchiveFull DEF KeysInv, Unpack
<1>2. KeysMade' BY <1>0, <1>1 DEF KeysInv, KeysMade, PastScript
<1>3. KeysSpread'
  <2> SUFFICES ASSUME play = "nodes", NEW x \in nodes \ ((sync \ {h}) \cup {first})
               PROVE  SameKey(x)'
    BY <1>0 DEF KeysSpread
  <2>1. node[first][x].key # None BY DEF KeysInv, KeysMade, PastScript
  <2>2. CASE x = h
    BY <1>0, <1>1, <2>1, <2>2 DEF SameKey, Unpack
  <2>3. CASE x # h
    <3>1. SameKey(x) BY <1>0, <2>3 DEF KeysInv, KeysSpread
    <3> QED BY <1>0, <1>1, <2>3, <3>1 DEF SameKey
  <2> QED BY <2>2, <2>3
<1> QED BY <1>0, <1>2, <1>3 DEF KeysAgree

LEMMA NextKeys == KeysInv /\ [Next]_vars => KeysInv'
<1> SUFFICES ASSUME KeysInv, [Next]_vars PROVE KeysInv' OBVIOUS
<1>1. TypeOK' /\ PlayShape' /\ FactsOfCheck'
  BY NextType, ShapeNext, FactsOfCheckNext DEF KeysInv
<1>2. KeysMade' /\ KeysSpread' /\ KeysAgree'
  <2> USE DEF KeysInv, KeysMade, KeysSpread, KeysAgree, PastScript
  <2>1. CASE play' # "nodes" /\ step' \notin {"sync", "done"}
    BY <2>1
  <2>2. CASE CheckCerts
    <3>1. /\ UNCHANGED <<first, etcd, nodes, node, play>> /\ step' = "generate"
          /\ sync' = {h \in Targets : h \in Missing \/ Stale(h)}
      BY <2>2 DEF CheckCerts, inventory, disks
    <3>2. play = "nodes" => \A h \in nodes \ sync' : node[h][h].key = node[first][h].key
      BY <3>1 DEF Targets, Stale
    <3> QED BY <3>1, <3>2 DEF SameKey
  <2>3. CASE RunScript
    BY <2>3, ScriptKeys
  <2>4. ASSUME NEW h \in Hosts, SyncHost(h) PROVE KeysMade' /\ KeysSpread' /\ KeysAgree'
    BY <2>4, SyncKeys
  <2>5. CASE SkipScript
    <3>1. /\ UNCHANGED <<first, etcd, nodes, node, play, sync>>
          /\ step = "generate" /\ step' = "sync"
      BY <2>5 DEF SkipScript, inventory, disks, facts
    <3>2. play = "etcd" => genNode = {}
      BY <3>1, <2>5 DEF SkipScript, ScriptRuns, PlayShape, FactsOfCheck
    <3>3. play = "etcd" => \A h \in nodes : node[first][h].key # None
      BY <3>1, <3>2 DEF FactsOfCheck
    <3> QED BY <3>1, <3>3 DEF SameKey
  <2>6. CASE EndEtcdPlay
    <3>1. UNCHANGED <<first, nodes, node>> /\ step = "sync" /\ play = "etcd"
          /\ play' = "nodes" /\ step' = "check"
      BY <2>6 DEF EndEtcdPlay, Synced, Enter, inventory, disks
    <3> QED BY <3>1
  <2>7. CASE EndRun
    <3>1. /\ UNCHANGED <<first, nodes, node>> /\ step = "sync" /\ sync \subseteq {first}
          /\ play' = "none"
          /\ step' = "done" => play = "nodes"
          /\ step' \in {"done", "scaled"}
      BY <2>7 DEF EndRun, Synced, Leave, inventory, disks
    <3> QED BY <3>1 DEF SameKey
  <2>8. CASE UNCHANGED vars
    BY <2>8 DEF vars, inventory, disks, facts, SameKey
  <2> QED BY <2>1, <2>2, <2>3, <2>4, <2>5, <2>6, <2>7, <2>8
          DEF Next, Run, Interruption, Operator, StartCluster, StartScale, Fail, KillScript, CutUnpack, ScriptRefuses,
              NoCAToTrust, AddNode, AddEtcd, MoveFirst, Reset, Edit, Enter, Leave
<1> QED BY <1>1, <1>2 DEF KeysInv

\* When cluster.yml completes, every node's key is the one the first etcd
\* host holds, whatever scripts were killed and whoever came first before.
THEOREM KeysAgreeHolds == Spec => []KeysAgree
<1>1. Init => KeysInv
  BY InitType DEF Init, KeysInv, PlayShape, AtRest, FactsOfCheck, KeysMade, PastScript,
     KeysSpread, KeysAgree
<1>2. KeysInv => KeysAgree BY DEF KeysInv
<1> QED BY <1>1, <1>2, NextKeys, PTL DEF Spec

-----------------------------------------------------------------------------
(* The role implements KeyDistribution; no condition is needed. *)

GenCurrent == step = "generate" => \A h \in genNode : node[first][h].key = None
KDInv == TypeOK /\ GenCurrent

LEMMA KeyTypes ==
  ASSUME TypeOK'
  PROVE  \A d \in Hosts, h \in Hosts : node'[d][h].key \in Serial \cup {None}
BY DEF TypeOK, Pairs, MaybeSerial

LEMMA KDInvNext == KDInv /\ [Next]_vars => KDInv'
<1> SUFFICES ASSUME KDInv, [Next]_vars PROVE KDInv' OBVIOUS
<1>1. TypeOK' BY NextType DEF KDInv
<1>2. CASE CheckCerts
  BY <1>1, <1>2 DEF KDInv, GenCurrent, CheckCerts, Missing, inventory, disks
<1>3. CASE UNCHANGED vars
  BY <1>1, <1>3 DEF KDInv, GenCurrent, vars, inventory, disks, facts
<1>4. CASE ~CheckCerts /\ ~UNCHANGED vars
  <2>1. step' # "generate"
    BY <1>4 DEF Next, Run, Interruption, Operator, StartCluster, StartScale, Fail, RunScript,
       KillScript, ScriptRefuses, SkipScript, SyncHost, CutUnpack, EndEtcdPlay, EndRun, NoCAToTrust,
       AddNode, AddEtcd, MoveFirst, Reset, Edit, Enter, Leave, Synced
  <2> QED BY <1>1, <2>1 DEF KDInv, GenCurrent
<1> QED BY <1>2, <1>3, <1>4

\* Installing files, all of them or some, makes keys on the first etcd host
\* only where it had none.
LEMMA InstallMakes ==
  ASSUME KDInv, TypeOK', step = "generate", UNCHANGED first,
         NEW m, NEW n, NEW c, m.nKey \subseteq genNode, Install(m, n, c)
  PROVE  KD!Make
<1>1. first \in Hosts /\ node \in [Hosts -> [Hosts -> Pairs]] BY DEF KDInv, TypeOK
<1>2. \A d \in Hosts, h \in Hosts : node'[d][h].key \in Serial \cup {None} BY KeyTypes
<1>3. \A e \in Hosts \ {first} : node'[e] = node[e] BY <1>1 DEF Install
<1>4. ASSUME NEW h \in Hosts, node[first][h].key # None
      PROVE  node'[first][h].key = node[first][h].key
  <2>1. h \notin m.nKey BY <1>4 DEF KDInv, GenCurrent
  <2>2. node'[first][h].key = IF h \in m.nKey THEN n ELSE node[first][h].key
    BY <1>1 DEF Install, Moved
  <2> QED BY <2>1, <2>2
<1> QED BY <1>1, <1>2, <1>3, <1>4 DEF KD!Make, KD!At

\* Unpacking, cut or not, gives a host keys of the first etcd host.
LEMMA SyncTakes ==
  ASSUME KDInv, TypeOK', NEW d \in Hosts, SyncHost(d) \/ CutUnpack(d) PROVE KD!Take(d)
<1>1. first \in Hosts /\ first' = first BY SyncReceives DEF KDInv, TypeOK
<1>2. node' \in [Hosts -> [Hosts -> Pairs]] BY DEF TypeOK
<1>3. \A x \in Hosts, h \in Hosts : node'[x][h].key \in Serial \cup {None} BY KeyTypes
<1>4. PICK m : Receive(d, m) BY SyncReceives
<1>5. /\ \A e \in Hosts \ {d} : node'[e] = node[e]
      /\ \A h \in Hosts :
           node'[d][h] = Unpack(node[first][h], node[d][h], h \in m.nKey, h \in m.nPem)
  BY <1>4, ReceiveEffect DEF KDInv
<1>6. ASSUME NEW h \in Hosts, node'[d][h].key # node[d][h].key
      PROVE  node'[d][h].key = node[first][h].key /\ node[first][h].key # None
  <2>1. node'[d][h] = Unpack(node[first][h], node[d][h], h \in m.nKey, h \in m.nPem)
    BY <1>5
  <2>2. Unpack(node[first][h], node[d][h], h \in m.nKey, h \in m.nPem).key
           \in {node[d][h].key} \cup {k \in {node[first][h].key} : k # None}
    BY DEF Unpack
  <2> QED BY <1>6, <2>1, <2>2
<1> QED BY <1>1, <1>3, <1>5, <1>6 DEF KD!Take, KD!At

LEMMA ResetLoses ==
  ASSUME KDInv, TypeOK', NEW d \in Hosts, Reset(d) PROVE KD!Lose(d)
<1>1. node \in [Hosts -> [Hosts -> Pairs]] BY DEF KDInv, TypeOK
<1>2. \A x \in Hosts, h \in Hosts : node'[x][h].key \in Serial \cup {None} BY KeyTypes
<1>3. first' = first BY DEF Reset, inventory
<1>4. /\ \A e \in Hosts \ {d} : node'[e] = node[e]
      /\ \A h \in Hosts : node'[d][h].key = None
  BY <1>1 DEF Reset, NoPair
<1> QED BY <1>2, <1>3, <1>4 DEF KD!Lose, KD!At

LEMMA KDStep == KDInv /\ [Next]_vars => [KD!KeysNext]_(KD!kvars)
<1> SUFFICES ASSUME KDInv, [Next]_vars PROVE [KD!KeysNext]_(KD!kvars) OBVIOUS
<1>1. TypeOK' BY NextType DEF KDInv
<1>2. CASE RunScript
  <2>1. PICK n \in Serial : Install(AllMoved(etcd \cap genNode, nodes \cap genNode), n, SignerOf(n))
    BY <1>2 DEF RunScript
  <2> QED BY <1>1, <1>2, <2>1, InstallMakes
          DEF RunScript, AllMoved, inventory, KD!KeysNext
<1>3. CASE KillScript
  <2>1. PICK n \in Serial, m \in Moves :
          Interrupted(m, etcd \cap genNode, nodes \cap genNode) /\ Install(m, n, SignerOf(n))
    BY <1>3 DEF KillScript
  <2> QED BY <1>1, <1>3, <2>1, InstallMakes
          DEF KillScript, Interrupted, inventory, KD!KeysNext
<1>4. ASSUME NEW d \in Hosts, SyncHost(d) \/ CutUnpack(d) PROVE KD!KeysNext
  BY <1>1, <1>4, SyncTakes DEF KD!KeysNext
<1>5. ASSUME NEW d \in Hosts, Reset(d) PROVE KD!KeysNext
  BY <1>1, <1>5, ResetLoses DEF KD!KeysNext
<1>6. ASSUME NEW d \in Hosts, MoveFirst(d) PROVE KD!KeysNext
  BY <1>6 DEF MoveFirst, disks, KD!KeysNext, KD!MoveSource
<1>7. CASE UNCHANGED <<first, node>>
  BY <1>7 DEF KD!kvars
<1> QED BY <1>2, <1>3, <1>4, <1>5, <1>6, <1>7
  DEF Next, Run, Interruption, Operator, StartCluster, StartScale, Fail, CheckCerts, ScriptRefuses,
      SkipScript, EndEtcdPlay, EndRun, NoCAToTrust, AddNode, AddEtcd, vars, inventory, disks

\* The node keys are made, spread and lost as KeyDistribution allows, for any
\* hosts, bounds and edits, and with a script that may be killed.
THEOREM KeysDistributedHolds == Spec => KeysDistributed
<1>1. Init => KDInv
  BY InitType DEF Init, KDInv, GenCurrent
<1>2. Init => KD!KeysInit
  BY DEF Init, KD!KeysInit, NoPair
<1> QED BY <1>1, <1>2, KDInvNext, KDStep, PTL DEF Spec, KeysDistributed, KD!KeysSpec

\* What KeyDistribution promises, here of etcd's node keys: a key that a host and
\* the first etcd host agree on is kept or lost, never replaced under the
\* process that uses it.
THEOREM AgreedKeysStayHolds == Spec => KD!AgreedKeysStay
<1> DEFINE held == [d \in Hosts |-> [h \in Hosts |-> node[d][h].key]]
<1>1. KDInv /\ [KD!KeysNext]_(KD!kvars) =>
        [\A d \in Hosts, h \in Hosts :
           held[d][h] # None /\ held[d][h] = held[first][h]
           => held'[d][h] \in {held[d][h], None}]_(KD!kvars)
  <2> SUFFICES ASSUME KDInv, KD!KeysNext \/ UNCHANGED KD!kvars,
                      NEW d \in Hosts, NEW h \in Hosts,
                      held[d][h] # None, held[d][h] = held[first][h]
               PROVE  held'[d][h] \in {held[d][h], None}
    OBVIOUS
  <2> HIDE DEF held
  <2>0. first \in Hosts BY DEF KDInv, TypeOK
  <2>1. CASE KD!Make BY <2>0, <2>1 DEF KD!Make, KD!At, held
  <2>2. ASSUME NEW e \in Hosts, KD!Take(e) PROVE held'[d][h] \in {held[d][h], None}
    BY <2>2 DEF KD!Take, KD!At, held
  <2>3. ASSUME NEW e \in Hosts, KD!Lose(e) PROVE held'[d][h] \in {held[d][h], None}
    BY <2>3 DEF KD!Lose, KD!At, held
  <2>4. CASE UNCHANGED held BY <2>4
  <2> QED BY <2>1, <2>2, <2>3, <2>4 DEF KD!KeysNext, KD!kvars, KD!MoveSource, held
<1>2. Init => KDInv BY InitType DEF Init, KDInv, GenCurrent
<1> QED BY <1>1, <1>2, KDInvNext, KDStep, PTL DEF Spec, KD!AgreedKeysStay

=============================================================================

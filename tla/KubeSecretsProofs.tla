-------------------------- MODULE KubeSecretsProofs --------------------------
(***************************************************************************)
(* Proofs about KubeSecrets, for any hosts, bounds and operator actions.   *)
(***************************************************************************)
EXTENDS KubeSecrets, TLAPS

-----------------------------------------------------------------------------
(* Names and types. *)

LEMMA NameFacts ==
  /\ \A h \in Hosts : NodeName(h) \in Names
  /\ {CAKey, CA, API, SA, Ctl} \subseteq Names
  /\ \A h \in Hosts : NodeName(h) \notin {CAKey, CA, API, SA, Ctl} \cup AdminOf(Hosts)
  /\ \A hs \in SUBSET Hosts, h \in Hosts : NodeName(h) \in NodeOf(hs) <=> h \in hs
BY DEF Names, NodeName, NodeOf, AdminOf, CAKey, CA, API, SA, Ctl, Common

LEMMA NoFileType == NoFile \in Files
BY DEF NoFile, Files, None

LEMMA SignerType ==
  ASSUME TypeOK, NEW n \in Serial PROVE Signer(n) \in Serial \cup {None}
<1>1. first \in Hosts BY DEF TypeOK
<1>2. CAKey \in Names BY NameFacts
<1>3. disk[first][CAKey] \in Files BY <1>1, <1>2 DEF TypeOK
<1> QED BY <1>3 DEF Signer, Files

LEMMA ServiceKeyType ==
  ASSUME TypeOK, NEW n \in Serial PROVE ServiceKey(n) \in Serial \cup {None}
<1>1. first \in Hosts BY DEF TypeOK
<1>2. SA \in Names /\ API \in Names BY NameFacts
<1>3. disk[first][SA] \in Files /\ disk[first][API] \in Files BY <1>1, <1>2 DEF TypeOK
<1> QED BY <1>3 DEF ServiceKey, Files

\* What the script leaves on the first master are files.
LEMMA MadeType ==
  ASSUME TypeOK, NEW n \in Serial PROVE Made(n) \in [Names -> Files]
<1>1. first \in Hosts /\ disk[first] \in [Names -> Files] BY DEF TypeOK
<1>2. [key |-> n, ca |-> Signer(n)] \in Files BY SignerType DEF Files
<1>3. [key |-> n, ca |-> None] \in Files BY DEF Files
<1>4. [key |-> ServiceKey(n), ca |-> None] \in Files BY ServiceKeyType DEF Files
<1> QED BY <1>1, <1>2, <1>3, <1>4 DEF Made

\* What an unpack that is cut leaves on the host are files.
LEMMA CutFacts ==
  ASSUME TypeOK, NEW h \in Hosts, CutSync(h)
  PROVE  /\ disk' \in [Hosts -> [Names -> Files]]
         /\ h # first /\ h \in Cluster
         /\ \A d \in Hosts \ {h} : disk'[d] = disk[d]
         /\ \A f \in Names :
              \/ disk'[h][f] = disk[h][f]
              \/ f \in Wanted(h) /\ Has(first, f) /\ disk'[h][f] = disk[first][f]
              \/ f \in Wanted(h) /\ disk'[h][f].key = disk[h][f].key
<1>0. first \in Hosts /\ disk \in [Hosts -> [Names -> Files]] /\ h # first /\ h \in Cluster
  BY DEF CutSync, TypeOK
<1>1. PICK whole \in SUBSET Archive(h), half \in SUBSET Archive(h) :
        disk' = [disk EXCEPT ![h] = [f \in Names |->
                   IF f \in whole THEN disk[first][f]
                   ELSE IF f \in half THEN Half(disk[first][f], @[f])
                   ELSE @[f]]]
  <2>1. PICK p \in 1 .. 7 : \E last \in SUBSET {f \in Archive(h) : Position(f) = p} :
          LET whole == {f \in Archive(h) : Position(f) < p} \cup last
          IN  /\ whole # Archive(h)
              /\ \E half \in {{}} \cup {{f} : f \in {g \in Archive(h) \ whole : HalfAt(p, g)}} :
                   disk' = [disk EXCEPT ![h] = [f \in Names |->
                              IF f \in whole THEN disk[first][f]
                              ELSE IF f \in half THEN Half(disk[first][f], @[f])
                              ELSE @[f]]]
    BY DEF CutSync
  <2>2. PICK last \in SUBSET {f \in Archive(h) : Position(f) = p} :
          \E half \in {{}} \cup {{f} : f \in {g \in Archive(h) \ ({x \in Archive(h) : Position(x) < p} \cup last) : HalfAt(p, g)}} :
                   disk' = [disk EXCEPT ![h] = [f \in Names |->
                              IF f \in {x \in Archive(h) : Position(x) < p} \cup last THEN disk[first][f]
                              ELSE IF f \in half THEN Half(disk[first][f], @[f])
                              ELSE @[f]]]
    BY <2>1
  <2>3. {x \in Archive(h) : Position(x) < p} \cup last \in SUBSET Archive(h) OBVIOUS
  <2> QED BY <2>2, <2>3
<1>2. /\ \A d \in Hosts \ {h} : disk'[d] = disk[d]
      /\ disk'[h] = [f \in Names |->
                       IF f \in whole THEN disk[first][f]
                       ELSE IF f \in half THEN Half(disk[first][f], disk[h][f])
                       ELSE disk[h][f]]
  BY <1>0, <1>1
<1>3. \A f \in Names : disk[first][f] \in Files /\ disk[h][f] \in Files BY <1>0
<1>4. \A new \in Files, old \in Files : Half(new, old) \in Files /\ Half(new, old).key = old.key
  BY DEF Half, Files
<1>5. disk'[h] \in [Names -> Files] BY <1>2, <1>3, <1>4
<1>6. disk' \in [Hosts -> [Names -> Files]] BY <1>0, <1>1, <1>5
<1>7. \A f \in Archive(h) : f \in Wanted(h) /\ Has(first, f) BY DEF Archive
<1>8. ASSUME NEW f \in Names
      PROVE  \/ disk'[h][f] = disk[h][f]
             \/ f \in Wanted(h) /\ Has(first, f) /\ disk'[h][f] = disk[first][f]
             \/ f \in Wanted(h) /\ disk'[h][f].key = disk[h][f].key
  BY <1>2, <1>3, <1>4, <1>7
<1> QED BY <1>0, <1>2, <1>6, <1>8

LEMMA OldType ==
  ASSUME NEW h \in Hosts PROVE OldDisk(h) \in [Names -> Files]
<1>1. 1 \in Serial BY BoundsAssumption DEF Serial
<1>2. [key |-> 1, ca |-> 1] \in Files /\ [key |-> 1, ca |-> None] \in Files BY <1>1 DEF Files
<1> QED BY <1>2, NoFileType DEF OldDisk

LEMMA InitType == Init => TypeOK
<1> SUFFICES ASSUME Init PROVE TypeOK OBVIOUS
<1>1. Empty \in [Names -> Files] BY NoFileType DEF Empty
<1>2. disk \in [Hosts -> [Names -> Files]] /\ signed \in Serial \cup {None}
  <2>1. PICK old \in OldReleases :
          /\ disk = [h \in Hosts |-> IF old /\ h \in Cluster THEN OldDisk(h) ELSE Empty]
          /\ signed = IF old THEN 1 ELSE None
    BY DEF Init
  <2>2. 1 \in Serial BY BoundsAssumption DEF Serial
  <2> QED BY <1>1, <2>1, <2>2, OldType
<1>3. failures \in 0 .. MaxFailures /\ edits \in 0 .. MaxEdits
  BY BoundsAssumption DEF Init
<1> QED BY <1>1, <1>2, <1>3 DEF Init, TypeOK, Cluster

LEMMA EnterType ==
  ASSUME NEW s, NEW h \in masters' \cup nodes', Enter(s, h)
  PROVE  /\ lead' \in Cluster' /\ listing' \in [Names -> Files]
         /\ gen' \in BOOLEAN /\ genNode' \in SUBSET Cluster'
         /\ sync' \in SUBSET (Cluster' \ {first'}) /\ secret' \in BOOLEAN
         /\ step' = s
BY NoFileType DEF Enter, Empty, Cluster

LEMMA NextType == TypeOK /\ [Next]_vars => TypeOK'
<1> SUFFICES ASSUME TypeOK, [Next]_vars PROVE TypeOK' OBVIOUS
<1>0. MaxFailures \in Nat /\ MaxEdits \in Nat BY BoundsAssumption
<1>1. CASE StartRun
  <2>1. PICK h \in Cluster : Enter("check", h) BY <1>1 DEF StartRun, TypeOK, Cluster
  <2>2. h \in masters' \cup nodes' BY <1>1, <2>1 DEF StartRun, inventory, Cluster
  <2> QED BY <1>1, <2>1, <2>2, EnterType DEF StartRun, inventory, TypeOK, Cluster
<1>2. CASE Fail
  <2>1. first \in masters' \cup nodes' BY <1>2 DEF Fail, inventory, TypeOK
  <2>2. failures' \in 0 .. MaxFailures BY <1>0, <1>2 DEF Fail, TypeOK
  <2> QED BY <1>2, <2>1, <2>2, EnterType DEF Fail, inventory, TypeOK, Cluster
<1>17. ASSUME NEW h \in Hosts, CutSync(h) PROVE TypeOK'
  <2>0. UNCHANGED inventory /\ Enter("idle", first) /\ UNCHANGED <<signed, edits>>
        /\ torn' = torn \cup {h} /\ failures' = failures + 1 /\ failures < MaxFailures
    BY <1>17 DEF CutSync
  <2>1. first \in masters' \cup nodes' BY <2>0 DEF inventory, TypeOK
  <2>2. failures' \in 0 .. MaxFailures BY <1>0, <2>0 DEF TypeOK
  <2>3. torn' \in SUBSET Cluster' BY <2>0, <1>17, CutFacts DEF inventory, TypeOK, Cluster
  <2> QED BY <1>17, <2>0, <2>1, <2>2, <2>3, CutFacts, EnterType DEF inventory, TypeOK
<1>3. CASE CheckCerts
  <2>1. disk[first] \in [Names -> Files] BY DEF TypeOK
  <2> QED BY <1>3, <2>1 DEF CheckCerts, MissingNodes, inventory, TypeOK, Cluster
<1>4. CASE RunScript
  <2>1. PICK n \in Serial : disk' = [disk EXCEPT ![first] = Made(n)] BY <1>4 DEF RunScript
  <2>2. disk' \in [Hosts -> [Names -> Files]] BY <2>1, MadeType DEF TypeOK
  <2> QED BY <1>4, <2>2 DEF RunScript, inventory, facts, TypeOK, Cluster
<1>5. CASE SkipScript BY <1>5 DEF SkipScript, inventory, facts, TypeOK, Cluster
<1>6. CASE CompareCerts BY <1>6 DEF CompareCerts, inventory, TypeOK, Cluster
<1>7. ASSUME NEW h \in Hosts, Sync(h) PROVE TypeOK'
  <2>1. first \in Hosts BY DEF TypeOK
  <2>2. disk' \in [Hosts -> [Names -> Files]] BY <1>7, <2>1 DEF Sync, TypeOK
  <2> QED BY <1>7, <2>2 DEF Sync, inventory, TypeOK, Cluster
<1>8. CASE EndNodePlay BY <1>8 DEF EndNodePlay, inventory, TypeOK, Cluster
<1>9. CASE EndMasterPlay
  <2>1. signed' \in Serial \cup {None}
    BY <1>9, NameFacts DEF EndMasterPlay, TypeOK, Files
  <2> QED BY <1>9, <2>1 DEF EndMasterPlay, inventory, facts, TypeOK, Cluster
<1>10. CASE RotateTokens
  <2>1. signed' \in Serial \cup {None}
    BY <1>10, NameFacts DEF RotateTokens, TypeOK, Files
  <2>2. first \in masters' \cup nodes' BY <1>10 DEF RotateTokens, inventory, TypeOK
  <2> QED BY <1>10, <2>1, <2>2, EnterType DEF RotateTokens, inventory, TypeOK, Cluster
<1>11. ASSUME NEW k, Edit(k) PROVE edits' \in 0 .. MaxEdits
  BY <1>0, <1>11 DEF Edit, TypeOK
<1>12. ASSUME NEW h \in Hosts, AddNode(h) PROVE TypeOK'
  <2>1. first \in masters' \cup nodes' BY <1>12 DEF AddNode, TypeOK
  <2> QED BY <1>11, <1>12, <2>1, EnterType DEF AddNode, Edit, TypeOK, Cluster
<1>13. ASSUME NEW h \in Hosts, AddMaster(h) PROVE TypeOK'
  <2>1. first \in masters' \cup nodes' BY <1>13 DEF AddMaster, TypeOK
  <2> QED BY <1>11, <1>13, <2>1, EnterType DEF AddMaster, Edit, TypeOK, Cluster
<1>14. ASSUME NEW h \in Hosts, MoveFirst(h) PROVE TypeOK'
  <2>1. h \in masters' \cup nodes' BY <1>14 DEF MoveFirst
  <2> QED BY <1>11, <1>14, <2>1, EnterType DEF MoveFirst, Edit, TypeOK, Cluster
<1>15. ASSUME NEW h \in Hosts, ResetHost(h) PROVE TypeOK'
  <2>1. first \in masters' \cup nodes' BY <1>15 DEF ResetHost, inventory, TypeOK
  <2>2. disk' \in [Hosts -> [Names -> Files]]
    BY <1>15, NoFileType DEF ResetHost, Empty, TypeOK
  <2> QED BY <1>11, <1>15, <2>1, <2>2, EnterType DEF ResetHost, Edit, inventory, TypeOK, Cluster
<1>16. CASE UNCHANGED vars
  BY <1>16 DEF vars, inventory, facts, TypeOK, Cluster
<1> QED BY <1>1, <1>2, <1>3, <1>4, <1>5, <1>6, <1>7, <1>8, <1>9, <1>10, <1>12, <1>13,
           <1>14, <1>15, <1>16, <1>17 DEF Next, Run, Interruption, Operator

\* Every variable keeps its type: in particular the first master is never
\* asked to fetch files from itself.
THEOREM TypeCorrect == Spec => []TypeOK
BY InitType, NextType, PTL DEF Spec

-----------------------------------------------------------------------------
(* Service account keys. *)

\* The script's choice of the key: the one in use stays.
LEMMA ServiceKeyKept ==
  ASSUME TypeOK, NEW n \in Serial, disk' = [disk EXCEPT ![first] = Made(n)],
         UNCHANGED first, ServiceKeyAt(first) # None
  PROVE  ServiceKeyAt(first)' = ServiceKeyAt(first)
<1>1. first \in Hosts /\ SA \in Names /\ SA \notin {CAKey, CA, API}
  BY NameFacts DEF TypeOK, CAKey, CA, API, SA, Common
<1>2. disk'[first] = Made(n) BY <1>1 DEF TypeOK
<1>3. Made(n)[SA] = IF Has(first, SA) THEN disk[first][SA]
                    ELSE [key |-> ServiceKey(n), ca |-> None]
  BY <1>1 DEF Made, Kept
<1>4. ~Has(first, SA) => ServiceKey(n) = ServiceKeyAt(first) BY DEF ServiceKey, ServiceKeyAt, Has
<1> QED BY <1>2, <1>3, <1>4 DEF ServiceKeyAt, Has

LEMMA TokensStep ==
  ASSUME TypeOK, [Next]_vars, signed # None, signed = ServiceKeyAt(first), UNCHANGED first
  PROVE  ServiceKeyAt(first)' \in {signed, None}
<1>1. CASE UNCHANGED disk BY <1>1 DEF ServiceKeyAt, Has
<1>2. CASE RunScript BY <1>2, ServiceKeyKept DEF RunScript
<1>3. ASSUME NEW h \in Hosts, Sync(h) PROVE disk'[first] = disk[first]
  BY <1>3 DEF Sync, TypeOK
<1>6. ASSUME NEW h \in Hosts, CutSync(h) PROVE disk'[first] = disk[first]
  BY <1>6, CutFacts DEF TypeOK
<1>4. ASSUME NEW h \in Hosts, ResetHost(h)
      PROVE  disk'[first] = disk[first] \/ ServiceKeyAt(first)' = None
  <2>1. first \in Hosts BY DEF TypeOK
  <2>2. CASE h # first BY <1>4, <2>1, <2>2 DEF ResetHost, TypeOK
  <2>3. CASE h = first
    <3>1. disk'[first] = Empty BY <1>4, <2>1, <2>3 DEF ResetHost, TypeOK
    <3>2. Empty[SA] = NoFile /\ Empty[API] = NoFile BY NameFacts DEF Empty
    <3> QED BY <3>1, <3>2 DEF ServiceKeyAt, Has, NoFile
  <2> QED BY <2>2, <2>3
<1>5. disk'[first] = disk[first] => ServiceKeyAt(first)' = ServiceKeyAt(first)
  BY DEF ServiceKeyAt, Has
<1> QED BY <1>1, <1>2, <1>3, <1>4, <1>5, <1>6
  DEF Next, Run, Interruption, Operator, StartRun, Fail, CheckCerts, SkipScript, CompareCerts,
      EndNodePlay, EndMasterPlay, RotateTokens, AddNode, AddMaster, MoveFirst, vars

\* No run replaces the service account key that signed the tokens, also in a
\* cluster of a release that signed them with the apiserver's key.
THEOREM TokensSurviveHolds == Spec => TokensSurvive
<1>1. TypeOK /\ [Next]_vars =>
        [signed # None /\ signed = ServiceKeyAt(first) /\ UNCHANGED first
         => ServiceKeyAt(first)' \in {signed, None}]_vars
  BY TokensStep
<1> QED BY <1>1, TypeCorrect, PTL DEF Spec, TokensSurvive

-----------------------------------------------------------------------------
(* The role implements KeyDistribution. *)

GenCurrent == step = "generate" => \A h \in genNode : ~Has(first, NodeName(h))
KDInv == TypeOK /\ GenCurrent

LEMMA KDInvNext == KDInv /\ [Next]_vars => KDInv'
<1> SUFFICES ASSUME KDInv, [Next]_vars PROVE KDInv' OBVIOUS
<1>1. TypeOK' BY NextType DEF KDInv
<1>2. CASE CheckCerts
  BY <1>1, <1>2 DEF KDInv, GenCurrent, CheckCerts, MissingNodes, Has, inventory
<1>3. CASE UNCHANGED vars
  BY <1>1, <1>3 DEF KDInv, GenCurrent, Has, vars, inventory, facts
<1>4. CASE ~CheckCerts /\ ~UNCHANGED vars
  <2>1. step' # "generate"
    BY <1>4 DEF Next, Run, Interruption, Operator, StartRun, Fail, RunScript, SkipScript,
       CompareCerts, Sync, CutSync, EndNodePlay, EndMasterPlay, RotateTokens, AddNode, AddMaster, MoveFirst,
       ResetHost, Enter
  <2> QED BY <1>1, <2>1 DEF KDInv, GenCurrent
<1> QED BY <1>2, <1>3, <1>4

LEMMA KeyTypes ==
  ASSUME TypeOK'
  PROVE  \A d \in Hosts, h \in Hosts : disk'[d][NodeName(h)].key \in Serial \cup {None}
BY NameFacts DEF TypeOK, Files

LEMMA ScriptMakes == ASSUME KDInv, TypeOK', RunScript PROVE KD!Make
<1>1. PICK n \in Serial : disk' = [disk EXCEPT ![first] = Made(n)] BY DEF RunScript
<1>2. first \in Hosts /\ disk \in [Hosts -> [Names -> Files]] /\ genNode \in SUBSET Hosts
  BY DEF KDInv, TypeOK, Cluster
<1>3. first' = first /\ \A e \in Hosts \ {first} : disk'[e] = disk[e]
  BY <1>1, <1>2 DEF RunScript, inventory
<1>4. ASSUME NEW h \in Hosts, Has(first, NodeName(h))
      PROVE  disk'[first][NodeName(h)] = disk[first][NodeName(h)]
  <2>1. h \notin genNode BY <1>4 DEF RunScript, KDInv, GenCurrent
  <2>2. /\ NodeName(h) \in Names
        /\ NodeName(h) \notin {CAKey, CA, API, SA, Ctl} \cup AdminOf(masters) \cup NodeOf(genNode)
    BY <1>2, <2>1, NameFacts DEF AdminOf, NodeName, KDInv, TypeOK
  <2>3. disk'[first] = Made(n) BY <1>1, <1>2
  <2> QED BY <2>2, <2>3 DEF Made, Kept
<1> QED BY <1>2, <1>3, <1>4, KeyTypes DEF KD!Make, KD!At, Has

LEMMA SyncTakes == ASSUME KDInv, TypeOK', NEW d \in Hosts, Sync(d) PROVE KD!Take(d)
<1>1. first \in Hosts /\ disk \in [Hosts -> [Names -> Files]] BY DEF KDInv, TypeOK
<1>2. first' = first /\ \A e \in Hosts \ {d} : disk'[e] = disk[e]
  BY <1>1 DEF Sync, inventory
<1>3. ASSUME NEW f \in Names, disk'[d][f] # disk[d][f]
      PROVE  disk'[d][f] = disk[first][f] /\ Has(first, f)
  BY <1>1, <1>3 DEF Sync, Archive
<1> QED BY <1>1, <1>2, <1>3, KeyTypes, NameFacts DEF KD!Take, KD!At, Has

LEMMA CutTakes == ASSUME KDInv, TypeOK', NEW d \in Hosts, CutSync(d) PROVE KD!Take(d)
<1>1. TypeOK /\ first' = first BY DEF KDInv, CutSync, inventory
<1>2. \A e \in Hosts \ {d} : disk'[e] = disk[e] BY <1>1, CutFacts
<1>3. ASSUME NEW f \in Names, disk'[d][f].key # disk[d][f].key
      PROVE  disk'[d][f] = disk[first][f] /\ Has(first, f)
  BY <1>1, <1>3, CutFacts
<1>4. ASSUME NEW h \in Hosts, disk'[d][NodeName(h)].key # disk[d][NodeName(h)].key
      PROVE  /\ disk'[d][NodeName(h)].key = disk[first][NodeName(h)].key
             /\ disk[first][NodeName(h)].key # None
  BY <1>3, <1>4, NameFacts DEF Has
<1>5. first \in Hosts BY <1>1 DEF TypeOK
<1>6. KD!At(d)
  BY <1>1, <1>2, KeyTypes DEF KD!At
<1> QED BY <1>4, <1>5, <1>6 DEF KD!Take

LEMMA ResetLoses == ASSUME KDInv, TypeOK', NEW d \in Hosts, ResetHost(d) PROVE KD!Lose(d)
<1>1. disk \in [Hosts -> [Names -> Files]] BY DEF KDInv, TypeOK
<1>2. first' = first /\ \A e \in Hosts \ {d} : disk'[e] = disk[e]
  BY <1>1 DEF ResetHost, inventory
<1>3. disk'[d] = Empty BY <1>1 DEF ResetHost
<1> QED BY <1>2, <1>3, KeyTypes, NameFacts DEF KD!Lose, KD!At, Empty, NoFile

LEMMA KDStep == KDInv /\ [Next]_vars => [KD!KeysNext]_(KD!kvars)
<1> SUFFICES ASSUME KDInv, [Next]_vars PROVE [KD!KeysNext]_(KD!kvars) OBVIOUS
<1>1. TypeOK' BY NextType DEF KDInv
<1>2. CASE RunScript BY <1>1, <1>2, ScriptMakes DEF KD!KeysNext
<1>3. ASSUME NEW d \in Hosts, Sync(d) PROVE KD!KeysNext
  BY <1>1, <1>3, SyncTakes DEF KD!KeysNext
<1>7. ASSUME NEW d \in Hosts, CutSync(d) PROVE KD!KeysNext
  BY <1>1, <1>7, CutTakes DEF KD!KeysNext
<1>4. ASSUME NEW d \in Hosts, ResetHost(d) PROVE KD!KeysNext
  BY <1>1, <1>4, ResetLoses DEF KD!KeysNext
<1>5. ASSUME NEW d \in Hosts, MoveFirst(d) PROVE KD!KeysNext
  BY <1>5 DEF MoveFirst, KD!KeysNext, KD!MoveSource
<1>6. CASE UNCHANGED <<first, disk>>
  BY <1>6 DEF KD!kvars
<1> QED BY <1>2, <1>3, <1>4, <1>5, <1>6, <1>7
  DEF Next, Run, Interruption, Operator, StartRun, Fail, CheckCerts, SkipScript, CompareCerts,
      EndNodePlay, EndMasterPlay, RotateTokens, AddNode, AddMaster, vars, inventory

\* In an old release's cluster every copy of a key is the first master's.
LEMMA KDInit == Init => KD!KeysInit
<1> SUFFICES ASSUME Init PROVE KD!KeysInit OBVIOUS
<1>1. TypeOK BY InitType
<1>2. PICK old \in OldReleases :
        disk = [h \in Hosts |-> IF old /\ h \in Cluster THEN OldDisk(h) ELSE Empty]
  BY DEF Init
<1>3. first \in masters /\ first \in Cluster /\ first \in Hosts BY DEF Init, Cluster
<1>4. \A d \in Hosts, h \in Hosts : disk[d][NodeName(h)].key \in Serial \cup {None}
  BY <1>1, NameFacts DEF TypeOK, Files
<1>5. ASSUME NEW d \in Hosts, NEW h \in Hosts, disk[d][NodeName(h)].key # None
      PROVE  disk[d][NodeName(h)].key = disk[first][NodeName(h)].key
  <2>1. old /\ d \in Cluster /\ disk[d] = OldDisk(d) /\ disk[first] = OldDisk(first)
    <3>1. Empty[NodeName(h)].key = None BY NameFacts DEF Empty, NoFile
    <3> QED BY <1>2, <1>3, <1>5, <3>1
  <2>2. NodeName(h) \in Names BY NameFacts
  <2>3. NodeName(h) \in OldFiles(d) BY <1>5, <2>1, <2>2 DEF OldDisk, NoFile
  <2>4. h \in Cluster
    <3>1. NodeName(h) \notin AdminOf(masters) \cup AdminOf({d}) \cup {CAKey, CA, API, SA, Ctl}
      BY NameFacts DEF AdminOf, NodeName, CAKey, CA, API, SA, Ctl, Common
    <3>2. NodeName(h) \in NodeOf(Cluster) \/ (d \in nodes /\ NodeName(h) = NodeName(d))
      BY <2>3, <3>1 DEF OldFiles, Wanted
    <3> QED BY <3>2 DEF NodeOf, NodeName, Cluster
  <2>5. NodeName(h) \in Wanted(first) /\ NodeName(h) # SA
    BY <1>3, <2>4 DEF Wanted, NodeOf, NodeName, SA, Common
  <2>6. NodeName(h) \in OldFiles(first) /\ NodeName(h) # CAKey
    BY <2>5 DEF OldFiles, NodeName, CAKey, Common
  <2> QED BY <2>1, <2>2, <2>3, <2>6 DEF OldDisk
<1> QED BY <1>3, <1>4, <1>5 DEF KD!KeysInit

\* The keys of the nodes are made, spread and lost as KeyDistribution allows,
\* for any hosts, bounds and edits, and from an old release's cluster.
THEOREM KeysDistributedHolds == Spec => KeysDistributed
<1>1. Init => KDInv BY InitType DEF Init, KDInv, GenCurrent
<1> QED BY <1>1, KDInit, KDInvNext, KDStep, PTL DEF Spec, KeysDistributed, KD!KeysSpec

\* What KeyDistribution promises, here of the keys of the nodes: a key that a host and
\* the first master agree on is kept or lost, never replaced under the
\* process that uses it.
THEOREM AgreedKeysStayHolds == Spec => KD!AgreedKeysStay
<1> DEFINE held == [d \in Hosts |-> [h \in Hosts |-> disk[d][NodeName(h)].key]]
<1>1. KDInv /\ [KD!KeysNext]_(KD!kvars) =>
        [\A d \in Hosts, h \in Hosts :
           held[d][h] # None /\ held[d][h] = held[first][h]
           => held'[d][h] \in {held[d][h], None}]_(KD!kvars)
  <2> SUFFICES ASSUME KDInv, KD!KeysNext \/ UNCHANGED KD!kvars,
                      NEW d \in Hosts, NEW h \in Hosts,
                      held[d][h] # None, held[d][h] = held[first][h]
               PROVE  held'[d][h] \in {held[d][h], None}
    OBVIOUS
  <2> HIDE DEF held
  <2>0. first \in Hosts BY DEF KDInv, TypeOK
  <2>1. CASE KD!Make BY <2>0, <2>1 DEF KD!Make, KD!At, held
  <2>2. ASSUME NEW e \in Hosts, KD!Take(e) PROVE held'[d][h] \in {held[d][h], None}
    BY <2>2 DEF KD!Take, KD!At, held
  <2>3. ASSUME NEW e \in Hosts, KD!Lose(e) PROVE held'[d][h] \in {held[d][h], None}
    BY <2>3 DEF KD!Lose, KD!At, held
  <2>4. CASE UNCHANGED held BY <2>4
  <2> QED BY <2>1, <2>2, <2>3, <2>4 DEF KD!KeysNext, KD!kvars, KD!MoveSource, held
<1>2. Init => KDInv BY InitType DEF Init, KDInv, GenCurrent
<1> QED BY <1>1, <1>2, KDInvNext, KDStep, PTL DEF Spec, KD!AgreedKeysStay

-----------------------------------------------------------------------------
(***************************************************************************)
(* Convergence, with any host as the first master that has the CA's key or *)
(* none of its files.                                                      *)
(***************************************************************************)
NoUsurper == "usurp" \notin Edits

Keyless   == {CAKey, SA}
Changing  == {Ctl} \cup AdminOf(Hosts)

\* The pairs of a host whose unpack was not cut come from the CA beside them,
\* and the CA's key, where it is, is that of this CA; the first master has the CA with its key or
\* not at all.  The administrators' pairs are left out: a former first master
\* keeps those of others that its successor's CA never signed.
Signed == {CA, API, Ctl} \cup NodeOf(Hosts)
Whole(d) ==
  /\ Has(d, CAKey) => disk[d][CA].key = disk[d][CAKey].key
  /\ \A f \in Signed : Has(d, f) => disk[d][f].ca = disk[d][CA].key /\ Has(d, CA)
AllWhole   == first \notin torn /\ \A d \in Hosts \ torn : Whole(d)
FirstKeyed == disk[first][CA].key = disk[first][CAKey].key

\* Hosts hold such files only while they want them, so that whatever is
\* copied to them replaces all of them.
Holders == \A d \in Hosts : \A f \in Signed \cup {CAKey} : Has(d, f) => f \in Wanted(d)

\* Between check-certs.yml and the script, and the script and the
\* comparison, the facts say what they should of the first master's files.
FactsCurrent ==
  /\ step = "generate" =>
       /\ listing = disk[first] /\ genNode = MissingNodes
       /\ gen = (\E f \in Required : ~Has(first, f))
  /\ step = "compare" =>
       \A f \in Names \ Changing : listing[f].key # None => disk[first][f] = listing[f]

\* Past the script the first master lacks nothing.
PastScript == step \in {"compare", "sync", "master", "rotate", "done"}
FirstComplete == PastScript => \A f \in Required \cup {CAKey} : Has(first, f)

\* A host that needs no files, or has had them, is served.
Served(h) ==
  \A f \in Wanted(h) \ Changing : Has(h, f) /\ disk[h][f] = disk[first][f]
AllServed ==
  step \in {"sync", "master", "rotate", "done"} =>
    \A h \in Cluster \ ({first} \cup sync) : Served(h)
NoneLeft == step \in {"master", "rotate", "done"} => sync = {}

DiskInv == FirstKeyed /\ AllWhole /\ Holders
RunInv  == FactsCurrent /\ FirstComplete /\ AllServed /\ NoneLeft
IInv    == TypeOK /\ DiskInv /\ RunInv

LEMMA KindFacts ==
  /\ CAKey # CA /\ CAKey # API /\ CAKey # SA /\ CAKey # Ctl /\ CA # API /\ CA # SA
  /\ CA # Ctl /\ API # SA /\ API # Ctl /\ SA # Ctl
  /\ {CAKey, CA, API, SA} \cap Changing = {}
  /\ {CAKey, CA, API, SA, Ctl} \cap (AdminOf(Hosts) \cup NodeOf(Hosts)) = {}
  /\ NodeOf(Hosts) \cap Changing = {}
  /\ \A hs \in SUBSET Hosts : NodeOf(hs) \subseteq NodeOf(Hosts) /\ AdminOf(hs) \subseteq AdminOf(Hosts)
  /\ \A h \in Hosts : NodeName(h) \in NodeOf(Hosts)
BY DEF Changing, CAKey, CA, API, SA, Ctl, Common, AdminOf, NodeOf, NodeName

LEMMA WantedFacts ==
  ASSUME TypeOK
  PROVE  /\ \A h \in Hosts : Wanted(h) \subseteq Names
         /\ \A h \in Cluster : NodeName(h) \in Wanted(h) /\ CA \in Wanted(h)
         /\ \A h \in masters : {CAKey, CA, API, SA} \subseteq Wanted(h)
         /\ \A h \in Cluster : Wanted(h) \subseteq Required \cup {CAKey}
         /\ \A h \in Hosts : Wanted(h) # {} => h \in Cluster /\ CA \in Wanted(h)
         /\ Cluster \in SUBSET Hosts /\ first \in Hosts /\ first \in Cluster
         /\ Required \subseteq Names
BY DEF TypeOK, Wanted, Required, Names, Cluster, NodeOf, AdminOf, NodeName

LEMMA SignedFacts ==
  /\ Signed \subseteq Names /\ CAKey \notin Signed /\ SA \notin Signed
  /\ Names = Signed \cup Keyless \cup AdminOf(Hosts)
  /\ Signed \cap AdminOf(Hosts) = {}
  /\ \A d \in Hosts : {API, Ctl, NodeName(d)} \subseteq Signed
<1>1. Signed \subseteq Names /\ Names = Signed \cup Keyless \cup AdminOf(Hosts)
  BY DEF Signed, Keyless, Names
<1>2. CAKey \notin Signed /\ SA \notin Signed BY KindFacts DEF Signed
<1>3. Signed \cap AdminOf(Hosts) = {}
  <2>1. {CA, API, Ctl} \cap AdminOf(Hosts) = {} BY KindFacts
  <2>2. NodeOf(Hosts) \cap AdminOf(Hosts) = {} BY KindFacts DEF Changing
  <2> QED BY <2>1, <2>2 DEF Signed
<1>4. \A d \in Hosts : {API, Ctl, NodeName(d)} \subseteq Signed BY KindFacts DEF Signed
<1> QED BY <1>1, <1>2, <1>3, <1>4

\* The script's files, under the CA it keeps or makes.
LEMMA MadeFacts ==
  ASSUME TypeOK, FirstKeyed, Whole(first), NEW n \in Serial
  PROVE  /\ Made(n)[CA].key = Made(n)[CAKey].key
         /\ \A f \in Signed : Made(n)[f].key # None => Made(n)[f].ca = Made(n)[CA].key
         /\ \A f \in Names \ Changing :
              Has(first, f) /\ f \notin NodeOf(genNode) => Made(n)[f] = disk[first][f]
         /\ \A f \in {CAKey, CA, API, SA, Ctl} \cup AdminOf(masters) \cup NodeOf(genNode) :
              Made(n)[f].key # None
         /\ \A f \in Names : Has(first, f) => Made(n)[f].key # None
<1>0. /\ n # None /\ {CAKey, CA, API, SA, Ctl} \subseteq Names
      /\ AdminOf(masters) \subseteq Names /\ NodeOf(genNode) \subseteq Names
  BY NameFacts, KindFacts DEF Serial, None, Names, TypeOK, Cluster
<1>2. Has(first, CAKey) <=> Has(first, CA) BY DEF FirstKeyed, Has
<1>1. \A f \in Signed : Has(first, f) => Has(first, CAKey)
  BY <1>2 DEF Whole
<1>3. CASE Has(first, CAKey)
  <2>1. Signer(n) = disk[first][CA].key BY <1>3 DEF Signer, FirstKeyed
  <2>2. Made(n)[CAKey] = disk[first][CAKey] /\ Made(n)[CA] = disk[first][CA]
    BY <1>0, <1>3 DEF Made, Kept
  <2>3. Made(n)[API] = IF Has(first, API) THEN disk[first][API] ELSE [key |-> n, ca |-> Signer(n)]
    BY <1>0, <1>3, KindFacts DEF Made, Kept
  <2>4. Made(n)[SA] = IF Has(first, SA) THEN disk[first][SA] ELSE [key |-> ServiceKey(n), ca |-> None]
    BY <1>0, KindFacts DEF Made, Kept
  <2>5. \A f \in Names \ {CAKey, CA, API, SA} :
          Made(n)[f] = IF f = Ctl \/ f \in AdminOf(masters) \/ f \in NodeOf(genNode)
                       THEN [key |-> n, ca |-> Signer(n)] ELSE disk[first][f]
    BY DEF Made, Kept
  <2>6. ServiceKey(n) # None BY <1>0 DEF ServiceKey, Has
  <2>7. \A f \in Signed : Made(n)[f].key # None => Made(n)[f].ca = Made(n)[CA].key
    <3> SUFFICES ASSUME NEW f \in Signed, Made(n)[f].key # None
                 PROVE  Made(n)[f].ca = disk[first][CA].key
      BY <2>2
    <3>1. Has(first, f) => disk[first][f].ca = disk[first][CA].key BY DEF Whole
    <3> QED BY <2>1, <2>2, <2>3, <2>5, <3>1, SignedFacts DEF Has
  <2>8. \A f \in Names \ Changing :
          Has(first, f) /\ f \notin NodeOf(genNode) => Made(n)[f] = disk[first][f]
    BY <2>2, <2>3, <2>4, <2>5, KindFacts DEF Changing, AdminOf, TypeOK
  <2>9. \A f \in {CAKey, CA, API, SA, Ctl} \cup AdminOf(masters) \cup NodeOf(genNode) :
          Made(n)[f].key # None
    BY <1>0, <1>2, <1>3, <2>2, <2>3, <2>4, <2>5, <2>6 DEF Has
  <2>10. \A f \in Names : Has(first, f) => Made(n)[f].key # None
    BY <1>0, <2>2, <2>3, <2>4, <2>5, <2>6 DEF Has
  <2> QED BY <2>2, <2>7, <2>8, <2>9, <2>10, <1>2 DEF FirstKeyed
<1>4. CASE ~Has(first, CAKey)
  <2>1. Signer(n) = n BY <1>4 DEF Signer
  <2>2. Made(n)[CAKey] = [key |-> n, ca |-> None]
    BY <1>0, <1>4, KindFacts DEF Made, Kept
  <2>3. Made(n)[SA] = IF Has(first, SA) THEN disk[first][SA] ELSE [key |-> ServiceKey(n), ca |-> None]
    BY <1>0, KindFacts DEF Made, Kept
  <2>4. \A f \in Names \ Keyless :
          Made(n)[f] = IF f \in {CA, API, Ctl} \/ f \in AdminOf(masters) \/ f \in NodeOf(genNode)
                       THEN [key |-> n, ca |-> n] ELSE disk[first][f]
    BY <1>4, <2>1 DEF Made, Kept, Keyless
  <2>5. \A f \in Signed : ~Has(first, f) BY <1>1, <1>4
  <2>6. ServiceKey(n) # None BY <1>0 DEF ServiceKey, Has
  <2>7. CA \in Names \ Keyless /\ API \in Names \ Keyless /\ Ctl \in Names \ Keyless
        /\ AdminOf(masters) \cap Keyless = {} /\ NodeOf(genNode) \cap Keyless = {}
    BY <1>0, KindFacts DEF Keyless, TypeOK, Cluster
  <2>8. Made(n)[CA] = [key |-> n, ca |-> n] BY <2>4, <2>7
  <2>9. \A f \in Signed : Made(n)[f].key # None => Made(n)[f].ca = n
    BY <2>4, <2>5, SignedFacts DEF Has, Keyless
  <2>10. \A f \in {CAKey, CA, API, SA, Ctl} \cup AdminOf(masters) \cup NodeOf(genNode) :
          Made(n)[f].key # None
    <3> SUFFICES ASSUME NEW f \in {CAKey, CA, API, SA, Ctl} \cup AdminOf(masters) \cup NodeOf(genNode)
                 PROVE  Made(n)[f].key # None
      OBVIOUS
    <3>1. CASE f = CAKey BY <1>0, <2>2, <3>1
    <3>2. CASE f = SA BY <1>0, <2>3, <2>6, <3>2 DEF Has
    <3>3. CASE f \notin Keyless
      <4>1. f \in Names \ Keyless BY <1>0, <3>3
      <4> QED BY <1>0, <2>4, <3>3, <4>1 DEF Keyless
    <3> QED BY <3>1, <3>2, <3>3 DEF Keyless
  <2>11. \A f \in Names : Has(first, f) => f = SA \/ f \in AdminOf(Hosts)
    BY <1>4, <2>5, SignedFacts DEF Keyless
  <2>12. AdminOf(Hosts) \cap Keyless = {} BY KindFacts DEF Keyless
  <2>13. \A f \in Names : Has(first, f) => Made(n)[f].key # None
    BY <1>0, <2>3, <2>4, <2>11, <2>12 DEF Has
  <2>14. \A f \in Names \ Changing :
           Has(first, f) /\ f \notin NodeOf(genNode) => Made(n)[f] = disk[first][f]
    BY <2>3, <2>11 DEF Changing
  <2> QED BY <2>2, <2>8, <2>9, <2>10, <2>13, <2>14
<1> QED BY <1>3, <1>4

LEMMA InitInv == Init => IInv
<1> SUFFICES ASSUME Init PROVE IInv OBVIOUS
<1>1. TypeOK BY InitType
<1>2. PICK old \in OldReleases :
        disk = [h \in Hosts |-> IF old /\ h \in Cluster THEN OldDisk(h) ELSE Empty]
  BY DEF Init
<1>3. first \in Hosts /\ first \in masters /\ first \in Cluster BY <1>1 DEF TypeOK, Cluster
<1>4. \A f \in Names : Empty[f] = NoFile /\ NoFile.key = None BY DEF Empty, NoFile
<1>5. ASSUME NEW d \in Hosts, NEW f \in Names, Has(d, f)
      PROVE  old /\ d \in Cluster /\ f \in OldFiles(d) /\ disk[d] = OldDisk(d)
  BY <1>2, <1>4, <1>5 DEF Has, OldDisk
<1>6. ASSUME NEW d \in Hosts, NEW f \in Names \ Keyless, Has(d, f)
      PROVE  disk[d][f].ca = 1 /\ disk[d][CA].key = 1 /\ disk[d][CAKey].key \in {1, None}
             /\ (d = first => disk[d][CAKey].key = 1)
  <2>1. disk[d] = OldDisk(d) /\ f \in OldFiles(d) /\ d \in Cluster BY <1>5, <1>6
  <2>2. CA \in OldFiles(d) /\ (d = first => CAKey \in OldFiles(d))
    BY <1>3, <2>1, KindFacts DEF OldFiles, Wanted, Cluster
  <2> QED BY <2>1, <2>2, NameFacts, KindFacts DEF OldDisk, Keyless, NoFile
<1>7. FirstKeyed
  <2>1. CASE old
    <3>1. disk[first] = OldDisk(first) /\ CA \in OldFiles(first) /\ CAKey \in OldFiles(first)
      BY <1>2, <1>3, <2>1, KindFacts DEF OldFiles, Wanted
    <3> QED BY <3>1, NameFacts DEF OldDisk, FirstKeyed
  <2>2. CASE ~old BY <1>2, <1>3, <1>4, <2>2, NameFacts DEF FirstKeyed
  <2> QED BY <2>1, <2>2
<1>8. AllWhole
  <2> SUFFICES ASSUME NEW d \in Hosts PROVE Whole(d) BY DEF AllWhole, Init
  <2>1. ASSUME Has(d, CAKey) PROVE disk[d][CA].key = disk[d][CAKey].key
    <3>1. disk[d] = OldDisk(d) /\ CAKey \in OldFiles(d) BY <1>5, <2>1, NameFacts
    <3>2. CAKey \in Wanted(d)
      <4>1. CAKey \notin AdminOf(masters) BY <1>1, KindFacts DEF TypeOK
      <4> QED BY <3>1, <4>1 DEF OldFiles
    <3>3. Wanted(d) # {} => CA \in Wanted(d) BY <1>1, WantedFacts
    <3>4. CA \in OldFiles(d) BY <3>2, <3>3, KindFacts DEF OldFiles
    <3> QED BY <3>1, <3>4, NameFacts DEF OldDisk
  <2>2. None # 1 BY DEF None
  <2>3. Signed \subseteq Names \ Keyless BY SignedFacts DEF Keyless
  <2> QED BY <1>6, <2>1, <2>2, <2>3 DEF Whole, Has
<1>9. Holders
  <2> SUFFICES ASSUME NEW d \in Hosts, NEW f \in Signed \cup {CAKey}, Has(d, f)
               PROVE  f \in Wanted(d)
    BY DEF Holders
  <2>1. f \in OldFiles(d) BY <1>5, SignedFacts, NameFacts
  <2>2. f \notin AdminOf(masters) BY <1>1, SignedFacts, KindFacts DEF TypeOK
  <2> QED BY <2>1, <2>2 DEF OldFiles
<1>10. RunInv
  BY DEF Init, RunInv, FactsCurrent, FirstComplete, PastScript, AllServed, NoneLeft
<1> QED BY <1>1, <1>7, <1>8, <1>9, <1>10 DEF IInv, DiskInv

\* Steps that change no file, and before which the groups did not shrink.
LEMMA QuietDisk ==
  ASSUME TypeOK, DiskInv, UNCHANGED <<disk, first, torn>>, masters \subseteq masters', nodes \subseteq nodes'
  PROVE  DiskInv'
<1>1. FirstKeyed' /\ AllWhole' BY DEF DiskInv, FirstKeyed, AllWhole, Whole, Has
<1>2. \A d \in Hosts : Wanted(d) \subseteq Wanted(d)'
  BY DEF Wanted, NodeOf, Cluster
<1> QED BY <1>1, <1>2 DEF DiskInv, Holders, Has

LEMMA QuietRun == ASSUME step' \in {"idle", "check"} PROVE RunInv'
BY DEF RunInv, FactsCurrent, FirstComplete, PastScript, AllServed, NoneLeft

LEMMA ResetDisk == ASSUME TypeOK, DiskInv, NEW h \in Hosts, ResetHost(h) PROVE DiskInv'
<1>1. /\ first \in Hosts /\ first' = first /\ masters' = masters /\ nodes' = nodes
      /\ disk' = [disk EXCEPT ![h] = Empty] /\ disk \in [Hosts -> [Names -> Files]]
      /\ torn' = torn \ {h}
  BY DEF ResetHost, inventory, TypeOK
<1>2. disk'[h] = Empty /\ \A d \in Hosts \ {h} : disk'[d] = disk[d] BY <1>1
<1>3. \A f \in Names : Empty[f].key = None BY DEF Empty, NoFile
<1>4. FirstKeyed' BY <1>1, <1>2, <1>3, NameFacts DEF DiskInv, FirstKeyed
<1>5. AllWhole'
  BY <1>1, <1>2, <1>3, SignedFacts, NameFacts DEF DiskInv, AllWhole, Whole, Has
<1>6. Holders'
  BY <1>1, <1>2, <1>3, SignedFacts, NameFacts DEF DiskInv, Holders, Has, Wanted, Cluster
<1> QED BY <1>4, <1>5, <1>6 DEF DiskInv

\* Another first master has the CA with its key, or nothing of them.
LEMMA MoveDisk ==
  ASSUME TypeOK, NoUsurper, DiskInv, NEW h \in Hosts, MoveFirst(h) PROVE DiskInv'
<1>1. first' = h /\ h \notin torn /\ UNCHANGED <<disk, masters, nodes, torn>> BY DEF MoveFirst
<1>2. ~Has(h, CA) \/ Has(h, CAKey) BY DEF MoveFirst, Edit, NoUsurper
<1>3. Has(h, CAKey) => disk[h][CA].key = disk[h][CAKey].key BY <1>1 DEF DiskInv, AllWhole, Whole
<1>4. FirstKeyed' BY <1>1, <1>2, <1>3 DEF FirstKeyed, Has
<1>5. AllWhole' /\ Holders'
  BY <1>1 DEF DiskInv, AllWhole, Whole, Holders, Has, Wanted, Cluster
<1> QED BY <1>4, <1>5 DEF DiskInv

LEMMA ScriptInv == ASSUME IInv, TypeOK', RunScript PROVE DiskInv' /\ RunInv'
<1>1. PICK n \in Serial : disk' = [disk EXCEPT ![first] = Made(n)] BY DEF RunScript
<1>2. /\ TypeOK /\ FirstKeyed /\ Whole(first) /\ first \in Hosts /\ step = "generate" /\ step' = "compare"
      /\ first' = first /\ masters' = masters /\ nodes' = nodes
      /\ listing' = listing /\ sync' = sync /\ torn' = torn /\ first \notin torn
      /\ listing = disk[first] /\ genNode = MissingNodes
  BY DEF IInv, DiskInv, AllWhole, RunInv, FactsCurrent, RunScript, inventory, facts, TypeOK
<1>3. disk'[first] = Made(n) /\ \A d \in Hosts \ {first} : disk'[d] = disk[d]
  BY <1>1, <1>2 DEF TypeOK
<1>4. FirstKeyed' BY <1>2, <1>3, MadeFacts DEF FirstKeyed
<1>5. AllWhole'
  <2> SUFFICES ASSUME NEW d \in Hosts \ torn PROVE Whole(d)' BY <1>2 DEF AllWhole
  <2>1. CASE d = first
    <3>1. Made(n)[CA].key # None BY <1>2, MadeFacts
    <3>2. Made(n)[CA].key = Made(n)[CAKey].key BY <1>2, MadeFacts
    <3>3. \A f \in Signed : Made(n)[f].key # None => Made(n)[f].ca = Made(n)[CA].key
      BY <1>2, MadeFacts
    <3> QED BY <1>3, <2>1, <3>1, <3>2, <3>3 DEF Whole, Has
  <2>2. CASE d # first BY <1>3, <2>2 DEF IInv, DiskInv, AllWhole, Whole, Has
  <2> QED BY <2>1, <2>2
<1>6. Holders'
  <2> SUFFICES ASSUME NEW d \in Hosts, NEW f \in Signed \cup {CAKey}, Has(d, f)'
               PROVE  f \in Wanted(d)'
    BY DEF Holders
  <2>0. Wanted(d)' = Wanted(d) BY <1>2 DEF Wanted, Cluster
  <2>1. CASE d = first
    <3>1. Has(first, f) \/ f \in {CAKey, CA, API, SA, Ctl} \cup AdminOf(masters) \cup NodeOf(genNode)
      BY <1>3, <2>1, SignedFacts, NameFacts DEF Made, Has
    <3>2. f \notin AdminOf(masters) BY <1>2, SignedFacts, KindFacts DEF TypeOK
    <3>3. genNode \subseteq Cluster BY <1>2 DEF TypeOK
    <3>4. {CAKey, CA, API, SA, Ctl} \cup NodeOf(genNode) \subseteq Wanted(first)
      BY <1>2, <3>3 DEF Wanted, NodeOf, TypeOK
    <3> QED BY <2>0, <2>1, <3>1, <3>2, <3>4 DEF IInv, DiskInv, Holders
  <2>2. CASE d # first BY <1>3, <2>0, <2>2 DEF IInv, DiskInv, Holders, Has
  <2> QED BY <2>1, <2>2
<1>7. FactsCurrent'
  <2> SUFFICES ASSUME NEW f \in Names \ Changing, listing[f].key # None
               PROVE  Made(n)[f] = listing[f]
    BY <1>2, <1>3 DEF FactsCurrent
  <2>1. Has(first, f) BY <1>2 DEF Has
  <2>2. f \notin NodeOf(genNode)
    <3>1. \A h \in genNode : ~Has(first, NodeName(h)) BY <1>2 DEF MissingNodes
    <3>2. f \in NodeOf(genNode) => \E h \in genNode : f = NodeName(h) BY DEF NodeOf, NodeName
    <3> QED BY <2>1, <3>1, <3>2
  <2> QED BY <1>2, <2>1, <2>2, MadeFacts
<1>8. FirstComplete'
  <2> SUFFICES ASSUME NEW f \in Required \cup {CAKey} PROVE Made(n)[f].key # None
    BY <1>2, <1>3 DEF FirstComplete, Required, Has, Cluster
  <2>1. CASE f \in {CAKey, CA, API, SA, Ctl} \cup AdminOf(masters) \cup NodeOf(genNode)
    BY <1>2, <2>1, MadeFacts
  <2>2. CASE f \in NodeOf(Cluster) \ NodeOf(genNode)
    <3>1. PICK h \in Cluster : f = NodeName(h) BY <2>2 DEF NodeOf, NodeName
    <3>2. h \notin genNode BY <2>2, <3>1 DEF NodeOf, NodeName
    <3>3. Has(first, f) BY <1>2, <3>1, <3>2 DEF MissingNodes
    <3>4. f \in Required BY <2>2 DEF Required
    <3>5. f \in Names BY <1>2, <3>4, WantedFacts
    <3> QED BY <1>2, <3>3, <3>5, MadeFacts
  <2> QED BY <2>1, <2>2 DEF Required
<1>9. AllServed' /\ NoneLeft' BY <1>2 DEF AllServed, NoneLeft
<1> QED BY <1>4, <1>5, <1>6, <1>7, <1>8, <1>9 DEF DiskInv, RunInv

\* The script is skipped only when nothing is missing.
LEMMA SkipRun == ASSUME IInv, SkipScript PROVE RunInv'
<1>1. /\ step = "generate" /\ step' = "compare" /\ ~gen
      /\ UNCHANGED <<first, masters, nodes, disk, listing, sync>>
  BY DEF SkipScript, inventory, facts
<1>2. \A f \in Required : Has(first, f) BY <1>1 DEF IInv, RunInv, FactsCurrent
<1>3. Has(first, CAKey) BY <1>2 DEF IInv, DiskInv, FirstKeyed, Required, Has
<1>4. FirstComplete'
  BY <1>1, <1>2, <1>3 DEF FirstComplete, Required, Has, Cluster
<1>5. FactsCurrent' BY <1>1 DEF IInv, RunInv, FactsCurrent
<1> QED BY <1>1, <1>4, <1>5 DEF RunInv, AllServed, NoneLeft

\* A host that needs no files has those the first master kept, although it
\* is compared with an old listing.
LEMMA CompareRun == ASSUME IInv, CompareCerts PROVE RunInv'
<1>1. /\ step = "compare" /\ step' = "sync"
      /\ UNCHANGED <<first, masters, nodes, disk, listing>>
      /\ sync' = {h \in Cluster \ {first} : Differs(h)}
      /\ TypeOK
  BY DEF CompareCerts, inventory, IInv
<1>2. FirstComplete'
  BY <1>1 DEF IInv, RunInv, FirstComplete, PastScript, Required, Has, Cluster
<1>3. AllServed'
  <2> SUFFICES ASSUME NEW h \in Cluster \ {first}, ~Differs(h),
                      NEW f \in Wanted(h) \ Changing
               PROVE  Has(h, f) /\ disk[h][f] = disk[first][f]
    BY <1>1 DEF AllServed, Served, Wanted, Cluster, Has
  <2>1. Has(h, f) /\ disk[h][f] = listing[f] BY DEF Differs
  <2>2. f \in Names \ Changing BY <1>1, WantedFacts
  <2>3. listing[f].key # None BY <2>1 DEF Has
  <2> QED BY <1>1, <2>1, <2>2, <2>3 DEF IInv, RunInv, FactsCurrent
<1> QED BY <1>1, <1>2, <1>3 DEF RunInv, FactsCurrent, NoneLeft

LEMMA SyncInv ==
  ASSUME IInv, TypeOK', NEW h \in Hosts, Sync(h) PROVE DiskInv' /\ RunInv'
<1>1. /\ step = "sync" /\ step' = "sync" /\ h \in sync /\ sync' = sync \ {h}
      /\ first' = first /\ masters' = masters /\ nodes' = nodes
      /\ first \in Hosts /\ h # first /\ h \in Cluster
      /\ TypeOK /\ disk \in [Hosts -> [Names -> Files]] /\ torn' = torn \ {h}
  BY DEF IInv, Sync, inventory, TypeOK
<1>2. \A d \in Hosts \ {h} : disk'[d] = disk[d] BY <1>1 DEF Sync
<1>3. ASSUME NEW f \in Names
      PROVE  disk'[h][f] = IF f \in Wanted(h) THEN disk[first][f] ELSE disk[h][f]
  <2>1. f \in Wanted(h) => Has(first, f)
    BY <1>1, WantedFacts DEF IInv, RunInv, FirstComplete, PastScript
  <2> QED BY <1>1, <2>1 DEF Sync, Archive
<1>4. FirstKeyed' BY <1>1, <1>2 DEF IInv, DiskInv, FirstKeyed
<1>5. ASSUME NEW f \in Signed \cup {CAKey}, Has(h, f)'
      PROVE  f \in Wanted(h) /\ disk'[h][f] = disk[first][f] /\ disk'[h][CA] = disk[first][CA]
  <2>1. f \in Names BY SignedFacts, NameFacts
  <2>2. f \in Wanted(h) BY <1>3, <1>5, <2>1 DEF IInv, DiskInv, Holders, Has
  <2> QED BY <1>1, <1>3, <2>1, <2>2, WantedFacts, NameFacts
<1>6. AllWhole'
  <2>1. Whole(h)'
    <3>1. Whole(first) /\ FirstKeyed BY <1>1 DEF IInv, DiskInv, AllWhole
    <3> QED BY <1>5, <3>1 DEF Whole, FirstKeyed, Has
  <2>2. ASSUME NEW d \in Hosts \ {h}, d \notin torn PROVE Whole(d)'
    BY <1>2, <2>2 DEF IInv, DiskInv, AllWhole, Whole, Has
  <2> QED BY <1>1, <2>1, <2>2 DEF IInv, DiskInv, AllWhole
<1>7. Holders'
  BY <1>1, <1>2, <1>5 DEF IInv, DiskInv, Holders, Has, Wanted, Cluster
<1>8. FirstComplete'
  BY <1>1, <1>2 DEF IInv, RunInv, FirstComplete, PastScript, Required, Has, Cluster
<1>9. AllServed'
  <2> SUFFICES ASSUME NEW x \in Cluster \ ({first} \cup (sync \ {h})), NEW f \in Wanted(x) \ Changing
               PROVE  disk'[x][f].key # None /\ disk'[x][f] = disk'[first][f]
    BY <1>1 DEF AllServed, Served, Wanted, Cluster, Has
  <2>1. x \in Hosts /\ f \in Names BY <1>1, WantedFacts
  <2>2. disk'[first] = disk[first] BY <1>1, <1>2
  <2>3. CASE x = h
    <3>1. Has(first, f)
      BY <1>1, <2>3, WantedFacts DEF IInv, RunInv, FirstComplete, PastScript
    <3> QED BY <1>3, <2>1, <2>2, <2>3, <3>1 DEF Has
  <2>4. CASE x # h
    <3>1. Served(x) BY <1>1, <2>4 DEF IInv, RunInv, AllServed
    <3> QED BY <1>2, <2>1, <2>2, <2>4, <3>1 DEF Served, Has
  <2> QED BY <2>3, <2>4
<1> QED BY <1>1, <1>4, <1>6, <1>7, <1>8, <1>9 DEF DiskInv, RunInv, FactsCurrent, NoneLeft

\* An unpack that is cut leaves the host torn, and no file it does not want.
LEMMA CutDisk ==
  ASSUME TypeOK, DiskInv, NEW h \in Hosts, CutSync(h) PROVE DiskInv'
<1>1. /\ first \in Hosts /\ first' = first /\ masters' = masters /\ nodes' = nodes
      /\ torn' = torn \cup {h}
  BY DEF CutSync, inventory, TypeOK
<1>2. h # first /\ \A d \in Hosts \ {h} : disk'[d] = disk[d] BY CutFacts
<1>3. FirstKeyed' BY <1>1, <1>2 DEF DiskInv, FirstKeyed
<1>4. AllWhole' BY <1>1, <1>2 DEF DiskInv, AllWhole, Whole, Has
<1>5. ASSUME NEW f \in Signed \cup {CAKey}, Has(h, f)' PROVE f \in Wanted(h)
  <2>1. f \in Names BY SignedFacts, NameFacts
  <2>2. CASE f \in Wanted(h) BY <2>2
  <2>3. CASE disk'[h][f] = disk[h][f] BY <1>5, <2>3 DEF DiskInv, Holders, Has
  <2> QED BY <2>1, <2>2, <2>3, CutFacts
<1>6. Holders'
  BY <1>1, <1>2, <1>5 DEF DiskInv, Holders, Has, Wanted, Cluster
<1> QED BY <1>3, <1>4, <1>6 DEF DiskInv

\* The end of the node play and the master play: nothing is left to serve.
LEMMA EndRun ==
  ASSUME IInv, EndNodePlay \/ EndMasterPlay PROVE RunInv'
<1>1. /\ step \in {"sync", "master"} /\ step' \in {"master", "rotate"}
      /\ UNCHANGED <<first, masters, nodes, disk, sync>> /\ sync = {}
  BY DEF EndNodePlay, EndMasterPlay, inventory, facts, IInv, RunInv, NoneLeft
<1>2. FirstComplete'
  BY <1>1 DEF IInv, RunInv, FirstComplete, PastScript, Required, Has, Cluster
<1>3. AllServed'
  BY <1>1 DEF IInv, RunInv, AllServed, Served, Has, Wanted, Cluster
<1> QED BY <1>1, <1>2, <1>3 DEF RunInv, FactsCurrent, NoneLeft

LEMMA RotateRun == ASSUME IInv, RotateTokens PROVE RunInv'
<1>1. /\ step = "rotate" /\ step' = "done" /\ sync' = {} /\ sync = {}
      /\ UNCHANGED <<first, masters, nodes, disk>>
  BY DEF RotateTokens, Enter, inventory, IInv, RunInv, NoneLeft
<1>2. FirstComplete'
  BY <1>1 DEF IInv, RunInv, FirstComplete, PastScript, Required, Has, Cluster
<1>3. AllServed'
  BY <1>1 DEF IInv, RunInv, AllServed, Served, Has, Wanted, Cluster
<1> QED BY <1>1, <1>2, <1>3 DEF RunInv, FactsCurrent, NoneLeft

LEMMA NextInv == NoUsurper /\ IInv /\ [Next]_vars => IInv'
<1> SUFFICES ASSUME NoUsurper, IInv, [Next]_vars PROVE IInv' OBVIOUS
<1>1. TypeOK /\ TypeOK' BY NextType DEF IInv
<1>2. DiskInv' /\ RunInv'
  <2>1. CASE StartRun
    <3>1. step' = "check" BY <2>1 DEF StartRun, Enter
    <3> QED BY <1>1, <2>1, <3>1, QuietDisk, QuietRun DEF StartRun, inventory, IInv
  <2>2. CASE Fail
    BY <1>1, <2>2, QuietDisk, QuietRun DEF Fail, Enter, inventory, IInv
  <2>3. CASE CheckCerts
    <3>1. RunInv'
      BY <2>3 DEF CheckCerts, inventory, RunInv, FactsCurrent, FirstComplete, PastScript,
         AllServed, NoneLeft, MissingNodes, Required, Has, Cluster
    <3> QED BY <1>1, <2>3, <3>1, QuietDisk DEF CheckCerts, inventory, IInv
  <2>4. CASE RunScript BY <1>1, <2>4, ScriptInv
  <2>5. CASE SkipScript BY <1>1, <2>5, SkipRun, QuietDisk DEF SkipScript, inventory, IInv
  <2>6. CASE CompareCerts BY <1>1, <2>6, CompareRun, QuietDisk DEF CompareCerts, inventory, IInv
  <2>7. ASSUME NEW h \in Hosts, Sync(h) PROVE DiskInv' /\ RunInv' BY <1>1, <2>7, SyncInv
  <2>8. CASE EndNodePlay BY <1>1, <2>8, EndRun, QuietDisk DEF EndNodePlay, inventory, IInv
  <2>9. CASE EndMasterPlay BY <1>1, <2>9, EndRun, QuietDisk DEF EndMasterPlay, inventory, IInv
  <2>10. CASE RotateTokens BY <1>1, <2>10, RotateRun, QuietDisk DEF RotateTokens, inventory, IInv
  <2>11. ASSUME NEW h \in Hosts, AddNode(h) \/ AddMaster(h) PROVE DiskInv' /\ RunInv'
    BY <1>1, <2>11, QuietDisk, QuietRun DEF AddNode, AddMaster, Enter, IInv
  <2>12. ASSUME NEW h \in Hosts, MoveFirst(h) PROVE DiskInv' /\ RunInv'
    BY <1>1, <2>12, MoveDisk, QuietRun DEF MoveFirst, Enter, IInv
  <2>13. ASSUME NEW h \in Hosts, ResetHost(h) PROVE DiskInv' /\ RunInv'
    BY <1>1, <2>13, ResetDisk, QuietRun DEF ResetHost, Enter, IInv
  <2>15. ASSUME NEW h \in Hosts, CutSync(h) PROVE DiskInv' /\ RunInv'
    <3>1. step' = "idle" BY <2>15 DEF CutSync, Enter
    <3> QED BY <1>1, <2>15, <3>1, CutDisk, QuietRun DEF IInv
  <2>14. CASE UNCHANGED vars
    <3>1. RunInv'
      BY <2>14 DEF vars, inventory, facts, IInv, RunInv, FactsCurrent, FirstComplete, PastScript,
         AllServed, NoneLeft, Served, MissingNodes, Required, Wanted, Has, Cluster
    <3> QED BY <1>1, <2>14, <3>1, QuietDisk DEF vars, inventory, IInv
  <2> QED BY <2>1, <2>2, <2>3, <2>4, <2>5, <2>6, <2>7, <2>8, <2>9, <2>10, <2>11, <2>12,
             <2>13, <2>14, <2>15 DEF Next, Run, Interruption, Operator
<1> QED BY <1>1, <1>2 DEF IInv

LEMMA InvHolds == NoUsurper => (Spec => []IInv)
<1> SUFFICES ASSUME NoUsurper PROVE Spec => []IInv OBVIOUS
<1>1. Init => IInv BY InitInv
<1>2. IInv /\ [Next]_vars => IInv' BY NextInv
<1> QED BY <1>1, <1>2, PTL DEF Spec

LEMMA DoneServed ==
  ASSUME IInv, step = "done", NEW h \in Cluster PROVE Served(h)
<1>1. TypeOK BY DEF IInv
<1>2. CASE h # first BY <1>2 DEF IInv, RunInv, AllServed, NoneLeft
<1>3. CASE h = first
  BY <1>1, <1>3, WantedFacts DEF IInv, RunInv, FirstComplete, PastScript, Served
<1> QED BY <1>2, <1>3

\* When cluster.yml completes, every host of the cluster can talk to it, for
\* any number of hosts, failed runs and edits.
THEOREM NodesDeployedHolds == NoUsurper => (Spec => []NodesDeployed)
<1> SUFFICES ASSUME NoUsurper PROVE Spec => []NodesDeployed OBVIOUS
<1>1. IInv => NodesDeployed
  <2> SUFFICES ASSUME IInv, step = "done", NEW h \in Cluster PROVE Deployed(h)
    BY DEF NodesDeployed
  <2>1. TypeOK /\ Served(h) BY DoneServed DEF IInv
  <2>2. h \in Hosts /\ NodeName(h) \in Wanted(h) \ Changing /\ CA \in Wanted(h) \ Changing
    BY <2>1, WantedFacts, KindFacts
  <2>3. NodeName(h) \in Signed /\ Whole(first)
    BY <2>1, <2>2, SignedFacts DEF IInv, DiskInv, AllWhole, TypeOK
  <2>4. disk[h][CA] = disk[first][CA] /\ disk[h][NodeName(h)] = disk[first][NodeName(h)]
        /\ Has(h, CA) /\ Has(h, NodeName(h))
    BY <2>1, <2>2 DEF Served
  <2> QED BY <2>3, <2>4 DEF Deployed, Whole, Has
<1> QED BY <1>1, InvHolds, PTL

\* When cluster.yml completes, all masters use the first master's CA, its
\* apiserver pair and its service account key.
THEOREM MastersAgreeHolds == NoUsurper => (Spec => []MastersAgree)
<1> SUFFICES ASSUME NoUsurper PROVE Spec => []MastersAgree OBVIOUS
<1>1. IInv => MastersAgree
  <2> SUFFICES ASSUME IInv, step = "done", NEW h \in masters, NEW f \in {CAKey, CA, API, SA}
               PROVE  Has(h, f) /\ disk[h][f] = disk[first][f]
    BY DEF MastersAgree
  <2>1. TypeOK /\ h \in Cluster BY DEF IInv, Cluster
  <2>2. Served(h) BY <2>1, DoneServed
  <2>3. f \in Wanted(h) \ Changing BY <2>1, WantedFacts, KindFacts
  <2> QED BY <2>2, <2>3 DEF Served
<1> QED BY <1>1, InvHolds, PTL

\* Between runs, whichever failed and however many hosts were lost, what a
\* host whose own unpack was not cut holds is signed by the CA it trusts.
THEOREM PairsConsistentHolds == NoUsurper => (Spec => []PairsConsistent)
<1> SUFFICES ASSUME NoUsurper PROVE Spec => []PairsConsistent OBVIOUS
<1>1. IInv => PairsConsistent
  BY SignedFacts DEF IInv, DiskInv, AllWhole, Whole, PairsConsistent
<1> QED BY <1>1, InvHolds, PTL
-----------------------------------------------------------------------------
(* The tokens after a run that completes, for any edits, as long as no run *)
(* fails and the first master leads the play.                              *)

SameService(h) == disk[h][SA].key = disk[first][SA].key

MastersOnly == \A h \in Hosts : Has(h, SA) => h \in masters

\* Between two runs, and up to the script, every service account key is the
\* one that signed the tokens.
OneServiceKey ==
  step \in {"idle", "done", "check", "generate"} =>
    \A h \in Hosts : Has(h, SA) => disk[h][SA].key = signed

\* What the run knows before the script.
RunLed ==
  /\ ~AtRest => lead = first
  /\ step = "generate" => listing = disk[first] /\ (~gen => Has(first, SA))

\* After the script a host with another key than the first master's is yet
\* to be found out and served, and the script is the one that drew a new key.
ServiceKeySpread ==
  step \in {"compare", "sync", "master", "rotate"} =>
    /\ Has(first, SA)
    /\ gen \/ disk[first][SA].key = signed
    /\ \A h \in Hosts : Has(h, SA) =>
         \/ SameService(h)
         \/ step = "compare" /\ disk[h][SA] # listing[SA]
         \/ step = "sync" /\ h \in sync

Told == step \in {"master", "rotate"} => secret = gen

TokenInv ==
  failures = 0 =>
    MastersOnly /\ OneServiceKey /\ RunLed /\ ServiceKeySpread /\ Told /\ TokensRotated

LEMMA ServiceWanted ==
  /\ SA \in Names
  /\ \A h \in Hosts : SA \in Wanted(h) <=> h \in masters
BY NameFacts, KindFacts DEF Wanted, NodeOf, AdminOf, SA, CA, Common, NodeName

LEMMA InitTokens == Init => TokenInv
<1> SUFFICES ASSUME Init PROVE TokenInv OBVIOUS
<1>1. PICK old \in OldReleases :
        disk = [h \in Hosts |-> IF old /\ h \in Cluster THEN OldDisk(h) ELSE Empty]
  BY DEF Init
<1>2. \A h \in Hosts : OldDisk(h)[SA] = NoFile /\ Empty[SA] = NoFile
  <2>1. SA \notin AdminOf(masters) BY KindFacts DEF Init, SA, AdminOf, Common
  <2> QED BY <2>1, ServiceWanted DEF OldDisk, OldFiles, Empty
<1>3. \A h \in Hosts : ~Has(h, SA) BY <1>1, <1>2 DEF Has, NoFile
<1> QED BY <1>3 DEF Init, TokenInv, MastersOnly, OneServiceKey, RunLed, ServiceKeySpread,
        Told, TokensRotated, AtRest

\* The script keeps the service account key the first master has.
LEMMA ScriptService ==
  ASSUME TypeOK, RunScript
  PROVE  /\ \A h \in Hosts \ {first} : disk'[h] = disk[h]
         /\ disk'[first][SA].key # None
         /\ Has(first, SA) => disk'[first][SA] = disk[first][SA]
<1>1. PICK n \in Serial : disk' = [disk EXCEPT ![first] = Made(n)] BY DEF RunScript
<1>2. first \in Hosts BY DEF TypeOK
<1>3. SA \in Names /\ SA \notin {CAKey, CA, API} BY NameFacts, KindFacts
<1>4. Made(n)[SA] = IF Has(first, SA) THEN disk[first][SA]
                    ELSE [key |-> ServiceKey(n), ca |-> None]
  BY <1>3 DEF Made, Kept
<1>5. ServiceKey(n) # None BY DEF ServiceKey, Has, Serial, None
<1>6. disk'[first] = Made(n) /\ \A h \in Hosts \ {first} : disk'[h] = disk[h]
  BY <1>1, <1>2 DEF TypeOK
<1> QED BY <1>4, <1>5, <1>6 DEF Has

\* Some run of the script or none, the first master has a key, and hosts with
\* another differ from what was listed.
LEMMA ScriptTokens ==
  ASSUME TypeOK, TokenInv, failures = 0, RunScript \/ SkipScript
  PROVE  TokenInv'
<1>0. /\ step = "generate" /\ step' = "compare" /\ first \in Hosts
      /\ UNCHANGED <<first, masters, nodes, signed, lead, listing, gen, secret, failures>>
  BY DEF RunScript, SkipScript, inventory, facts, TypeOK
<1>1. MastersOnly /\ OneServiceKey /\ RunLed BY DEF TokenInv
<1>2. /\ \A h \in Hosts \ {first} : disk'[h] = disk[h]
      /\ disk'[first][SA].key # None
      /\ Has(first, SA) => disk'[first][SA] = disk[first][SA]
  <2>1. CASE RunScript BY <2>1, ScriptService
  <2>2. CASE SkipScript BY <1>0, <1>1, <2>2 DEF SkipScript, RunLed, Has
  <2> QED BY <2>1, <2>2
<1>3. first \in masters BY DEF TypeOK
<1>4. MastersOnly'
  BY <1>0, <1>1, <1>2, <1>3 DEF MastersOnly, Has
<1>5. ~Has(first, SA) => gen BY <1>0, <1>1 DEF RunLed
<1>6. gen \/ disk'[first][SA].key = signed
  BY <1>0, <1>1, <1>2, <1>5 DEF OneServiceKey
<1>7. ASSUME NEW h \in Hosts, disk'[h][SA].key # None
      PROVE  disk'[h][SA].key = disk'[first][SA].key \/ disk'[h][SA] # listing[SA]
  <2>1. CASE h = first BY <2>1
  <2>2. CASE h # first /\ Has(first, SA)
    BY <1>0, <1>1, <1>2, <1>7, <2>2 DEF OneServiceKey, Has
  <2>3. CASE h # first /\ ~Has(first, SA)
    <3>1. listing[SA].key = None BY <1>0, <1>1, <2>3 DEF RunLed, Has
    <3> QED BY <1>7, <3>1
  <2> QED BY <2>1, <2>2, <2>3
<1>8. ServiceKeySpread'
  BY <1>0, <1>2, <1>6, <1>7 DEF ServiceKeySpread, Has, SameService
<1> QED BY <1>0, <1>1, <1>4, <1>8
        DEF TokenInv, OneServiceKey, RunLed, Told, TokensRotated, AtRest

LEMMA CompareTokens ==
  ASSUME TypeOK, TokenInv, failures = 0, CompareCerts PROVE TokenInv'
<1>0. /\ step = "compare" /\ step' = "sync" /\ sync' = {h \in Cluster \ {first} : Differs(h)}
      /\ UNCHANGED <<first, masters, disk, signed, lead, listing, gen, secret, failures>>
  BY DEF CompareCerts, inventory
<1>1. MastersOnly /\ RunLed /\ ServiceKeySpread BY DEF TokenInv
<1>2. ASSUME NEW h \in Hosts, Has(h, SA) PROVE SameService(h) \/ h \in sync'
  <2>1. h \in masters BY <1>1, <1>2 DEF MastersOnly
  <2>2. SA \in Wanted(h) /\ h \in Cluster BY <2>1, ServiceWanted DEF Cluster
  <2>3. h # first /\ disk[h][SA] # listing[SA] => h \in sync' BY <1>0, <2>2 DEF Differs
  <2> QED BY <1>0, <1>1, <1>2, <2>3 DEF ServiceKeySpread, SameService
<1>3. ServiceKeySpread'
  BY <1>0, <1>1, <1>2 DEF ServiceKeySpread, Has, SameService
<1> QED BY <1>0, <1>1, <1>3
        DEF TokenInv, MastersOnly, OneServiceKey, RunLed, Told, TokensRotated, AtRest, Has

LEMMA SyncTokens ==
  ASSUME TypeOK, TokenInv, failures = 0, NEW h \in Hosts, Sync(h) PROVE TokenInv'
<1>0. /\ step = "sync" /\ step' = "sync" /\ sync' = sync \ {h} /\ h # first /\ first \in Hosts
      /\ UNCHANGED <<first, masters, signed, lead, listing, gen, secret, failures>>
  BY DEF Sync, inventory, TypeOK
<1>1. MastersOnly /\ RunLed /\ ServiceKeySpread BY DEF TokenInv
<1>2. /\ \A x \in Hosts \ {h} : disk'[x] = disk[x]
      /\ h \in masters => disk'[h][SA] = disk[first][SA]
      /\ h \notin masters => disk'[h][SA] = disk[h][SA]
  BY <1>0, <1>1, ServiceWanted DEF Sync, Archive, TypeOK, ServiceKeySpread
<1>3. MastersOnly' BY <1>0, <1>1, <1>2 DEF MastersOnly, Has
<1>4. ASSUME NEW x \in Hosts, disk'[x][SA].key # None
      PROVE  disk'[x][SA].key = disk'[first][SA].key \/ x \in sync \ {h}
  <2>1. CASE x = h
    <3>1. h \in masters BY <1>1, <1>2, <1>4, <2>1 DEF MastersOnly, Has
    <3> QED BY <1>0, <1>2, <2>1, <3>1
  <2>2. CASE x # h
    BY <1>0, <1>1, <1>2, <1>4, <2>2 DEF ServiceKeySpread, SameService, Has
  <2> QED BY <2>1, <2>2
<1>5. ServiceKeySpread'
  BY <1>0, <1>1, <1>2, <1>4 DEF ServiceKeySpread, Has, SameService
<1> QED BY <1>0, <1>1, <1>3, <1>5
        DEF TokenInv, OneServiceKey, RunLed, Told, TokensRotated, AtRest

LEMMA RotateTokensInv ==
  ASSUME TypeOK, TokenInv, failures = 0, RotateTokens PROVE TokenInv'
<1>0. /\ step = "rotate" /\ step' = "done" /\ first \in Hosts
      /\ UNCHANGED <<first, masters, disk, failures>>
      /\ signed' = IF secret THEN disk[first][SA].key ELSE signed
  BY DEF RotateTokens, Enter, inventory, TypeOK
<1>1. MastersOnly /\ ServiceKeySpread /\ secret = gen BY <1>0 DEF TokenInv, Told
<1>2. signed' = disk[first][SA].key BY <1>0, <1>1 DEF ServiceKeySpread
<1>3. \A h \in Hosts : Has(h, SA) => disk[h][SA].key = signed'
  BY <1>0, <1>1, <1>2 DEF ServiceKeySpread, SameService
<1> QED BY <1>0, <1>1, <1>2, <1>3
        DEF TokenInv, MastersOnly, OneServiceKey, RunLed, ServiceKeySpread, Told,
            TokensRotated, AtRest, Has

\* The steps between runs, and the one that starts a run.
LEMMA RestTokens ==
  ASSUME TypeOK, TokenInv, failures = 0, FirstLeads, AtRest,
         StartRun \/ Operator
  PROVE  TokenInv'
<1>0. MastersOnly /\ OneServiceKey BY DEF TokenInv
<1>1. /\ step' \in {"idle", "check"} /\ signed' = signed /\ masters \subseteq masters'
      /\ step' = "check" => lead' = first'
  BY DEF StartRun, Operator, Enter, Edit, AddNode, AddMaster, MoveFirst, ResetHost, inventory
<1>2. \A h \in Hosts : disk'[h] \in {disk[h], Empty}
  BY DEF StartRun, Operator, AddNode, AddMaster, MoveFirst, ResetHost, TypeOK
<1>3. Empty[SA].key = None BY NameFacts DEF Empty, NoFile
<1>4. MastersOnly' /\ OneServiceKey'
  BY <1>0, <1>1, <1>2, <1>3 DEF MastersOnly, OneServiceKey, Has, AtRest
<1> QED BY <1>1, <1>4 DEF TokenInv, RunLed, ServiceKeySpread, Told, TokensRotated, AtRest

LEMMA NextTokens == FirstLeads /\ TypeOK /\ TokenInv /\ [Next]_vars => TokenInv'
<1> SUFFICES ASSUME FirstLeads, TypeOK, TokenInv, [Next]_vars, failures' = 0 PROVE TokenInv'
  BY DEF TokenInv
<1>0. failures = 0
  <2>1. failures \in Nat BY DEF TypeOK
  <2>2. failures' = failures \/ failures' = failures + 1
    BY DEF Next, Run, Interruption, Operator, vars, StartRun, Fail, CutSync, CheckCerts, RunScript, SkipScript,
       CompareCerts, Sync, EndNodePlay, EndMasterPlay, RotateTokens, AddNode, AddMaster,
       MoveFirst, ResetHost, Edit
  <2> QED BY <2>1, <2>2
<1> USE <1>0
<1>1. CASE StartRun \/ Operator
  <2>1. AtRest
    BY <1>1 DEF StartRun, Operator, AddNode, AddMaster, MoveFirst, ResetHost, Edit
  <2> QED BY <1>1, <2>1, RestTokens
<1>2. CASE CheckCerts
  <2>1. gen' = (\E f \in Required : ~Has(first, f)) /\ SA \in Required
    BY <1>2 DEF CheckCerts, Required
  <2> QED BY <1>2, <2>1 DEF CheckCerts, TokenInv, MastersOnly, OneServiceKey, RunLed,
          ServiceKeySpread, Told, TokensRotated, AtRest, Has, inventory
<1>3. CASE RunScript \/ SkipScript
  BY <1>3, ScriptTokens
<1>4. CASE CompareCerts
  BY <1>4, CompareTokens
<1>5. ASSUME NEW h \in Hosts, Sync(h) PROVE TokenInv'
  BY <1>5, SyncTokens
<1>6. CASE EndNodePlay
  <2>1. /\ step = "sync" /\ sync = {} /\ step' = "master" /\ secret' = (gen /\ lead = first)
        /\ UNCHANGED <<first, masters, disk, signed, lead, listing, gen, failures>>
    BY <1>6 DEF EndNodePlay, inventory
  <2>2. lead = first /\ ServiceKeySpread /\ MastersOnly BY <2>1 DEF TokenInv, RunLed, AtRest
  <2>3. secret' = gen
    <3>1. gen \in BOOLEAN BY DEF TypeOK
    <3> QED BY <2>1, <2>2, <3>1
  <2>4. ServiceKeySpread' BY <2>1, <2>2 DEF ServiceKeySpread, SameService, Has
  <2>5. MastersOnly' BY <2>1, <2>2 DEF MastersOnly, Has
  <2> QED BY <2>1, <2>2, <2>3, <2>4, <2>5
          DEF TokenInv, OneServiceKey, RunLed, Told, TokensRotated, AtRest
<1>7. CASE EndMasterPlay
  BY <1>7 DEF EndMasterPlay, TokenInv, MastersOnly, OneServiceKey, RunLed, ServiceKeySpread,
     SameService, Told, TokensRotated, AtRest, Has, inventory, facts
<1>8. CASE RotateTokens
  BY <1>8, RotateTokensInv
<1>9. CASE Interruption
  <2>1. failures' = failures + 1 BY <1>9 DEF Interruption, Fail, CutSync
  <2> QED BY <2>1
<1>10. CASE UNCHANGED vars
  BY <1>10 DEF vars, TokenInv, MastersOnly, OneServiceKey, RunLed, ServiceKeySpread,
     SameService, Told, TokensRotated, AtRest, Has, inventory, facts
<1> QED BY <1>1, <1>2, <1>3, <1>4, <1>5, <1>6, <1>7, <1>8, <1>9, <1>10 DEF Next, Run

\* When cluster.yml completes, the apiservers accept the tokens there are, if
\* no run has failed and the first master leads play k8s-cluster: whatever
\* hosts were added, reset or put in the first place before it.
THEOREM TokensAcceptedHolds == Spec => []TokensAccepted
<1>1. CASE FirstLeads
  <2>1. TokenInv => TokensAccepted BY DEF TokenInv, TokensAccepted
  <2>2. TypeOK /\ TokenInv /\ [Next]_vars => TokenInv' BY <1>1, NextTokens
  <2> QED BY <2>1, <2>2, InitTokens, TypeCorrect, PTL DEF Spec
<1>2. CASE ~FirstLeads
  <2>1. TypeOK => TokensAccepted BY <1>2 DEF TokensAccepted
  <2> QED BY <2>1, TypeCorrect, PTL
<1> QED BY <1>1, <1>2
=============================================================================

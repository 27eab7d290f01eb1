--------------------------- MODULE ClusterDNSProofs ---------------------------
(***************************************************************************)
(* What a completed run of ClusterDNS leaves behind, for any set of modes, *)
(* and any bounds.                                                         *)
(***************************************************************************)
EXTENDS ClusterDNS, TLAPS

LEMMA HeadTail ==
  ASSUME NEW S, NEW s \in Seq(S), s # <<>>
  PROVE  Head(s) \in S /\ Tail(s) \in Seq(S) /\ Rng(s) = {Head(s)} \cup Rng(Tail(s))
<1>1. Head(s) \in S /\ Tail(s) \in Seq(S) /\ Len(s) \in Nat \ {0}
  OBVIOUS
<1>2. DOMAIN s = 1..Len(s) /\ DOMAIN Tail(s) = 1..(Len(s) - 1)
  OBVIOUS
<1>3. ASSUME NEW i \in 1..Len(s) PROVE s[i] \in {Head(s)} \cup Rng(Tail(s))
  <2>1. CASE i = 1
    BY <2>1
  <2>2. CASE i # 1
    <3>1. i - 1 \in DOMAIN Tail(s) /\ Tail(s)[i - 1] = s[i]
      BY <1>1, <1>2, <1>3, <2>2
    <3>2. QED
      BY <3>1 DEF Rng
  <2>3. QED
    BY <2>1, <2>2
<1>4. ASSUME NEW j \in 1..(Len(s) - 1) PROVE Tail(s)[j] \in Rng(s)
  <2>1. j + 1 \in DOMAIN s /\ Tail(s)[j] = s[j + 1]
    BY <1>1, <1>2, <1>4
  <2>2. QED
    BY <2>1 DEF Rng
<1>5. Head(s) \in Rng(s)
  BY <1>1, <1>2 DEF Rng
<1>6. QED
  BY <1>1, <1>2, <1>3, <1>4, <1>5 DEF Rng

LEMMA EmptyRng == Rng(<<>>) = {}
  BY DEF Rng

LEMMA ItemsType ==
  ASSUME NEW st, mode \in Modes
  PROVE  Items(st) \in Seq(DNSObjects)
<1>1. OldCoreDNS \in Seq(DNSObjects)
  BY DEF OldCoreDNS, DNSObjects, Core
<1>2. OldKubeDNS \in Seq(DNSObjects)
  BY DEF OldKubeDNS, DNSObjects, KubeDNS
<1>3. Manifests(mode) \in Seq(DNSObjects)
  <2>1. <<"kube-dns deploy", "kube-dns svc", "kubedns-autoscaler deploy">> \in Seq(DNSObjects)
    BY DEF DNSObjects, KubeDNS
  <2>2. <<"coredns configmap", "coredns deploy", "coredns svc">> \in Seq(DNSObjects)
    BY DEF DNSObjects, Core
  <2>3. <<"coredns configmap", "coredns deploy", "coredns svc", "coredns-secondary deploy",
          "coredns-secondary svc">> \in Seq(DNSObjects)
    BY DEF DNSObjects, Core, Second
  <2>4. <<>> \in Seq(DNSObjects)
    OBVIOUS
  <2>5. CASE mode = "kubedns"
    BY <2>1, <2>5 DEF Manifests
  <2>6. CASE mode = "coredns"
    BY <2>2, <2>6 DEF Manifests
  <2>7. CASE mode = "coredns_dual"
    BY <2>3, <2>7 DEF Manifests
  <2>8. CASE mode = "manual"
    BY <2>4, <2>8 DEF Manifests
  <2>9. QED
    BY <2>5, <2>6, <2>7, <2>8, ModesAssumption
<1>4. <<>> \in Seq(DNSObjects)
  OBVIOUS
<1>5. QED
  BY <1>1, <1>2, <1>3, <1>4 DEF Items

(* The call under way is the one of the present item. *)
CallMatches ==
  status # "idle" => step \in Loops /\ items # <<>> /\ call = ItemCall

Types == TypeOK /\ CallMatches

LEMMA InitTypes == Init => Types
<1>1. SUFFICES ASSUME Init PROVE Types
  OBVIOUS
<1>2. call \in CallType
  BY <1>1 DEF Init, KubeInit, CallType, Applying
<1>3. objects \in [DNSObjects -> Nat] /\ release \in Nat \ {Absent}
  BY <1>1 DEF Init, KubeInit, Absent
<1>4. KubeTypeOK
  BY <1>1, <1>2, <1>3 DEF Init, KubeInit, KubeTypeOK
<1>5. TypeOK
  <2>1. tries \in 0..Retries
    BY <1>1, BoundsAssumption DEF Init
  <2>2. items \in Seq(DNSObjects) /\ edits \in Nat /\ failures \in Nat
    BY <1>1 DEF Init
  <2>3. QED
    BY <1>1, <1>4, <2>1, <2>2 DEF Init, TypeOK, Ended
<1>6. CallMatches
  BY <1>1 DEF Init, KubeInit, CallMatches
<1>7. QED
  BY <1>5, <1>6 DEF Types

LEMMA AttemptsType == ASSUME NEW st PROVE Attempts(st) \in 1..Retries
  BY BoundsAssumption DEF Attempts

(* What the play's tasks do to the variables of the loop keeps their types. *)
LEMMA EnterTypes ==
  ASSUME NEW st \in Ended \cup {"wait"} \cup Loops, mode \in Modes, Enter(st)
  PROVE  /\ step' \in Ended \cup {"wait"} \cup Loops
         /\ items' \in Seq(DNSObjects)
         /\ tries' \in 0..Retries
         /\ lost' \in BOOLEAN
<1>1. Attempts(st) \in 0..Retries
  BY AttemptsType, BoundsAssumption
<1>2. QED
  BY <1>1, ItemsType DEF Enter

LEMMA PlayTypes ==
  ASSUME Types, StartRun \/ ApiAnswers \/ EndLoop \/ StopRun \/ Edit
  PROVE  Types'
<1>1. PICK st \in Ended \cup {"wait"} \cup Loops : Enter(st) \/ Edit
  BY DEF StartRun, ApiAnswers, EndLoop, StopRun, Ended, Loops, After
<1>2. /\ step' \in Ended \cup {"wait"} \cup Loops
      /\ items' \in Seq(DNSObjects)
      /\ tries' \in 0..Retries
      /\ lost' \in BOOLEAN
  BY <1>1, EnterTypes DEF Types, TypeOK, Edit, Ended
<1>3. KubeTypeOK'
  <2>1. CASE UNCHANGED module_vars
    BY <2>1 DEF Types, TypeOK, KubeTypeOK, module_vars
  <2>2. CASE Edit
    <3>1. release' \in Nat \ {Absent}
      BY <2>2 DEF Types, TypeOK, KubeTypeOK, Edit, Absent
    <3>2. QED
      BY <2>2, <3>1 DEF Types, TypeOK, KubeTypeOK, Edit
  <2>3. QED
    BY <2>1, <2>2 DEF StartRun, ApiAnswers, EndLoop, StopRun
<1>4. mode' \in Modes /\ blind' \in BOOLEAN /\ edits' \in Nat /\ failures' \in Nat
  <2>1. mode \in Modes /\ blind \in BOOLEAN /\ edits \in Nat /\ failures \in Nat
    BY DEF Types, TypeOK
  <2>2. CASE StartRun
    BY <2>1, <2>2 DEF StartRun
  <2>3. CASE ApiAnswers
    BY <2>1, <2>3 DEF ApiAnswers
  <2>4. CASE EndLoop
    BY <2>1, <2>4 DEF EndLoop
  <2>5. CASE StopRun
    BY <2>1, <2>5 DEF StopRun
  <2>6. CASE Edit
    BY <2>1, <2>6 DEF Edit
  <2>7. QED
    BY <2>2, <2>3, <2>4, <2>5, <2>6
<1>5. status = "idle" /\ status' = "idle"
  BY DEF Types, CallMatches, StartRun, ApiAnswers, EndLoop, StopRun, Edit, module_vars, Ended,
     Loops
<1>6. QED
  BY <1>2, <1>3, <1>4, <1>5 DEF Types, TypeOK, CallMatches

LEMMA CallTypes == ASSUME Types, CallItem PROVE Types'
<1>1. Head(items) \in DNSObjects
  BY HeadTail DEF Types, TypeOK, CallItem
<1>2. ItemCall \in CallType
  BY <1>1 DEF ItemCall, CallType, Applying, Removing
<1>3. KubeTypeOK'
  BY <1>2 DEF Types, TypeOK, KubeTypeOK, CallItem, Begin
<1>4. ItemCall' = ItemCall
  BY DEF CallItem, run_vars, ItemCall
<1>5. CallMatches'
  BY <1>4 DEF CallItem, Begin, run_vars, CallMatches
<1>6. QED
  BY <1>3, <1>5 DEF Types, TypeOK, CallItem, run_vars

LEMMA KubeTypes == ASSUME Types, KubeRuns PROVE Types'
<1>1. KubeTypeOK'
  <2>1. KubeTypeOK
    BY DEF Types, TypeOK
  <2>2. CASE Look \/ LookUnanswered
    BY <2>1, <2>2 DEF KubeTypeOK, Look, LookUnanswered
  <2>3. ASSUME NEW o \in DNSObjects, Apply(o) PROVE KubeTypeOK'
    BY <2>1, <2>3 DEF KubeTypeOK, Apply
  <2>4. ASSUME NEW o \in DNSObjects, Remove(o) PROVE KubeTypeOK'
    BY <2>1, <2>4 DEF KubeTypeOK, Remove, Absent
  <2>5. CASE Break \/ Exit
    BY <2>1, <2>5 DEF KubeTypeOK, Break, Exit
  <2>6. QED
    BY <2>2, <2>3, <2>4, <2>5 DEF KubeRuns, KubeStep
<1>2. status # "idle" /\ UNCHANGED call
  BY DEF KubeRuns, KubeStep, Look, LookUnanswered, Apply, Remove, Break, Exit
<1>3. ItemCall' = ItemCall
  BY DEF KubeRuns, ItemCall
<1>4. CallMatches'
  BY <1>2, <1>3 DEF Types, CallMatches, KubeRuns
<1>5. QED
  BY <1>1, <1>4 DEF Types, TypeOK, KubeRuns

LEMMA RegisterTypes == ASSUME Types, Register PROVE Types'
<1>1. items # <<>> /\ status' = "idle"
  BY DEF Types, CallMatches, Register, Return
<1>2. Tail(items) \in Seq(DNSObjects)
  BY <1>1, HeadTail DEF Types, TypeOK
<1>3. items' \in Seq(DNSObjects) /\ tries' \in 0..Retries /\ lost' \in BOOLEAN
  <2>1. items \in Seq(DNSObjects) /\ tries \in 0..Retries /\ lost \in BOOLEAN
    BY DEF Types, TypeOK
  <2>2. CASE status = "failed" /\ tries > 1
    BY <2>1, <2>2, BoundsAssumption DEF Register
  <2>3. CASE ~(status = "failed" /\ tries > 1)
    <3>1. Attempts(step) \in 0..Retries
      BY AttemptsType, BoundsAssumption
    <3>2. QED
      BY <1>2, <2>1, <2>3, <3>1 DEF Register
  <2>4. QED
    BY <2>2, <2>3
<1>4. KubeTypeOK'
  BY DEF Types, TypeOK, KubeTypeOK, Register, Return
<1>5. QED
  BY <1>1, <1>3, <1>4 DEF Types, TypeOK, CallMatches, Register

LEMMA NextTypes == Types /\ [Next]_vars => Types'
<1>1. SUFFICES ASSUME Types, [Next]_vars PROVE Types'
  OBVIOUS
<1>2. CASE Next
  BY <1>1, <1>2, PlayTypes, CallTypes, KubeTypes, RegisterTypes DEF Next, Run, Done, vars,
     module_vars, run_vars, Types, TypeOK, KubeTypeOK, CallMatches, ItemCall
<1>3. CASE UNCHANGED vars
  BY <1>1, <1>3 DEF vars, module_vars, run_vars, Types, TypeOK, KubeTypeOK, CallMatches, ItemCall
<1>4. QED
  BY <1>1, <1>2, <1>3

(* Every variable keeps its type. *)
THEOREM TypeCorrect == Spec => []TypeOK
<1>1. Types => TypeOK
  BY DEF Types
<1>2. QED
  BY <1>1, InitTypes, NextTypes, PTL DEF Spec
-----------------------------------------------------------------------------
(* Of two services that ask for the same address one exists at most. *)
OneHolder ==
  \A o, p \in DNSObjects :
    o # p /\ ClusterIP[o] = ClusterIP[p] /\ ClusterIP[o] # "none"
      => objects[o] = Absent \/ objects[p] = Absent

(* What the call under way has done so far is as it should be, and what it *)
(* reports is true; a look without an answer is remembered.                *)
CallTrue ==
  /\ status = "looking" => call.state = "absent" /\ todo = call.objs
  /\ \A o \in call.objs :
       /\ status = "running" /\ o \notin todo /\ ~refused /\ call.state = "latest"
            => objects[o] = release
       /\ status = "running" /\ o \notin todo /\ call.state = "absent" => objects[o] = Absent
       /\ status = "ok" /\ call.state = "latest" => objects[o] = release
       /\ status = "ok" /\ call.state = "absent" => objects[o] = Absent \/ blind

(* The items the loop has behind it are deployed, unless one of them got   *)
(* lost; so is everything once the run is complete.                        *)
Started ==
  /\ step \in Loops => Rng(items) \subseteq Rng(Items(step))
  /\ step = "start" /\ ~lost => \A o \in Wanted(mode) \ Rng(items) : objects[o] = release
  /\ step = "complete" => \A o \in Wanted(mode) : objects[o] = release

(* The items the deletions have behind them are gone, unless one got lost  *)
(* or a look had no answer; what the mode does not want stays gone.        *)
GoneBehind ==
  ~blind =>
    /\ step = "cleanup coredns" /\ ~lost =>
         \A o \in Rng(OldCoreDNS) \ Rng(items) : objects[o] = Absent
    /\ step = "cleanup kube-dns" /\ ~lost =>
         \A o \in Rng(OldCoreDNS) \cup (Rng(OldKubeDNS) \ Rng(items)) : objects[o] = Absent
    /\ step \in {"start", "complete"} =>
         \A o \in Cleaned \ Wanted(mode) : objects[o] = Absent

IInv == Types /\ OneHolder /\ CallTrue /\ Started /\ GoneBehind

LEMMA CleanedAreObjects == Cleaned \subseteq DNSObjects
<1>1. OldCoreDNS \in Seq(DNSObjects)
  BY DEF OldCoreDNS, DNSObjects, Core
<1>2. OldKubeDNS \in Seq(DNSObjects)
  BY DEF OldKubeDNS, DNSObjects, KubeDNS
<1>3. QED
  BY <1>1, <1>2 DEF Cleaned, Rng

LEMMA WantedAreObjects == ASSUME mode \in Modes PROVE Wanted(mode) \subseteq DNSObjects
<1>1. Manifests(mode) \in Seq(DNSObjects)
  <2>1. Items("start") = Manifests(mode)
    BY DEF Items
  <2>2. QED
    BY <2>1, ItemsType
<1>2. QED
  BY <1>1 DEF Wanted, Rng

LEMMA WantedService ==
  ASSUME mode \in Modes, Wanted(mode) # {}
  PROVE  "coredns svc" \in Wanted(mode) \/ "kube-dns svc" \in Wanted(mode)
<1>1. CASE mode = "kubedns"
  <2>1. Manifests(mode)[2] = "kube-dns svc" /\ 2 \in DOMAIN Manifests(mode)
    BY <1>1 DEF Manifests
  <2>2. QED
    BY <2>1 DEF Wanted, Rng
<1>2. CASE mode \in {"coredns", "coredns_dual"}
  <2>1. Manifests(mode)[3] = "coredns svc" /\ 3 \in DOMAIN Manifests(mode)
    BY <1>2 DEF Manifests
  <2>2. QED
    BY <2>1 DEF Wanted, Rng
<1>3. CASE mode = "manual"
  BY <1>3 DEF Manifests, Wanted, Rng
<1>4. QED
  BY <1>1, <1>2, <1>3, ModesAssumption

LEMMA TwoServices ==
  /\ "coredns svc" \in DNSObjects /\ "kube-dns svc" \in DNSObjects
  /\ ClusterIP["coredns svc"] = "dns" /\ ClusterIP["kube-dns svc"] = "dns"
  BY DEF DNSObjects, Core, KubeDNS, ClusterIP

LEMMA InitInv == Init => IInv
<1>1. SUFFICES ASSUME Init PROVE IInv
  OBVIOUS
<1>2. OneHolder /\ CallTrue
  BY <1>1 DEF Init, KubeInit, OneHolder, CallTrue
<1>3. Started /\ GoneBehind
  BY <1>1 DEF Init, Started, GoneBehind, Loops
<1>4. QED
  BY <1>1, <1>2, <1>3, InitTypes DEF IInv

LEMMA LoopsEntered ==
  ASSUME IInv, ApiAnswers \/ EndLoop
  PROVE  Started' /\ GoneBehind'
<1>1. UNCHANGED <<objects, release, mode, blind>>
  BY DEF ApiAnswers, EndLoop, module_vars
<1>2. CASE ApiAnswers
  <2>1. step' = "cleanup coredns" /\ items' = OldCoreDNS
    BY <1>2 DEF ApiAnswers, Enter, Items
  <2>2. QED
    BY <2>1 DEF Started, GoneBehind, Items
<1>3. CASE EndLoop /\ lost
  BY <1>3 DEF EndLoop, Enter, Started, GoneBehind, Loops
<1>4. CASE EndLoop /\ ~lost /\ step = "cleanup coredns"
  <2>1. step' = "cleanup kube-dns" /\ items' = OldKubeDNS
    BY <1>4 DEF EndLoop, Enter, Items, After
  <2>2. ~blind => \A o \in Rng(OldCoreDNS) : objects[o] = Absent
    BY <1>4, EmptyRng DEF EndLoop, IInv, GoneBehind
  <2>3. QED
    BY <1>4, <2>1, <2>2 DEF EndLoop, module_vars, Started, GoneBehind, Items
<1>5. CASE EndLoop /\ ~lost /\ step = "cleanup kube-dns"
  <2>1. step' = "start" /\ items' = Manifests(mode)
    BY <1>5 DEF EndLoop, Enter, Items, After
  <2>2. ~blind => \A o \in Cleaned : objects[o] = Absent
    BY <1>5, EmptyRng DEF EndLoop, IInv, GoneBehind, Cleaned
  <2>3. QED
    BY <1>5, <2>1, <2>2 DEF EndLoop, module_vars, Started, GoneBehind, Items, Wanted
<1>6. CASE EndLoop /\ ~lost /\ step = "start"
  <2>1. step' = "complete"
    BY <1>6 DEF EndLoop, Enter, After
  <2>2. \A o \in Wanted(mode) : objects[o] = release
    BY <1>6, EmptyRng DEF EndLoop, IInv, Started
  <2>3. QED
    BY <1>6, <2>1, <2>2 DEF EndLoop, IInv, module_vars, Started, GoneBehind, Loops, Wanted
<1>7. QED
  BY <1>2, <1>3, <1>4, <1>5, <1>6 DEF EndLoop, Loops

LEMMA PlayInv ==
  ASSUME IInv, StartRun \/ ApiAnswers \/ EndLoop \/ StopRun \/ Edit
  PROVE  IInv'
<1>1. UNCHANGED <<objects, call, status, todo, refused>>
  BY DEF StartRun, ApiAnswers, EndLoop, StopRun, Edit, module_vars
<1>2. status = "idle"
  BY DEF IInv, Types, CallMatches, StartRun, ApiAnswers, EndLoop, StopRun, Edit, Ended, Loops
<1>3. OneHolder' /\ CallTrue'
  BY <1>1, <1>2 DEF IInv, OneHolder, CallTrue
<1>4. Started' /\ GoneBehind'
  <2>1. CASE StartRun \/ StopRun \/ Edit
    <3>1. step' \in {"wait", "failed", "changed"}
      BY <2>1 DEF StartRun, StopRun, Edit, Enter
    <3>2. QED
      BY <3>1 DEF Started, GoneBehind, Loops
  <2>2. QED
    BY <2>1, LoopsEntered
<1>5. QED
  BY <1>3, <1>4, PlayTypes DEF IInv

LEMMA CallInv == ASSUME IInv, CallItem PROVE IInv'
<1>1. UNCHANGED <<objects, release, mode, step, items, lost, blind>>
  BY DEF CallItem, Begin, run_vars
<1>2. CallTrue'
  BY DEF CallItem, Begin, ItemCall, LacksOption, CallTrue, Applying, Removing
<1>3. OneHolder' /\ Started' /\ GoneBehind'
  BY <1>1 DEF IInv, OneHolder, Started, GoneBehind, Items, Wanted
<1>4. QED
  BY <1>2, <1>3, CallTypes DEF IInv

(* A call is the one of the present item, which the mode wants if the task *)
(* applies.                                                                *)
LEMMA CallOfItem ==
  ASSUME IInv, status # "idle"
  PROVE  /\ step \in Loops /\ items # <<>>
         /\ call.objs = {Head(items)}
         /\ \/ call.state = "latest" /\ step = "start" /\ Head(items) \in Wanted(mode)
            \/ call.state = "absent" /\ call.by = "name" /\ step # "start"
         /\ Rng(items) = {Head(items)} \cup Rng(Tail(items))
<1>1. step \in Loops /\ items # <<>> /\ call = ItemCall
  BY DEF IInv, Types, CallMatches
<1>2. Rng(items) = {Head(items)} \cup Rng(Tail(items))
  BY <1>1, HeadTail DEF IInv, Types, TypeOK
<1>3. step = "start" => Head(items) \in Wanted(mode)
  BY <1>1, <1>2 DEF IInv, Started, Items, Wanted
<1>4. CASE step = "start"
  <2>1. call.state = "latest" /\ call.objs = {Head(items)}
    BY <1>1, <1>4 DEF ItemCall
  <2>2. QED
    BY <1>1, <1>2, <1>3, <1>4, <2>1
<1>5. CASE step # "start"
  <2>1. call.state = "absent" /\ call.by = "name" /\ call.objs = {Head(items)}
    BY <1>1, <1>5 DEF ItemCall
  <2>2. QED
    BY <1>1, <1>2, <1>5, <2>1
<1>6. QED
  BY <1>4, <1>5

LEMMA BlindStays == ASSUME IInv, KubeRuns PROVE blind => blind'
<1>1. blind \in BOOLEAN
  BY DEF IInv, Types, TypeOK
<1>2. QED
  BY <1>1 DEF KubeRuns

LEMMA LookInv == ASSUME IInv, KubeRuns, Look \/ LookUnanswered PROVE IInv'
<1>1. UNCHANGED <<objects, release, call, todo, refused, mode, step, items, lost>>
  BY DEF Look, LookUnanswered, KubeRuns
<1>2. call.state = "absent" /\ call.by = "name" /\ todo = call.objs
  BY CallOfItem DEF IInv, CallTrue, Look, LookUnanswered
<1>3. CallTrue'
  <2>1. CASE Look
    BY <1>1, <1>2, <2>1 DEF Look, Seen, CallTrue
  <2>2. CASE LookUnanswered
    BY <1>1, <1>2, <2>2 DEF LookUnanswered, KubeRuns, CallTrue
  <2>3. QED
    BY <2>1, <2>2
<1>4. OneHolder' /\ Started'
  BY <1>1 DEF IInv, OneHolder, Started, Items, Wanted
<1>5. GoneBehind'
  BY <1>1, BlindStays DEF IInv, GoneBehind, Wanted
<1>6. QED
  BY <1>3, <1>4, <1>5, KubeTypes DEF IInv

LEMMA ApplyInv == ASSUME IInv, KubeRuns, NEW o \in DNSObjects, Apply(o) PROVE IInv'
<1>1. UNCHANGED <<release, call, status, mode, step, items, lost>>
  BY DEF Apply, KubeRuns
<1>2. status = "running" /\ call.state \in Applying /\ todo \subseteq call.objs
  BY DEF Apply, IInv, Types, TypeOK, KubeTypeOK
<1>3. /\ step = "start" /\ call.state = "latest" /\ call.objs = {o} /\ o = Head(items)
      /\ o \in Rng(items) /\ o \in Wanted(mode)
  BY <1>2, CallOfItem DEF Apply, Applying
<1>4. objects \in [DNSObjects -> Nat]
  BY DEF IInv, Types, TypeOK, KubeTypeOK
<1>5. \A p \in DNSObjects \ {o} : objects'[p] = objects[p]
  BY <1>4 DEF Apply
<1>6. ~refused' => objects'[o] = release
  BY <1>4 DEF Apply
<1>7. CallTrue'
  BY <1>1, <1>2, <1>3, <1>6 DEF CallTrue
<1>8. OneHolder'
  <2>1. CASE UNCHANGED objects
    BY <2>1 DEF IInv, OneHolder
  <2>2. CASE Admits(o)
    BY <1>5, <2>2 DEF IInv, OneHolder, Admits
  <2>3. QED
    BY <2>1, <2>2 DEF Apply
<1>9. Started'
  BY <1>1, <1>3, <1>5, WantedAreObjects DEF IInv, Types, TypeOK, Started, Items, Wanted
<1>10. GoneBehind'
  BY <1>1, <1>3, <1>5, BlindStays, CleanedAreObjects DEF IInv, GoneBehind, Wanted
<1>11. QED
  BY <1>7, <1>8, <1>9, <1>10, KubeTypes DEF IInv

LEMMA RemoveInv == ASSUME IInv, KubeRuns, NEW o \in DNSObjects, Remove(o) PROVE IInv'
<1>1. UNCHANGED <<release, call, status, mode, step, items, lost>>
  BY DEF Remove, KubeRuns
<1>2. status = "running" /\ call.state \in Removing /\ todo \subseteq call.objs
  BY DEF Remove, IInv, Types, TypeOK, KubeTypeOK
<1>3. step \in Loops \ {"start"} /\ call.state = "absent" /\ call.objs = {o}
  BY <1>2, CallOfItem DEF Remove, Removing
<1>4. objects \in [DNSObjects -> Nat]
  BY DEF IInv, Types, TypeOK, KubeTypeOK
<1>5. objects'[o] = Absent /\ \A p \in DNSObjects \ {o} : objects'[p] = objects[p]
  BY <1>4 DEF Remove
<1>6. CallTrue'
  BY <1>1, <1>2, <1>3, <1>5 DEF CallTrue
<1>7. OneHolder'
  BY <1>5 DEF IInv, OneHolder
<1>8. Started'
  BY <1>1, <1>3 DEF IInv, Started, Items, Wanted, Loops
<1>9. GoneBehind'
  <2>1. \A p \in Cleaned : objects[p] = Absent => objects'[p] = Absent
    BY <1>5, CleanedAreObjects
  <2>2. QED
    BY <1>1, <1>3, <2>1, BlindStays DEF IInv, GoneBehind, Wanted, Loops, Cleaned
<1>10. QED
  BY <1>6, <1>7, <1>8, <1>9, KubeTypes DEF IInv

LEMMA EndCallInv == ASSUME IInv, KubeRuns, Break \/ Exit PROVE IInv'
<1>1. UNCHANGED <<objects, release, call, look, todo, refused, mode, step, items, lost>>
  BY DEF Break, Exit, KubeRuns
<1>2. CallTrue'
  BY <1>1 DEF Break, Exit, IInv, CallTrue
<1>3. OneHolder' /\ Started'
  BY <1>1 DEF IInv, OneHolder, Started, Items, Wanted
<1>4. GoneBehind'
  BY <1>1, BlindStays DEF IInv, GoneBehind, Wanted
<1>5. QED
  BY <1>2, <1>3, <1>4, KubeTypes DEF IInv

LEMMA RegisterInv == ASSUME IInv, Register PROVE IInv'
<1>1. UNCHANGED <<objects, release, call, mode, step, blind>> /\ status' = "idle"
  BY DEF Register, Return
<1>2. OneHolder' /\ CallTrue'
  BY <1>1 DEF IInv, OneHolder, CallTrue
<1>3. CASE UNCHANGED <<items, lost>>
  BY <1>1, <1>2, <1>3, RegisterTypes DEF IInv, Started, GoneBehind, Items, Wanted
<1>4. CASE items' = Tail(items) /\ lost' = (lost \/ status = "failed")
  <2>1. /\ step \in Loops /\ call.objs = {Head(items)}
        /\ Rng(items) = {Head(items)} \cup Rng(items')
        /\ \/ call.state = "latest" /\ step = "start"
           \/ call.state = "absent" /\ step # "start"
    BY <1>4, CallOfItem DEF Register, Return
  <2>2. ~lost' => ~lost /\ status = "ok"
    BY <1>4 DEF Register, Return
  <2>3. ~lost' /\ step = "start" => objects[Head(items)] = release
    BY <2>1, <2>2 DEF IInv, CallTrue
  <2>4. ~lost' /\ step # "start" /\ ~blind => objects[Head(items)] = Absent
    BY <2>1, <2>2 DEF IInv, CallTrue
  <2>5. Started'
    BY <1>1, <2>1, <2>2, <2>3 DEF IInv, Started, Items, Wanted, Loops
  <2>6. GoneBehind'
    BY <1>1, <2>1, <2>2, <2>4 DEF IInv, GoneBehind, Wanted, Loops
  <2>7. QED
    BY <1>2, <2>5, <2>6, RegisterTypes DEF IInv
<1>5. QED
  BY <1>3, <1>4 DEF Register

LEMMA NextInv == IInv /\ [Next]_vars => IInv'
<1>1. SUFFICES ASSUME IInv, [Next]_vars PROVE IInv'
  OBVIOUS
<1>2. CASE KubeRuns
  BY <1>1, <1>2, LookInv, ApplyInv, RemoveInv, EndCallInv DEF KubeRuns, KubeStep
<1>3. CASE CallItem \/ Register
  BY <1>1, <1>3, CallInv, RegisterInv
<1>4. CASE StartRun \/ ApiAnswers \/ EndLoop \/ StopRun \/ Edit
  BY <1>1, <1>4, PlayInv
<1>5. CASE UNCHANGED vars
  <2>1. Types'
    BY <1>1, NextTypes DEF IInv
  <2>2. OneHolder' /\ CallTrue' /\ Started' /\ GoneBehind'
    BY <1>1, <1>5 DEF vars, module_vars, run_vars, IInv, OneHolder, CallTrue, Started, GoneBehind,
       Items, Wanted
  <2>3. QED
    BY <2>1, <2>2 DEF IInv
<1>6. QED
  BY <1>1, <1>2, <1>3, <1>4, <1>5 DEF Next, Run, Done

(* A completed run serves the mode and release it was run with, and no     *)
(* other service keeps the cluster's DNS address.                          *)
THEOREM CompleteServesHolds == Spec => []CompleteServes
<1>1. ASSUME IInv PROVE CompleteServes
  <2>1. SUFFICES ASSUME step = "complete" PROVE CompleteServes
    BY DEF CompleteServes
  <2>2. \A o \in Wanted(mode) : objects[o] = release
    BY <1>1, <2>1 DEF IInv, Started
  <2>3. release # Absent
    BY <1>1 DEF IInv, Types, TypeOK, KubeTypeOK
  <2>4. Wanted(mode) # {} => "coredns svc" \in Wanted(mode) \/ "kube-dns svc" \in Wanted(mode)
    BY <1>1, WantedService DEF IInv, Types, TypeOK
  <2>5. objects["coredns svc"] = Absent \/ objects["kube-dns svc"] = Absent
    BY <1>1, TwoServices DEF IInv, OneHolder
  <2>6. QED
    BY <2>1, <2>2, <2>3, <2>4, <2>5 DEF CompleteServes
<1>2. QED
  BY <1>1, InitInv, NextInv, PTL DEF Spec

(* A completed run that had an answer to each of its looks has left none   *)
(* of the objects it cleans up that the mode does not want.                *)
THEOREM CompleteIsCleanHolds == Spec => []CompleteIsClean
<1>1. IInv => CompleteIsClean
  BY DEF IInv, GoneBehind, CompleteIsClean
<1>2. QED
  BY <1>1, InitInv, NextInv, PTL DEF Spec
=============================================================================

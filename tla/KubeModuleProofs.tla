--------------------------- MODULE KubeModuleProofs ---------------------------
(***************************************************************************)
(* What a call of KubeModule reports is so, for any objects, addresses and *)
(* bounds.                                                                 *)
(***************************************************************************)
EXTENDS KubeModule, TLAPS

(* A call that looks is a deletion that has not touched anything; and      *)
(* while the command runs, the objects it has handled are as the call asks *)
(* unless it has met an error.                                             *)
Looking == status = "looking" => call.state \in Removing /\ todo = call.objs

Handled ==
  status = "running" =>
    \A o \in call.objs \ todo :
      /\ call.state \in Applying /\ ~refused => objects[o] = release
      /\ call.state \in Removing => objects[o] = Absent

IInv ==
  /\ KubeTypeOK
  /\ Looking
  /\ Handled
  /\ AppliedMeansCurrent
  /\ AbsentMeansGone

LEMMA StatesDisjoint == Applying \cap Removing = {}
  BY DEF Applying, Removing

LEMMA InitInv == KubeInit => IInv
<1>1. SUFFICES ASSUME KubeInit PROVE IInv
  OBVIOUS
<1>2. call \in CallType
  BY <1>1 DEF KubeInit, CallType, Applying
<1>3. objects \in [Objects -> Nat] /\ release \in Nat \ {Absent}
  BY <1>1 DEF KubeInit, Absent
<1>4. KubeTypeOK
  BY <1>1, <1>2, <1>3 DEF KubeInit, KubeTypeOK
<1>5. Looking /\ Handled /\ AppliedMeansCurrent /\ AbsentMeansGone
  BY <1>1 DEF KubeInit, Looking, Handled, AppliedMeansCurrent, AbsentMeansGone
<1>6. QED
  BY <1>4, <1>5 DEF IInv

LEMMA BeginInv == ASSUME IInv, NEW c \in Calls, Begin(c) PROVE IInv'
<1>1. KubeTypeOK'
  BY DEF IInv, KubeTypeOK, Begin, CallType, Calls
<1>2. Looking' /\ Handled'
  BY DEF Begin, Looking, Handled
<1>3. AppliedMeansCurrent' /\ AbsentMeansGone'
  BY DEF Begin, AppliedMeansCurrent, AbsentMeansGone, LacksOption
<1>4. QED
  BY <1>1, <1>2, <1>3 DEF IInv

LEMMA LookInv == ASSUME IInv, Look \/ LookUnanswered PROVE IInv'
<1>1. KubeTypeOK'
  BY DEF IInv, KubeTypeOK, Look, LookUnanswered
<1>2. call.state \in Removing /\ call.state \notin Applying /\ todo = call.objs
  BY StatesDisjoint DEF IInv, Looking, Look, LookUnanswered
<1>3. Looking' /\ Handled'
  BY <1>2 DEF Look, LookUnanswered, Looking, Handled
<1>4. AppliedMeansCurrent'
  BY <1>2 DEF Look, LookUnanswered, AppliedMeansCurrent
<1>5. AbsentMeansGone'
  BY DEF Look, LookUnanswered, AbsentMeansGone, Seen
<1>6. QED
  BY <1>1, <1>3, <1>4, <1>5 DEF IInv

LEMMA ApplyInv == ASSUME IInv, NEW o \in Objects, Apply(o) PROVE IInv'
<1>1. KubeTypeOK'
  BY DEF IInv, KubeTypeOK, Apply
<1>2. call.state \notin Removing
  BY StatesDisjoint DEF Apply
<1>3. Handled'
  <2>1. SUFFICES ASSUME NEW p \in call.objs \ (todo \ {o}), ~refused'
                 PROVE  objects'[p] = release
    BY <1>2 DEF Apply, Handled
  <2>2. objects' = [objects EXCEPT ![o] = release] /\ ~refused
    BY <2>1 DEF Apply
  <2>3. CASE p = o
    BY <2>2, <2>3 DEF IInv, KubeTypeOK
  <2>4. CASE p # o
    BY <2>1, <2>2, <2>4 DEF IInv, KubeTypeOK, Handled, Apply
  <2>5. QED
    BY <2>3, <2>4
<1>4. Looking' /\ AppliedMeansCurrent' /\ AbsentMeansGone'
  BY DEF Apply, Looking, AppliedMeansCurrent, AbsentMeansGone
<1>5. QED
  BY <1>1, <1>3, <1>4 DEF IInv

LEMMA RemoveInv == ASSUME IInv, NEW o \in Objects, Remove(o) PROVE IInv'
<1>1. KubeTypeOK'
  BY DEF IInv, KubeTypeOK, Remove, Absent
<1>2. call.state \notin Applying
  BY StatesDisjoint DEF Remove
<1>3. Handled'
  <2>1. SUFFICES ASSUME NEW p \in call.objs \ (todo \ {o})
                 PROVE  objects'[p] = Absent
    BY <1>2 DEF Remove, Handled
  <2>3. CASE p = o
    BY <2>3 DEF IInv, KubeTypeOK, Remove
  <2>4. CASE p # o
    BY <2>1, <2>4 DEF IInv, KubeTypeOK, Handled, Remove
  <2>5. QED
    BY <2>3, <2>4
<1>4. Looking' /\ AppliedMeansCurrent' /\ AbsentMeansGone'
  BY DEF Remove, Looking, AppliedMeansCurrent, AbsentMeansGone
<1>5. QED
  BY <1>1, <1>3, <1>4 DEF IInv

LEMMA EndInv == ASSUME IInv, Break \/ Exit \/ Return \/ NewRelease PROVE IInv'
<1>1. KubeTypeOK'
  BY DEF IInv, KubeTypeOK, Break, Exit, Return, NewRelease, Absent
<1>2. Looking' /\ Handled'
  BY DEF IInv, Looking, Handled, Break, Exit, Return, NewRelease
<1>3. AppliedMeansCurrent'
  BY DEF IInv, Handled, AppliedMeansCurrent, Break, Exit, Return, NewRelease
<1>4. AbsentMeansGone'
  BY DEF IInv, Handled, AbsentMeansGone, Break, Exit, Return, NewRelease
<1>5. QED
  BY <1>1, <1>2, <1>3, <1>4 DEF IInv

LEMMA NextInv == IInv /\ [KubeNext]_kube_vars => IInv'
<1>1. SUFFICES ASSUME IInv, [KubeNext]_kube_vars PROVE IInv'
  OBVIOUS
<1>2. CASE \E c \in Calls : Begin(c)
  BY <1>1, <1>2, BeginInv
<1>3. CASE KubeStep
  BY <1>1, <1>3, LookInv, ApplyInv, RemoveInv, EndInv DEF KubeStep
<1>4. CASE Return \/ NewRelease
  BY <1>1, <1>4, EndInv
<1>5. CASE UNCHANGED kube_vars
  BY <1>1, <1>5 DEF IInv, KubeTypeOK, Looking, Handled, AppliedMeansCurrent, AbsentMeansGone,
     kube_vars
<1>6. QED
  BY <1>1, <1>2, <1>3, <1>4, <1>5 DEF KubeNext

LEMMA Inductive == KubeSpec => []IInv
<1>1. QED
  BY InitInv, NextInv, PTL DEF KubeSpec

(* Every variable of the module keeps its type. *)
THEOREM TypeCorrect == KubeSpec => []KubeTypeOK
<1>1. IInv => KubeTypeOK
  BY DEF IInv
<1>2. QED
  BY <1>1, Inductive, PTL

(* A call that reports success of an apply has brought every object of its *)
(* files to the revision of the files (create, replace, _execute).         *)
THEOREM AppliedIsCurrent == KubeSpec => []AppliedMeansCurrent
<1>1. IInv => AppliedMeansCurrent
  BY DEF IInv
<1>2. QED
  BY <1>1, Inductive, PTL

(* A call that reports success of a deletion, after a look that was        *)
(* answered and was not one at several files, has left nothing of what it  *)
(* selects (delete, exists).                                               *)
THEOREM AbsentIsGone == KubeSpec => []AbsentMeansGone
<1>1. IInv => AbsentMeansGone
  BY DEF IInv
<1>2. QED
  BY <1>1, Inductive, PTL
=============================================================================

------------------------------ MODULE KubeModule ------------------------------
(***************************************************************************)
(* One call of the Ansible module library/kube.py: the look at the cluster *)
(* that precedes a deletion, the kubectl command with the objects it       *)
(* handles one after the other, and the result the task gets.              *)
(*                                                                         *)
(* Abstractions:                                                           *)
(*  - An object is absent or at the revision of the definition file that   *)
(*    was applied last; the files are at revision release.                 *)
(*  - A call selects its objects by definition files, by type and name, by *)
(*    type and label (or type alone), or by nothing. Namespaces and the    *)
(*    option "all", which no task of the repository passes, are left out.  *)
(*  - kubectl and the apiserver are external. They refuse an object whose  *)
(*    cluster IP another one holds, go on with the next object, and exit   *)
(*    with an error at the end; or they stop answering.                    *)
(***************************************************************************)
EXTENDS Naturals, FiniteSets

CONSTANTS
  Objects,     \* the API objects the calls are about
  Address,     \* Objects -> the cluster IP the object asks for
  NoAddress,   \* the objects that ask for none have this one
  MaxOutages,  \* bound: requests that stay without an answer
  MaxRelease   \* bound: revisions of the definition files

VARIABLES
  objects,  \* Objects -> revision applied last, or Absent
  release,  \* revision of the definition files
  call,     \* parameters of the call under way, or of the last one
  status,   \* where the call is, or its result
  look,     \* what its "kubectl get" came to
  todo,     \* objects the command has still to handle
  refused,  \* whether the command has met an error
  outages

kube_vars == <<objects, release, call, status, look, todo, refused, outages>>

Absent   == 0
Applying == {"present", "latest", "reloaded"}
Removing == {"absent", "stopped"}

CallType ==
  [state: Applying \cup Removing, by: {"files", "name", "label", "nothing"},
   objs: SUBSET Objects, force: BOOLEAN]

KubeTypeOK ==
  /\ objects \in [Objects -> Nat]
  /\ release \in Nat \ {Absent}
  /\ call \in CallType
  /\ status \in {"idle", "looking", "running", "ok", "failed"}
  /\ look \in {"none", "found", "missing", "unanswered"}
  /\ todo \in SUBSET call.objs
  /\ refused \in BOOLEAN
  /\ outages \in Nat

(* No file and no object yet; the module has not been called. *)
KubeInit ==
  /\ objects = [o \in Objects |-> Absent]
  /\ release = 1
  /\ call = [state |-> "latest", by |-> "nothing", objs |-> {}, force |-> FALSE]
  /\ status = "idle" /\ look = "none"
  /\ todo = {} /\ refused = FALSE
  /\ outages = 0

(* create and replace want definition files; delete, stop and exists want  *)
(* those or a type of object.                                              *)
LacksOption(c) == c.by = "nothing" \/ (c.state \in Applying /\ c.by # "files")

(* main: a call starts. present is an apply without a look, as latest and  *)
(* reloaded are; delete and stop look first unless forced.                 *)
Begin(c) ==
  /\ status = "idle"
  /\ call' = c
  /\ status' = IF LacksOption(c) THEN "failed"
               ELSE IF c.state \in Removing /\ ~c.force THEN "looking" ELSE "running"
  /\ look' = "none"
  /\ todo' = c.objs
  /\ refused' = FALSE
  /\ UNCHANGED <<objects, release, outages>>

SeenAll(c) == \A o \in c.objs : objects[o] # Absent

(* What "kubectl get" makes of the objects: with files it fails when one   *)
(* of them is missing, with a type it prints those there are.              *)
Seen(c) ==
  IF c.by = "files" THEN \A o \in c.objs : objects[o] # Absent
                    ELSE \E o \in c.objs : objects[o] # Absent

(* exists answers, and delete returns with success when it says no. *)
Look ==
  /\ status = "looking"
  /\ look' = IF Seen(call) THEN "found" ELSE "missing"
  /\ status' = IF Seen(call) THEN "running" ELSE "ok"
  /\ UNCHANGED <<objects, release, call, todo, refused, outages>>

(* exists gets no answer: _execute_nofail returns None, which reads as     *)
(* "nothing there".                                                        *)
LookUnanswered ==
  /\ status = "looking" /\ outages < MaxOutages
  /\ outages' = outages + 1
  /\ look' = "unanswered"
  /\ status' = "ok"
  /\ UNCHANGED <<objects, release, call, todo, refused>>

(* The apiserver refuses a cluster IP that another service holds. *)
Admits(o) ==
  \A p \in Objects \ {o} : Address[p] = Address[o] /\ Address[o] # NoAddress => objects[p] = Absent

(* "kubectl apply" gets to an object. *)
Apply(o) ==
  /\ status = "running" /\ call.state \in Applying /\ o \in todo
  /\ todo' = todo \ {o}
  /\ IF Admits(o) THEN objects' = [objects EXCEPT ![o] = release] /\ UNCHANGED refused
                  ELSE refused' = TRUE /\ UNCHANGED objects
  /\ UNCHANGED <<release, call, status, look, outages>>

(* delete adds --ignore-not-found with force, but not next to files; a     *)
(* label names no object that could be missed.                             *)
MissIsError(c) == c.by = "files" \/ (c.by = "name" /\ ~c.force)

(* "kubectl delete" or "kubectl stop" gets to an object. *)
Remove(o) ==
  /\ status = "running" /\ call.state \in Removing /\ o \in todo
  /\ todo' = todo \ {o}
  /\ objects' = [objects EXCEPT ![o] = Absent]
  /\ refused' = (refused \/ (objects[o] = Absent /\ MissIsError(call)))
  /\ UNCHANGED <<release, call, status, look, outages>>

(* The command breaks off with objects left: _execute fails the task. *)
Break ==
  /\ status = "running" /\ todo # {} /\ outages < MaxOutages
  /\ outages' = outages + 1
  /\ status' = "failed"
  /\ UNCHANGED <<objects, release, call, look, todo, refused>>

ExitQuiet ==
  /\ status = "running" /\ todo = {}
  /\ status' = "ok"
  /\ UNCHANGED <<objects, release, call, look, todo, refused, outages>>

(* kubectl exits: _execute fails the task on an error, or main reports     *)
(* success.                                                                *)
Exit ==
  /\ status = "running" /\ todo = {}
  /\ status' = IF refused THEN "failed" ELSE "ok"
  /\ UNCHANGED <<objects, release, call, look, todo, refused, outages>>

KubeStep ==
  \/ Look
  \/ LookUnanswered
  \/ \E o \in Objects : Apply(o) \/ Remove(o)
  \/ Break
  \/ Exit

(* The task has registered the result, and the module ends. *)
Return ==
  /\ status \in {"ok", "failed"}
  /\ status' = "idle"
  /\ UNCHANGED <<objects, release, call, look, todo, refused, outages>>

(* The definition files change between calls. *)
NewRelease ==
  /\ status = "idle" /\ release < MaxRelease
  /\ release' = release + 1
  /\ UNCHANGED <<objects, call, status, look, todo, refused, outages>>

(* The module on its own: every combination of options it can be called    *)
(* with, in any sequence.                                                  *)
Calls ==
  {c \in CallType :
     /\ c.by = "name" => Cardinality(c.objs) = 1
     /\ c.by = "nothing" <=> c.objs = {}}

KubeNext == (\E c \in Calls : Begin(c)) \/ KubeStep \/ Return \/ NewRelease

KubeSpec == KubeInit /\ [][KubeNext]_kube_vars
-----------------------------------------------------------------------------
(* What a successful apply reports is done: every object of its files is   *)
(* at the revision of the files. One that was refused, or that was left    *)
(* when kubectl broke off, fails the call (_execute, create, replace).     *)
AppliedMeansCurrent ==
  status = "ok" /\ call.state \in Applying => \A o \in call.objs : objects[o] = release

(* What a successful deletion reports is done, provided that its look was  *)
(* answered and that it was not a look at several files: then nothing the  *)
(* call selects is left (delete, exists). Without the provisos the code    *)
(* promises less than its documentation: see LookUnanswered and Seen.      *)
AbsentMeansGone ==
  status = "ok" /\ call.state \in Removing /\ look # "unanswered"
    /\ (look = "missing" => call.by # "files")
  => \A o \in call.objs : objects[o] = Absent
=============================================================================

------------------------------ MODULE ClusterDNS ------------------------------
(***************************************************************************)
(* The cluster's DNS as roles/kubernetes-apps/ansible deploys it on the    *)
(* first master: every run deletes the DNS objects of both servers and     *)
(* applies those of dns_mode, each with a call of KubeModule, while the    *)
(* administrator changes the mode and the release between runs.            *)
(*                                                                         *)
(* Abstractions:                                                           *)
(*  - Of a server's objects the ones kept are those cleanup_dns.yml        *)
(*    deletes, those of the second CoreDNS and kube-dns's autoscaler; the  *)
(*    accounts and roles, which nothing deletes, are left out.             *)
(*  - kubeadm_enabled is false: its two deletions repeat the others.       *)
(*  - dns_mode manual stands for none too, kubedns for dnsmasq_kubedns     *)
(*    (the DaemonSet of roles/dnsmasq is another role's).                  *)
(***************************************************************************)
EXTENDS Naturals, FiniteSets, Sequences

CONSTANTS
  Modes,        \* the values of dns_mode the administrator uses
  Retries,      \* attempts of "Start Resources" at an item
  MaxRelease,   \* bound: releases
  MaxEdits,     \* bound: changes between runs
  MaxFailures,  \* bound: runs that stop half-way for another reason
  MaxOutages    \* bound: requests that stay without an answer

ASSUME ModesAssumption == Modes \subseteq {"kubedns", "coredns", "coredns_dual", "manual"}
ASSUME BoundsAssumption ==
  Retries \in Nat \ {0} /\ MaxRelease \in Nat \ {0} /\ MaxEdits \in Nat /\ MaxFailures \in Nat
    /\ MaxOutages \in Nat

Core   == {"coredns deploy", "coredns configmap", "coredns svc"}
Second == {"coredns-secondary deploy", "coredns-secondary svc"}
KubeDNS == {"kube-dns deploy", "kube-dns svc", "kubedns-autoscaler deploy"}
DNSObjects == Core \cup Second \cup KubeDNS

(* skydns_server, skydns_server_secondary, or no address. *)
ClusterIP ==
  [o \in DNSObjects |-> CASE o \in {"coredns svc", "kube-dns svc"} -> "dns"
                          [] o = "coredns-secondary svc"           -> "dns2"
                          [] OTHER                                 -> "none"]

VARIABLES
  objects, release, call, status, look, todo, refused, outages,  \* KubeModule
  mode,      \* dns_mode
  step,      \* the task of the run under way, or how the last run ended
  items,     \* items the task's loop has left, the present one first
  tries,     \* attempts left for the present item
  lost,      \* whether an item of the loop has failed for good
  blind,     \* whether a look of this run, or of the last one, got no answer
  edits, failures

INSTANCE KubeModule WITH Objects <- DNSObjects, Address <- ClusterIP, NoAddress <- "none"

module_vars == <<objects, release, call, status, look, todo, refused, outages>>
run_vars == <<mode, step, items, tries, lost, blind, edits, failures>>
vars     == <<module_vars, run_vars>>

Ended == {"changed", "failed", "complete"}
Loops == {"cleanup coredns", "cleanup kube-dns", "start"}

TypeOK ==
  /\ KubeTypeOK
  /\ mode \in Modes
  /\ step \in Ended \cup {"wait"} \cup Loops
  /\ items \in Seq(DNSObjects)
  /\ tries \in 0..Retries
  /\ lost \in BOOLEAN /\ blind \in BOOLEAN
  /\ edits \in Nat /\ failures \in Nat

Init ==
  /\ KubeInit
  /\ mode \in Modes
  /\ step = "changed"
  /\ items = <<>> /\ tries = 0
  /\ lost = FALSE /\ blind = FALSE
  /\ edits = 0 /\ failures = 0
-----------------------------------------------------------------------------
OldCoreDNS == <<"coredns deploy", "coredns configmap", "coredns svc">>
OldKubeDNS == <<"kube-dns deploy", "kube-dns svc">>

(* The templates laid down for a mode, in the order of the loop. *)
Manifests(m) ==
  CASE m = "kubedns" -> <<"kube-dns deploy", "kube-dns svc", "kubedns-autoscaler deploy">>
    [] m = "coredns" -> <<"coredns configmap", "coredns deploy", "coredns svc">>
    [] m = "coredns_dual" -> <<"coredns configmap", "coredns deploy", "coredns svc",
                               "coredns-secondary deploy", "coredns-secondary svc">>
    [] OTHER -> <<>>

Rng(s)    == {s[i] : i \in DOMAIN s}
Wanted(m) == Rng(Manifests(m))
Cleaned   == Rng(OldCoreDNS) \cup Rng(OldKubeDNS)

Items(st)    == CASE st = "cleanup coredns"  -> OldCoreDNS
                  [] st = "cleanup kube-dns" -> OldKubeDNS
                  [] st = "start"            -> Manifests(mode)
                  [] OTHER                   -> <<>>

(* Only "Start Resources" has an until; the deletions are tried once. *)
Attempts(st) == IF st = "start" THEN Retries ELSE 1

(* The play goes on to a task, or to its end. *)
Enter(st) ==
  /\ step' = st
  /\ items' = Items(st)
  /\ tries' = Attempts(st)
  /\ lost' = FALSE

(* cluster.yml gets to kubernetes-apps. *)
StartRun ==
  /\ step \in {"changed", "failed"}
  /\ Enter("wait")
  /\ blind' = FALSE
  /\ UNCHANGED <<module_vars, mode, edits, failures>>

(* "Wait for kube-apiserver" is through. *)
ApiAnswers ==
  /\ step = "wait"
  /\ Enter("cleanup coredns")
  /\ UNCHANGED <<module_vars, mode, blind, edits, failures>>

(* The call for the present item of a loop. *)
ItemCall ==
  IF step = "start" THEN [state |-> "latest", by |-> "files", objs |-> {Head(items)}, force |-> FALSE]
                    ELSE [state |-> "absent", by |-> "name",  objs |-> {Head(items)}, force |-> FALSE]

CallItem ==
  /\ step \in Loops /\ items # <<>>
  /\ Begin(ItemCall)
  /\ UNCHANGED run_vars

(* Steps of the call that is under way. *)
KubeRuns ==
  /\ KubeStep
  /\ blind' = (blind \/ look' = "unanswered")
  /\ UNCHANGED <<mode, step, items, tries, lost, edits, failures>>

(* The loop registers a success, or a failure that has no attempt left,    *)
(* and goes on to the next item; or it tries the item again.               *)
Register ==
  /\ step \in Loops
  /\ Return
  /\ IF status = "failed" /\ tries > 1
     THEN tries' = tries - 1 /\ UNCHANGED <<items, lost>>
     ELSE /\ items' = Tail(items)
          /\ tries' = Attempts(step)
          /\ lost' = (lost \/ status = "failed")
  /\ UNCHANGED <<mode, step, blind, edits, failures>>

AfterUncleaned(st) == IF st = "cleanup coredns" THEN "start" ELSE "complete"

After(st) ==
  CASE st = "cleanup coredns"  -> "cleanup kube-dns"
    [] st = "cleanup kube-dns" -> "start"
    [] OTHER                   -> "complete"

EndLoopOfLast ==
  /\ step \in Loops /\ items = <<>>
  /\ Enter(IF call.state = "latest" /\ refused THEN "failed" ELSE After(step))
  /\ UNCHANGED <<module_vars, mode, blind, edits, failures>>

(* The loop is through: it fails the run when one of its items has failed. *)
EndLoop ==
  /\ step \in Loops /\ items = <<>>
  /\ Enter(IF lost THEN "failed" ELSE After(step))
  /\ UNCHANGED <<module_vars, mode, blind, edits, failures>>

(* The run stops between two calls: the host is lost, the administrator    *)
(* interrupts it, or the apiserver does not come up.                       *)
StopRun ==
  /\ step \in Loops \cup {"wait"} /\ status = "idle" /\ failures < MaxFailures
  /\ failures' = failures + 1
  /\ Enter("failed")
  /\ UNCHANGED <<module_vars, mode, blind, edits>>

(* Between runs: another dns_mode, or a release with new definitions. *)
Edit ==
  /\ step \in Ended /\ edits < MaxEdits
  /\ edits' = edits + 1
  /\ step' = "changed"
  /\ \/ mode' \in Modes /\ UNCHANGED release
     \/ release < MaxRelease /\ release' = release + 1 /\ UNCHANGED mode
  /\ UNCHANGED <<objects, call, status, look, todo, refused, outages,
                 items, tries, lost, blind, failures>>

Run  == StartRun \/ ApiAnswers \/ CallItem \/ KubeRuns \/ Register \/ EndLoop
Done == step = "complete" /\ UNCHANGED vars

Next == Run \/ StopRun \/ Edit \/ Done

Spec == Init /\ [][Next]_vars

(* A run goes on, and one that failed or has something new to deploy is    *)
(* started again.                                                          *)
FairSpec == Spec /\ WF_vars(Run)
-----------------------------------------------------------------------------
(* A run that completes has every object of dns_mode at the release's      *)
(* revision, and no other service at the cluster's DNS address: whatever   *)
(* got lost in the deletions, a service that kept the address makes the    *)
(* applies fail, and the item that failed fails the run.                   *)
CompleteServes ==
  step = "complete" =>
    /\ \A o \in Wanted(mode) : objects[o] = release
    /\ Wanted(mode) # {} =>
         \A o \in {"coredns svc", "kube-dns svc"} \ Wanted(mode) : objects[o] = Absent

(* A run that completes and had an answer to each of its looks has left    *)
(* none of the objects it cleans up that the mode does not want.           *)
CompleteIsClean ==
  step = "complete" /\ ~blind => \A o \in Cleaned \ Wanted(mode) : objects[o] = Absent

(* With the runs started again until one completes, the mode and release   *)
(* the administrator settles on are served for good: no failed run leaves  *)
(* objects that keep the next ones from completing.                        *)
EventuallyServed == <>[](\A o \in Wanted(mode) : objects[o] = release)
=============================================================================

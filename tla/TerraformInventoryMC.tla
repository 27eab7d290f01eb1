------------------------- MODULE TerraformInventoryMC -------------------------
(***************************************************************************)
(* TerraformInventory for TLC: servers of each provider, with each of the  *)
(* addresses there or missing, and two with one name.                      *)
(***************************************************************************)
EXTENDS TerraformInventory

CONSTANTS i1, i2, n1, n2, x1, x2, p1, p2

Server(type, id, name, public, private, tags) ==
  [type |-> type, id |-> id, name |-> name, public |-> public, private |-> private, tags |-> tags]

SomeServers ==
  {Server(k, i1, n1, p1, p2, {"control"}) : k \in Providers}
    \cup {Server(k, i1, n1, p1, Missing, {}) : k \in Providers}
    \cup {Server(k, i1, n1, Missing, p2, {}) : k \in Providers}
    \cup {Server("openstack", i2, n1, p2, p2, {"node"}), Server("aws", i2, n2, p1, p2, {"sshPrivateIp"}),
          Server("aws", i2, Missing, p1, p2, {}), Server("gce", i2, n2, Blank, p2, {"node"})}

SomeFloating == {[instance_id |-> i1, ip |-> x1], [instance_id |-> i1, ip |-> x2],
                 [instance_id |-> i2, ip |-> x2]}

SomeOthers == {[type |-> "network"]}

SomePlanned == {Server("openstack", i2, n1, p2, p2, {"node"}), [instance_id |-> i2, ip |-> x2]}

Legal(fs) ==
  Cardinality({f.ip : f \in All(fs) \cap SomeFloating}) = Cardinality(All(fs) \cap SomeFloating)

Of(i) == {{}} \cup {{s} : s \in {t \in SomeServers : t.id = i}}

(* A server of each id, each in a file of its own; the associations of a   *)
(* floating IP in either, one per address.                                 *)
SomeStarts ==
  {fs \in {<<a \cup F, b \cup G \cup SomeOthers>> :
             a \in Of(i1), b \in Of(i2), F \in {{}, {[instance_id |-> i2, ip |-> x2]}},
             G \in SUBSET {[instance_id |-> i1, ip |-> x1], [instance_id |-> i1, ip |-> x2]}} :
     Legal(fs)}
=============================================================================

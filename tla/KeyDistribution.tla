--------------------------- MODULE KeyDistribution ---------------------------
(***************************************************************************)
(* What the certificate roles promise about the private keys of hosts: one *)
(* host is the source and makes a key only where it has none; every other  *)
(* host holds copies it took from the source; a key is lost only with the  *)
(* host that held it.  roles/etcd (module EtcdCerts) and                   *)
(* roles/kubernetes/secrets (module KubeSecrets) both implement it.        *)
(***************************************************************************)
CONSTANTS
  Hosts,   \* the machines, each of which also names a key
  Key,     \* the keys there are
  None     \* no key

VARIABLES
  source,  \* the host where keys are made
  keys     \* keys[d][h]: the key of h as host d holds it

kvars == <<source, keys>>

\* At first every key there is comes from the source.
KeysInit ==
  /\ source \in Hosts
  /\ keys \in [Hosts -> [Hosts -> Key \cup {None}]]
  /\ \A d \in Hosts, h \in Hosts : keys[d][h] \in {None, keys[source][h]}

\* Nothing changes but the keys host d holds.
At(d) ==
  /\ UNCHANGED source
  /\ keys' \in [Hosts -> [Hosts -> Key \cup {None}]]
  /\ \A e \in Hosts \ {d} : keys'[e] = keys[e]

\* The source makes keys it does not hold.
Make ==
  /\ At(source)
  /\ \A h \in Hosts : keys[source][h] # None => keys'[source][h] = keys[source][h]

\* Host d takes keys the source holds.
Take(d) ==
  /\ At(d)
  /\ \A h \in Hosts : keys'[d][h] # keys[d][h] =>
       keys'[d][h] = keys[source][h] /\ keys[source][h] # None

\* Host d loses all the keys it holds.
Lose(d) ==
  /\ At(d)
  /\ \A h \in Hosts : keys'[d][h] = None

MoveSource == source' \in Hosts /\ UNCHANGED keys

KeysNext == Make \/ MoveSource \/ \E d \in Hosts : Take(d) \/ Lose(d)

KeysSpec == KeysInit /\ [][KeysNext]_kvars

\* A key that a host and the source agree on stays with the host until the
\* host loses it: it is never replaced under a process that uses it.
AgreedKeysStay ==
  [][\A d \in Hosts, h \in Hosts :
       keys[d][h] # None /\ keys[d][h] = keys[source][h]
       => keys'[d][h] \in {keys[d][h], None}]_kvars
=============================================================================

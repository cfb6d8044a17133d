----------------------------- MODULE MCRuntime -----------------------------
(***************************************************************************)
(* Small meshes of runtimes for TLC.  A configuration picks, by            *)
(* assignment, which applications act and how the network behaves.         *)
(***************************************************************************)
EXTENDS RuntimeProperties

CONSTANTS a, b, c,        \* nodes
          top, k1, k2,    \* keys: an object every document starts with, leaves
          obj, v1, v2     \* values: "an object", leaves


(* Who dials whom at start, who hears whom.                                *)
Chain == {<<a, b>>, <<b, c>>} \cap Pair
Star == {<<a, b>>, <<a, c>>} \cap Pair
Nobody == {}
AToB == {<<a, b>>}

OneId == 1..1

(* Documents the applications write.                                       *)
Fresh == [k \in Key |-> IF k = top THEN obj ELSE Absent]
Only(k, v) == [Fresh EXCEPT ![k] = v]
OneKeyPatches == {Only(k, v) : k \in {k1}, v \in Value \ {obj}}
TwoKeyPatches == {Only(k, v1) : k \in Key \ {top}}
Deleted == {Fresh}
FirstKey == {Only(k1, v1)}
Whole == {[k \in Key |-> IF k = top THEN obj ELSE v2]}
NoDocs == {}

SameSecond == {0}

(* A mesh at rest: every bootstrap dial has come up and both ends have     *)
(* identified and learned the other's subscription.  A state Spec reaches; *)
(* starting there leaves TLC its time for what comes after.                *)
Neighbours(n) == {p \in Node : <<n, p>> \in Bootstrap \/ <<p, n>> \in Bootstrap}
InitAtRest ==
    /\ dialing = {}
    /\ link = {{n, p} : <<n, p>> \in Bootstrap}
    /\ wire = {} /\ gossip = {} /\ outages = 0
    /\ known_topics = [n \in Node |-> [p \in Node |->
          IF p \in Neighbours(n) THEN {ContextTopic} ELSE {}]]
    /\ peers = [n \in Node |-> Neighbours(n)]
    /\ discovered_peers = peers
    /\ synced_peers = peers
    /\ \E a0 \in Addr : known_peers = [n \in Node |-> [p \in Node |->
          IF p \in Neighbours(n) THEN a0 ELSE NoAddr]]
    /\ topics = [n \in Node |-> {ContextTopic}]
    /\ streams = [n \in Node |-> [i \in StreamId |-> NoStream]]
    /\ next_stream_id = [n \in Node |-> 1]
    /\ \E now \in [Node -> Time] : local_context = [n \in Node |-> NewContext(n, now[n])]
    /\ events = [n \in Node |-> <<>>]
    /\ written = {} /\ sent = {}

SpecAtRest == InitAtRest /\ [][Next]_vars
FairSpecAtRest == SpecAtRest /\ Fairness

(* The two ends of the chain behave alike.                                 *)
Ends == Permutations({a, c})

(* What stream commands and messages depend on, where nobody writes        *)
(* contexts or publishes: no action reads the rest, and the properties of  *)
(* the run read only the events of the step, which TLC evaluates on every  *)
(* step before it drops a state it has seen.                               *)
StreamView ==
    <<dialing, link, wire, outages, peers, synced_peers, known_peers,
      streams, next_stream_id, sent>>
=============================================================================

----------------------------- MODULE AviContext -----------------------------
(***************************************************************************)
(* The replicated context document of a node and its vector clock          *)
(* (src/p2p/src/protocols/context.rs), as operators on values.             *)
(*                                                                         *)
(* A JSON document is abstracted to the map from its paths to what is      *)
(* there, a leaf or "an object": a member of Key is a whole path, and      *)
(* Absent says that the document has nothing at it.  Empty objects are     *)
(* paths like others, so serde_json's equality is equality of maps, and    *)
(* deep_merge, which recurses where both sides have an object and resolves *)
(* a leaf both have, is pointwise.  A leaf against an object at the same   *)
(* path is outside this abstraction; ContextLaws holds it against the      *)
(* trees.                                                                  *)
(***************************************************************************)
EXTENDS Naturals

CONSTANTS
    Node,       \* the nodes; a node is its peer id, which is also its device_id
    Key,        \* the paths a document may have
    Value,      \* what may be at a path: the leaves, and "an object"
    Absent,     \* "this document has nothing there"
    Skeleton,   \* the document every context starts with: two empty objects
    Time        \* the wall-clock readings, in seconds

ASSUME AbsentAssumption == Absent \notin Value
ASSUME TimeAssumption == Time \subseteq Nat

Doc == [Key -> Value \cup {Absent}]

ASSUME SkeletonAssumption == Skeleton \in Doc

KeysOf(doc) == {k \in Key : doc[k] # Absent}

VectorClock == [Node -> Nat]

\* device_id travels with a context: it names the node it is a snapshot of.
Context == [device_id : Node, timestamp : Time, vector_clock : VectorClock, data : Doc]

-----------------------------------------------------------------------------
(* Vector clocks.  A missing entry of the code's map reads as 0.           *)

ZeroClock == [m \in Node |-> 0]

Increment(vc, actor) == [vc EXCEPT ![actor] = @ + 1]

HasGreater(v, w) == \E m \in Node : v[m] > w[m]

PartialCmp(v, w) ==
    IF HasGreater(v, w)
    THEN IF HasGreater(w, v) THEN "Concurrent" ELSE "Greater"
    ELSE IF HasGreater(w, v) THEN "Less" ELSE "Equal"

(* Mutants: clocks are added up; the other clock is taken as it is.        *)
AddClocks(v, w) == [m \in Node |-> v[m] + w[m]]
TakeClock(v, w) == w

MergeClocks(v, w) == [m \in Node |-> IF w[m] > v[m] THEN w[m] ELSE v[m]]

-----------------------------------------------------------------------------
(* Documents and contexts.                                                 *)

DeepMerge(a, b, preferA) ==
    [k \in Key |-> IF a[k] = Absent \/ (b[k] # Absent /\ ~preferA) THEN b[k] ELSE a[k]]

NewContext(id, now) ==
    [device_id |-> id, timestamp |-> now, vector_clock |-> ZeroClock, data |-> Skeleton]

ApplyPatch(c, patch, now) ==
    [c EXCEPT !.data = DeepMerge(@, patch, FALSE), !.timestamp = now]

ReplaceData(c, doc, now) == [c EXCEPT !.data = doc, !.timestamp = now]

(* Mutants: concurrent documents are not merged, the preferred one stays;  *)
(* the other document is taken without a look at the clocks.               *)
MergeLastWriterWins(c, o) ==
    LET preferSelf == c.timestamp <= o.timestamp
    IN  [c EXCEPT !.data = IF preferSelf THEN @ ELSE o.data,
                  !.vector_clock = MergeClocks(@, o.vector_clock)]
MergeBlindly(c, o) ==
    [c EXCEPT !.data = o.data, !.vector_clock = MergeClocks(@, o.vector_clock)]

(* c.merge(o): the receiver's context afterwards.                          *)
Merge(c, o) ==
    LET order == PartialCmp(c.vector_clock, o.vector_clock)
        preferSelf == c.timestamp <= o.timestamp
        joined == MergeClocks(c.vector_clock, o.vector_clock)
    IN  CASE order = "Less" ->
               [c EXCEPT !.data = o.data, !.timestamp = o.timestamp, !.vector_clock = joined]
          [] order = "Greater" ->
               [c EXCEPT !.data = DeepMerge(@, o.data, TRUE)]
          [] order = "Equal" -> c
          [] order = "Concurrent" ->
               [c EXCEPT !.data = DeepMerge(@, o.data, preferSelf),
                         !.timestamp = IF preferSelf THEN @ ELSE o.timestamp,
                         !.vector_clock = joined]

(* Mutant: only a newer context counts as an update.                       *)
MergeReturnsIfNewer(c, o) ==
    /\ PartialCmp(c.vector_clock, o.vector_clock) = "Less"
    /\ c.data # o.data

(* c.merge(o): the value it returns.                                       *)
MergeReturns(c, o) ==
    /\ PartialCmp(c.vector_clock, o.vector_clock) # "Equal"
    /\ c.data # o.data
=============================================================================

-------------------------- MODULE AviContextProofs --------------------------
(***************************************************************************)
(* Facts about the context operators, for all nodes, keys and values.      *)
(***************************************************************************)
EXTENDS TLAPS, AviContext

(* deep_merge yields a document with exactly the keys of both sides,       *)
(* whichever side it prefers.                                              *)
LEMMA DeepMergeKeys ==
    ASSUME NEW x \in Doc, NEW y \in Doc, NEW prefer \in BOOLEAN
    PROVE  /\ DeepMerge(x, y, prefer) \in Doc
           /\ KeysOf(DeepMerge(x, y, prefer)) = KeysOf(x) \cup KeysOf(y)
  <1>1. DeepMerge(x, y, prefer) \in Doc
    BY DEF DeepMerge, Doc
  <1>2. ASSUME NEW k \in Key
        PROVE  DeepMerge(x, y, prefer)[k] # Absent <=> x[k] # Absent \/ y[k] # Absent
    BY DEF DeepMerge
  <1>3. QED
    BY <1>1, <1>2 DEF KeysOf

(* The four answers of partial_cmp, by what they say of the two clocks.    *)
LEMMA PartialCmpMeaning ==
    ASSUME NEW v \in VectorClock, NEW w \in VectorClock
    PROVE  /\ PartialCmp(v, w) \in {"Less", "Greater", "Equal", "Concurrent"}
           /\ PartialCmp(v, w) = "Less" => \A m \in Node : v[m] <= w[m]
           /\ PartialCmp(v, w) = "Greater" => \A m \in Node : w[m] <= v[m]
           /\ PartialCmp(v, w) = "Equal" => v = w
  <1> \A m \in Node : v[m] \in Nat /\ w[m] \in Nat
    BY DEF VectorClock
  <1>1. ~HasGreater(v, w) => \A m \in Node : v[m] <= w[m]
    BY DEF HasGreater
  <1>2. ~HasGreater(w, v) => \A m \in Node : w[m] <= v[m]
    BY DEF HasGreater
  <1>3. ~HasGreater(v, w) /\ ~HasGreater(w, v) => \A m \in Node : v[m] = w[m]
    BY <1>1, <1>2
  <1>4. ~HasGreater(v, w) /\ ~HasGreater(w, v) => v = w
    BY <1>3 DEF VectorClock
  <1>5. QED
    BY <1>1, <1>2, <1>4 DEF PartialCmp

LEMMA MergeClocksType ==
    ASSUME NEW v \in VectorClock, NEW w \in VectorClock
    PROVE  MergeClocks(v, w) \in VectorClock
  BY DEF MergeClocks, VectorClock

(* Whatever the order of the two clocks, the receiver ends with their      *)
(* join: in the branches of merge that leave the clock alone there was     *)
(* nothing to join.                                                        *)
LEMMA MergeJoinsClocks ==
    ASSUME NEW x \in Context, NEW y \in Context
    PROVE  Merge(x, y).vector_clock = MergeClocks(x.vector_clock, y.vector_clock)
  <1> DEFINE v == x.vector_clock
             w == y.vector_clock
  <1>1. v \in VectorClock /\ w \in VectorClock
    BY DEF Context
  <1>2. (\A m \in Node : w[m] <= v[m]) => MergeClocks(v, w) = v
    <2>1. SUFFICES ASSUME \A m \in Node : w[m] <= v[m]
                   PROVE  MergeClocks(v, w) = v
      OBVIOUS
    <2>2. \A m \in Node : v[m] \in Nat /\ w[m] \in Nat
      BY <1>1 DEF VectorClock
    <2>3. \A m \in Node : ~(w[m] > v[m])
      BY <2>1, <2>2
    <2>4. MergeClocks(v, w) = [m \in Node |-> v[m]]
      BY <2>3 DEF MergeClocks
    <2>5. QED
      BY <1>1, <2>4 DEF VectorClock
  <1>3. CASE PartialCmp(v, w) = "Less"
    BY <1>3 DEF Merge, Context
  <1>4. CASE PartialCmp(v, w) = "Greater"
    <2>1. MergeClocks(v, w) = v
      BY <1>1, <1>2, <1>4, PartialCmpMeaning
    <2>2. Merge(x, y).vector_clock = v
      BY <1>4 DEF Merge, Context
    <2>3. QED
      BY <2>1, <2>2
  <1>5. CASE PartialCmp(v, w) = "Equal"
    <2>1. v = w
      BY <1>1, <1>5, PartialCmpMeaning
    <2>2. \A m \in Node : w[m] <= v[m]
      BY <1>1, <2>1 DEF VectorClock
    <2>3. MergeClocks(v, w) = v
      BY <1>2, <2>2
    <2>4. Merge(x, y).vector_clock = v
      BY <1>5 DEF Merge
    <2>5. QED
      BY <2>3, <2>4
  <1>6. CASE PartialCmp(v, w) = "Concurrent"
    BY <1>6 DEF Merge, Context
  <1>7. QED
    BY <1>1, <1>3, <1>4, <1>5, <1>6, PartialCmpMeaning

(* merge returns a context, and never changes whose context it is.         *)
LEMMA MergeType ==
    ASSUME NEW x \in Context, NEW y \in Context
    PROVE  Merge(x, y) \in Context /\ Merge(x, y).device_id = x.device_id
  <1>1. /\ x.vector_clock \in VectorClock /\ y.vector_clock \in VectorClock
        /\ x.data \in Doc /\ y.data \in Doc
        /\ x.timestamp \in Time /\ y.timestamp \in Time
    BY DEF Context
  <1>2. MergeClocks(x.vector_clock, y.vector_clock) \in VectorClock
    BY <1>1, MergeClocksType
  <1>3. (x.timestamp <= y.timestamp) \in BOOLEAN
    BY <1>1, TimeAssumption
  <1>4. /\ DeepMerge(x.data, y.data, TRUE) \in Doc
        /\ DeepMerge(x.data, y.data, x.timestamp <= y.timestamp) \in Doc
    BY <1>1, <1>3, DeepMergeKeys
  <1>5. PartialCmp(x.vector_clock, y.vector_clock)
            \in {"Less", "Greater", "Equal", "Concurrent"}
    BY <1>1, PartialCmpMeaning
  <1>6. QED
    BY <1>1, <1>2, <1>4, <1>5 DEF Merge, Context

(* What merge does to the key set.                                         *)
LEMMA MergeKeys ==
    ASSUME NEW x \in Context, NEW y \in Context
    PROVE  LET order == PartialCmp(x.vector_clock, y.vector_clock)
               keys == KeysOf(Merge(x, y).data)
           IN  /\ order = "Less" => keys = KeysOf(y.data)
               /\ order = "Equal" => keys = KeysOf(x.data)
               /\ order \in {"Greater", "Concurrent"} =>
                      keys = KeysOf(x.data) \cup KeysOf(y.data)
  <1>1. /\ x.vector_clock \in VectorClock /\ y.vector_clock \in VectorClock
        /\ x.data \in Doc /\ y.data \in Doc
    BY DEF Context
  <1>2. (x.timestamp <= y.timestamp) \in BOOLEAN
    BY TimeAssumption DEF Context
  <1>3. \A prefer \in BOOLEAN :
            KeysOf(DeepMerge(x.data, y.data, prefer)) = KeysOf(x.data) \cup KeysOf(y.data)
    BY <1>1, DeepMergeKeys
  <1>4. CASE PartialCmp(x.vector_clock, y.vector_clock) = "Less"
    BY <1>4 DEF Merge, Context
  <1>5. CASE PartialCmp(x.vector_clock, y.vector_clock) = "Equal"
    BY <1>5 DEF Merge
  <1>6. CASE PartialCmp(x.vector_clock, y.vector_clock) = "Greater"
    <2>1. Merge(x, y).data = DeepMerge(x.data, y.data, TRUE)
      BY <1>6 DEF Merge, Context
    <2>2. QED
      BY <1>3, <1>6, <2>1
  <1>7. CASE PartialCmp(x.vector_clock, y.vector_clock) = "Concurrent"
    <2>1. Merge(x, y).data = DeepMerge(x.data, y.data, x.timestamp <= y.timestamp)
      BY <1>7 DEF Merge, Context
    <2>2. QED
      BY <1>2, <1>3, <1>7, <2>1
  <1>8. QED
    BY <1>1, <1>4, <1>5, <1>6, <1>7, PartialCmpMeaning
=============================================================================

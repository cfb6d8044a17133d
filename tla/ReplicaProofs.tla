--------------------------- MODULE ReplicaProofs ---------------------------
(***************************************************************************)
(* Proofs about what a replica shows: that its application is told when    *)
(* that changes, and which document it is when one node writes.            *)
(***************************************************************************)
EXTENDS TLAPS, FiniteSetTheorems, SequenceTheorems, RuntimeProofs

-----------------------------------------------------------------------------
(* A change of the document is reported.                                   *)

(* merge returns true whenever it touches the data.                        *)
LEMMA ChangedMeansReturned ==
    ASSUME NEW x \in Context, NEW y \in Context, Merge(x, y).data # x.data
    PROVE  MergeReturns(x, y)
  <1> DEFINE order == PartialCmp(x.vector_clock, y.vector_clock)
  <1>1. /\ x.vector_clock \in VectorClock /\ y.vector_clock \in VectorClock
        /\ x.data \in Doc /\ y.data \in Doc
    BY DEF Context
  <1>2. order # "Equal"
    BY DEF Merge
  <1>3. \A prefer \in BOOLEAN : DeepMerge(x.data, x.data, prefer) = x.data
    BY <1>1 DEF DeepMerge, Doc
  <1>4. (x.timestamp <= y.timestamp) \in BOOLEAN
    BY TimeAssumption DEF Context
  <1>5. x.data # y.data
    <2>1. CASE order = "Less"
      BY <2>1 DEF Merge, Context
    <2>2. CASE order = "Greater"
      <3>1. Merge(x, y).data = DeepMerge(x.data, y.data, TRUE)
        BY <2>2 DEF Merge, Context
      <3>2. QED
        BY <1>3, <3>1
    <2>3. CASE order = "Concurrent"
      <3>1. Merge(x, y).data = DeepMerge(x.data, y.data, x.timestamp <= y.timestamp)
        BY <2>3 DEF Merge, Context
      <3>2. QED
        BY <1>3, <1>4, <3>1
    <2>4. QED
      BY <1>1, <1>2, <2>1, <2>2, <2>3, PartialCmpMeaning
  <1>6. QED
    BY <1>2, <1>5 DEF MergeReturns

(* Its application is told what n now shows.                               *)
Reported(n) ==
    \E k \in DOMAIN events'[n] :
       /\ events'[n][k].type = "ContextUpdated"
       /\ events'[n][k].data = local_context'[n].data

LEMMA MergeIsReported ==
    ASSUME TypeOK, NEW m \in Node, NEW x \in Context, MergeInto(m, x),
           NEW n \in Node, local_context'[n].data # local_context[n].data
    PROVE  Reported(n)
  <1> DEFINE merged == Merge(local_context[m], x)
             told == [type |-> "ContextUpdated", peer |-> x.device_id, data |-> merged.data]
  <1>1. local_context[m] \in Context
    BY DEF TypeOK
  <1>2. local_context' = [local_context EXCEPT ![m] = merged]
    BY DEF MergeInto
  <1>3. n = m /\ local_context'[n] = merged
    BY <1>2 DEF TypeOK
  <1>4. MergeReturns(local_context[m], x)
    BY <1>1, <1>3, ChangedMeansReturned
  <1>5. events'[n] = <<told>>
    BY <1>3, <1>4 DEF MergeInto, Emit
  <1>6. 1 \in DOMAIN events'[n] /\ events'[n][1] = told
    BY <1>5
  <1>7. QED
    BY <1>3, <1>6 DEF Reported

LEMMA CommitCounts ==
    ASSUME TypeOK, NEW m \in Node, NEW x \in Context, NEW keys, Commit(m, x, keys),
           x.vector_clock = local_context[m].vector_clock,
           NEW n \in Node, local_context'[n].data # local_context[n].data
    PROVE  local_context'[n].vector_clock[n] # local_context[n].vector_clock[n]
  <1> DEFINE next == [x EXCEPT !.vector_clock = Increment(@, m)]
  <1>1. local_context' = [local_context EXCEPT ![m] = next]
    BY DEF Commit
  <1>2. n = m /\ local_context'[n] = next
    BY <1>1 DEF TypeOK
  <1>3. local_context[m].vector_clock \in [Node -> Nat]
    BY DEF TypeOK, Context, VectorClock
  <1>4. next.vector_clock = Increment(local_context[m].vector_clock, m)
    BY DEF Context
  <1>5. next.vector_clock[m] = local_context[m].vector_clock[m] + 1
    BY <1>3, <1>4 DEF Increment
  <1>6. QED
    BY <1>2, <1>3, <1>5

LEMMA UserCommandCounts ==
    ASSUME TypeOK, NEW m \in Node, UserCommand(m),
           NEW n \in Node, local_context'[n].data # local_context[n].data
    PROVE  local_context'[n].vector_clock[n] # local_context[n].vector_clock[n]
  <1>0. local_context[m] \in Context
    BY DEF TypeOK
  <1>1. ASSUME NEW patch \in Patch, NEW now \in Time, UpdateSelfContext(m, patch, now)
        PROVE  local_context'[n].vector_clock[n] # local_context[n].vector_clock[n]
    <2> DEFINE x == ApplyPatch(local_context[m], patch, now)
    <2>1. x \in Context
      BY <1>0, PatchType, DocAssumption
    <2>2. x.vector_clock = local_context[m].vector_clock
      BY <1>0 DEF ApplyPatch, Context
    <2>3. QED
      BY <1>1, <2>1, <2>2, CommitCounts DEF UpdateSelfContext
  <1>2. ASSUME NEW doc \in Replacement, NEW now \in Time, ReplaceSelfContext(m, doc, now)
        PROVE  local_context'[n].vector_clock[n] # local_context[n].vector_clock[n]
    <2> DEFINE x == ReplaceData(local_context[m], doc, now)
    <2>1. x \in Context
      BY <1>0, PatchType, DocAssumption
    <2>2. x.vector_clock = local_context[m].vector_clock
      BY <1>0 DEF ReplaceData, Context
    <2>3. QED
      BY <1>2, <2>1, <2>2, CommitCounts DEF ReplaceSelfContext
  <1>3. ASSUME NEW t \in AppTopic, Subscribe(m, t) \/ Unsubscribe(m, t) \/ Publish(m, t)
        PROVE  local_context' = local_context
    BY <1>3 DEF Subscribe, Unsubscribe, Publish, replica
  <1>4. ASSUME NEW p \in Node, RequestStream(m, p)
        PROVE  local_context' = local_context
    BY <1>4 DEF RequestStream, SendControl, replica
  <1>5. ASSUME NEW i \in StreamId,
               AcceptStream(m, i) \/ RejectStream(m, i) \/ SendStreamData(m, i) \/ CloseStream(m, i)
        PROVE  local_context' = local_context
    BY <1>5 DEF AcceptStream, RejectStream, SendStreamData, CloseStream, SendControl, replica
  <1>6. QED
    BY <1>1, <1>2, <1>3, <1>4, <1>5 DEF UserCommand

LEMMA IncomingIsReported ==
    ASSUME TypeOK, Incoming, NEW n \in Node, local_context'[n].data # local_context[n].data
    PROVE  Reported(n)
  <1>1. ASSUME NEW g \in gossip, NEW source \in Node, ContextGossipMessage(g, source)
        PROVE  Reported(n)
    <2>1. g.to \in Node /\ g.context \in Context /\ MergeInto(g.to, g.context)
      BY <1>1, GossipCopyType DEF ContextGossipMessage
    <2>2. QED
      BY <2>1, MergeIsReported
  <1>2. ASSUME NEW m \in wire, HandleSyncContext(m)
        PROVE  Reported(n)
    <2>1. m.to \in Node /\ m.context \in Context /\ MergeInto(m.to, m.context)
      BY <1>2, WireMessageType DEF HandleSyncContext, Receive
    <2>2. QED
      BY <2>1, MergeIsReported
  <1>3. ASSUME NEW g \in gossip, NEW source \in Node, AppGossipMessage(g, source)
        PROVE  local_context' = local_context
    BY <1>3 DEF AppGossipMessage, replica
  <1>4. ASSUME NEW m \in wire,
               \/ HandleRequestStream(m) \/ HandleAcceptStream(m) \/ HandleRejectStream(m)
               \/ HandleStreamData(m) \/ HandleCloseStream(m)
        PROVE  local_context' = local_context
    BY <1>4 DEF HandleRequestStream, HandleAcceptStream, HandleRejectStream,
                HandleStreamData, HandleCloseStream, replica
  <1>5. QED
    BY <1>1, <1>2, <1>3, <1>4 DEF Incoming

LEMMA OthersKeepReplicas ==
    ASSUME (\E n \in Node : Heartbeat(n) \/ SwarmEvent(n)) \/ Environment \/ UNCHANGED vars
    PROVE  local_context' = local_context
  BY DEF Heartbeat, SwarmEvent, ConnectionEstablished, ConnectionClosed, MdnsDiscovered,
         IdentifyReceived, Environment, Outside, vars, replica

(* Whatever makes a node show another document than before, other than a   *)
(* change of its own, its application is sent that document: the data is   *)
(* touched only by merge, and merge says so (runtime.rs emits              *)
(* ContextUpdated exactly when it does).                                   *)
THEOREM ChangesAreReported == Spec => NoSilentChange
  <1>1. TypeOK /\ [Next]_vars =>
          [\A n \in Node :
             (local_context'[n].data # local_context[n].data
                /\ local_context'[n].vector_clock[n] = local_context[n].vector_clock[n])
             => \E k \in DOMAIN events'[n] :
                   /\ events'[n][k].type = "ContextUpdated"
                   /\ events'[n][k].data = local_context'[n].data]_vars
    <2>1. SUFFICES ASSUME TypeOK, [Next]_vars, NEW n \in Node,
                          local_context'[n].data # local_context[n].data,
                          local_context'[n].vector_clock[n] = local_context[n].vector_clock[n]
                   PROVE  Reported(n)
      BY DEF Reported
    <2>2. CASE \E m \in Node : UserCommand(m)
      BY <2>1, <2>2, UserCommandCounts
    <2>3. CASE Incoming
      BY <2>1, <2>3, IncomingIsReported
    <2>4. CASE (\E m \in Node : Heartbeat(m) \/ SwarmEvent(m)) \/ Environment \/ UNCHANGED vars
      BY <2>1, <2>4, OthersKeepReplicas
    <2>5. QED
      BY <2>1, <2>2, <2>3, <2>4 DEF Next
  <1>2. QED
    BY <1>1, TypeCorrect, PTL DEF Spec, NoSilentChange

-----------------------------------------------------------------------------
(* One writer.  What the others hold is then a version the writer had, and *)
(* its clock says which: the writer's component counts the versions and    *)
(* every other component is 0.                                             *)

OneOwner == \E w \in Node : Writer = {w}

(* No change, and no merge, takes a key from the owner's document.         *)
KeepsKeys ==
    \A n \in Writer : KeysOf(local_context[n].data) \subseteq KeysOf(local_context'[n].data)

Count(x) == x.vector_clock[Owner]
Top == Count(local_context[Owner])

(* The change of the owner that has number k in W, and the document as of  *)
(* that change.                                                            *)
VersionIn(W, k) == CHOOSE x \in W : x.by = Owner /\ x.seq = k
DocAt(W, k) == IF k = 0 THEN Skeleton ELSE VersionIn(W, k).data

OnlyOwnerCounts == \A x \in Contexts : \A m \in Node : m # Owner => x.vector_clock[m] = 0

(* The owner's changes are numbered 1, 2, ... without a gap or a double.   *)
Numbered(W, top) ==
    /\ \A x \in W : x.by = Owner /\ x.seq \in 1..top
    /\ \A k \in 1..top : \E x \in W : x.seq = k
    /\ \A x, y \in W : x.seq = y.seq => x = y

ContextsAreVersions == \A x \in Contexts : x.data = DocAt(written, Count(x))

Growing(W, top) ==
    \A j, k \in 0..top : j <= k => KeysOf(DocAt(W, j)) \subseteq KeysOf(DocAt(W, k))

OwnerInvariant == TypeOK /\ ClockBounded /\ OnlyOwnerCounts
VersionInvariant ==
    OwnerInvariant /\ Numbered(written, Top) /\ ContextsAreVersions /\ Growing(written, Top)

LEMMA OwnerWrites == OneOwner => Owner \in Node /\ Writer = {Owner}
  BY DEF OneOwner, Owner

LEMMA CountType ==
    ASSUME OneOwner, TypeOK, NEW x \in Contexts
    PROVE  x \in Context /\ Count(x) \in Nat /\ Top \in Nat
  <1>1. Owner \in Node
    BY OwnerWrites
  <1>2. x \in Context /\ local_context[Owner] \in Context
    BY <1>1, ContextsType DEF TypeOK
  <1>3. QED
    BY <1>1, <1>2 DEF Count, Top, Context, VectorClock

LEMMA CountBounded ==
    ASSUME OneOwner, OwnerInvariant, NEW x \in Contexts
    PROVE  Count(x) \in 0..Top
  BY CountType, OwnerWrites DEF OwnerInvariant, ClockBounded, Count, Top

(* Clocks that are 0 but for the owner compare as the owner's components.  *)
LEMMA OneComponent ==
    ASSUME OneOwner, NEW v \in VectorClock, NEW u \in VectorClock,
           \A m \in Node : m # Owner => v[m] = 0 /\ u[m] = 0
    PROVE  /\ v[Owner] < u[Owner] => PartialCmp(v, u) = "Less"
           /\ v[Owner] > u[Owner] => PartialCmp(v, u) = "Greater"
           /\ v[Owner] = u[Owner] => PartialCmp(v, u) = "Equal"
  <1>1. Owner \in Node /\ v[Owner] \in Nat /\ u[Owner] \in Nat
    BY OwnerWrites DEF VectorClock
  <1>2. HasGreater(v, u) <=> v[Owner] > u[Owner]
    BY <1>1 DEF HasGreater
  <1>3. HasGreater(u, v) <=> u[Owner] > v[Owner]
    BY <1>1 DEF HasGreater
  <1>4. QED
    BY <1>1, <1>2, <1>3 DEF PartialCmp

LEMMA MergeCounts ==
    ASSUME OneOwner, TypeOK, OnlyOwnerCounts, NEW x \in Contexts, NEW y \in Contexts
    PROVE  /\ Count(Merge(x, y)) = IF Count(y) > Count(x) THEN Count(y) ELSE Count(x)
           /\ \A m \in Node : m # Owner => Merge(x, y).vector_clock[m] = 0
  <1>1. Merge(x, y).vector_clock = MergeClocks(x.vector_clock, y.vector_clock)
    BY CountType, MergeJoinsClocks
  <1>2. QED
    BY <1>1, OwnerWrites DEF MergeClocks, Count, OnlyOwnerCounts

LEMMA ClockOrder ==
    ASSUME OneOwner, TypeOK, OnlyOwnerCounts, NEW x \in Contexts, NEW y \in Contexts
    PROVE  LET order == PartialCmp(x.vector_clock, y.vector_clock)
           IN  /\ Count(x) < Count(y) => order = "Less"
               /\ Count(x) > Count(y) => order = "Greater"
               /\ Count(x) = Count(y) => order = "Equal"
  <1>1. x.vector_clock \in VectorClock /\ y.vector_clock \in VectorClock
    BY CountType DEF Context
  <1>2. \A m \in Node : m # Owner => x.vector_clock[m] = 0 /\ y.vector_clock[m] = 0
    BY DEF OnlyOwnerCounts
  <1>3. QED
    BY <1>1, <1>2, OneComponent DEF Count

(* A merge of an older document with no key of its own changes nothing.    *)
LEMMA NothingToMerge ==
    ASSUME NEW d \in Doc, NEW e \in Doc, KeysOf(e) \subseteq KeysOf(d)
    PROVE  DeepMerge(d, e, TRUE) = d
  <1>1. \A k \in Key : d[k] = Absent => e[k] = Absent
    BY DEF KeysOf
  <1>2. DeepMerge(d, e, TRUE) = [k \in Key |-> d[k]]
    BY <1>1 DEF DeepMerge
  <1>3. QED
    BY <1>2 DEF Doc

LEMMA MergeData ==
    ASSUME OneOwner, TypeOK, OnlyOwnerCounts, NEW x \in Contexts, NEW y \in Contexts
    PROVE  /\ Count(x) < Count(y) => Merge(x, y).data = y.data
           /\ Count(x) > Count(y) => Merge(x, y).data = DeepMerge(x.data, y.data, TRUE)
           /\ Count(x) = Count(y) => Merge(x, y).data = x.data
  <1>1. x \in Context /\ y \in Context /\ Count(x) \in Nat /\ Count(y) \in Nat
    BY CountType
  <1>2. ASSUME Count(x) < Count(y)
        PROVE  Merge(x, y).data = y.data
    <2>1. PartialCmp(x.vector_clock, y.vector_clock) = "Less"
      BY <1>2, ClockOrder
    <2>2. QED
      BY <1>1, <2>1 DEF Merge, Context
  <1>3. ASSUME Count(x) > Count(y)
        PROVE  Merge(x, y).data = DeepMerge(x.data, y.data, TRUE)
    <2>1. PartialCmp(x.vector_clock, y.vector_clock) = "Greater"
      BY <1>3, ClockOrder
    <2>2. QED
      BY <1>1, <2>1 DEF Merge, Context
  <1>4. ASSUME Count(x) = Count(y)
        PROVE  Merge(x, y).data = x.data
    <2>1. PartialCmp(x.vector_clock, y.vector_clock) = "Equal"
      BY <1>4, ClockOrder
    <2>2. QED
      BY <2>1 DEF Merge
  <1>5. QED
    BY <1>2, <1>3, <1>4

(* Between versions, the later one wins whole.                             *)
LEMMA LaterVersionWins ==
    ASSUME OneOwner, VersionInvariant, NEW x \in Contexts, NEW y \in Contexts
    PROVE  /\ Count(x) < Count(y) => Merge(x, y).data = y.data
           /\ Count(x) >= Count(y) => Merge(x, y).data = x.data
  <1>1. /\ x \in Context /\ y \in Context /\ x.data \in Doc /\ y.data \in Doc
        /\ Count(x) \in Nat /\ Count(y) \in Nat
    BY CountType DEF VersionInvariant, OwnerInvariant, Context
  <1>2. ASSUME Count(x) > Count(y)
        PROVE  DeepMerge(x.data, y.data, TRUE) = x.data
    <2>1. Count(x) \in 0..Top /\ Count(y) \in 0..Top /\ Count(y) <= Count(x)
      BY <1>1, <1>2, CountBounded DEF VersionInvariant
    <2>2. KeysOf(DocAt(written, Count(y))) \subseteq KeysOf(DocAt(written, Count(x)))
      BY <2>1 DEF VersionInvariant, Growing
    <2>3. KeysOf(y.data) \subseteq KeysOf(x.data)
      BY <2>2 DEF VersionInvariant, ContextsAreVersions
    <2>4. QED
      BY <1>1, <2>3, NothingToMerge
  <1>3. TypeOK /\ OnlyOwnerCounts
    BY DEF VersionInvariant, OwnerInvariant
  <1>4. Count(x) > Count(y) => Merge(x, y).data = x.data
    BY <1>2, <1>3, MergeData
  <1>5. Count(x) = Count(y) => Merge(x, y).data = x.data
    BY <1>3, MergeData
  <1>6. Count(x) < Count(y) => Merge(x, y).data = y.data
    BY <1>3, MergeData
  <1>7. Count(x) >= Count(y) => Count(x) > Count(y) \/ Count(x) = Count(y)
    BY <1>1
  <1>8. QED
    BY <1>4, <1>5, <1>6, <1>7

(* The number of a change tells which it is.                               *)
LEMMA VersionNumber ==
    ASSUME NEW W, NEW top, Numbered(W, top), NEW x \in W
    PROVE  VersionIn(W, x.seq) = x
  BY DEF Numbered, VersionIn

(* The owner's own component grows by one with each change.                *)
LEMMA ChangeIsOwners ==
    ASSUME OneOwner, TypeOK, NEW n \in Node, NEW x \in Context, NEW keys \in SUBSET Key,
           ChangeStep(n, x, keys)
    PROVE  LET next == [x EXCEPT !.vector_clock = Increment(@, n)]
           IN  /\ n = Owner
               /\ local_context'[Owner] = next
               /\ Count(next) = Top + 1
               /\ \A m \in Node : m # Owner =>
                      next.vector_clock[m] = local_context[Owner].vector_clock[m]
  <1> DEFINE next == [x EXCEPT !.vector_clock = Increment(@, n)]
  <1>1. n = Owner /\ Owner \in Node
    BY OwnerWrites DEF ChangeStep
  <1>2. local_context'[Owner] = next
    BY <1>1 DEF ChangeStep, TypeOK
  <1>3. x.vector_clock \in VectorClock /\ next.vector_clock = Increment(x.vector_clock, Owner)
    BY <1>1 DEF Context
  <1>4. x.vector_clock = local_context[Owner].vector_clock
    BY <1>1 DEF ChangeStep
  <1>5. /\ next.vector_clock[Owner] = local_context[Owner].vector_clock[Owner] + 1
        /\ \A m \in Node : m # Owner =>
               next.vector_clock[m] = local_context[Owner].vector_clock[m]
    BY <1>1, <1>3, <1>4 DEF Increment, VectorClock
  <1>6. QED
    BY <1>1, <1>2, <1>5 DEF Count, Top

(* A merge never moves the owner: nobody is ahead of it.                   *)
LEMMA MergeKeepsTop ==
    ASSUME OneOwner, OwnerInvariant, NEW n \in Node, NEW x \in Contexts, MergeStep(n, x)
    PROVE  Top' = Top
  <1>1. Owner \in Node /\ local_context[Owner] \in Contexts /\ Top \in Nat
    BY OwnerWrites, ContextsMembers, CountType DEF OwnerInvariant
  <1>2. Count(x) \in 0..Top
    BY CountBounded
  <1>3. CASE n = Owner
    <2>1. local_context'[Owner] = Merge(local_context[Owner], x)
      BY <1>1, <1>3 DEF MergeStep, OwnerInvariant, TypeOK
    <2>2. Count(Merge(local_context[Owner], x)) = Top
      BY <1>1, <1>2, MergeCounts DEF OwnerInvariant, Top
    <2>3. QED
      BY <2>1, <2>2 DEF Top, Count
  <1>4. CASE n # Owner
    BY <1>1, <1>4 DEF MergeStep, OwnerInvariant, TypeOK, Top, Count
  <1>5. QED
    BY <1>3, <1>4

LEMMA OnlyOwnerCountsStep ==
    ASSUME OneOwner, TypeOK, OnlyOwnerCounts, [Next]_vars
    PROVE  OnlyOwnerCounts'
  <1>1. SUFFICES ASSUME NEW y \in Contexts', NEW m \in Node, m # Owner
                 PROVE  y.vector_clock[m] = 0
    BY DEF OnlyOwnerCounts
  <1>2. \A z \in Contexts : z.vector_clock[m] = 0
    BY <1>1 DEF OnlyOwnerCounts
  <1>3. CASE NoContextStep
    BY <1>2, <1>3 DEF NoContextStep
  <1>4. ASSUME NEW n \in Node, NEW x \in Context, NEW keys \in SUBSET Key, ChangeStep(n, x, keys)
        PROVE  y.vector_clock[m] = 0
    <2> DEFINE next == [x EXCEPT !.vector_clock = Increment(@, n)]
    <2>1. y \in Contexts \/ y = next
      BY <1>4 DEF ChangeStep
    <2>2. next.vector_clock[m] = local_context[Owner].vector_clock[m]
      BY <1>1, <1>4, ChangeIsOwners
    <2>3. local_context[Owner] \in Contexts
      BY OwnerWrites, ContextsMembers
    <2>4. QED
      BY <1>2, <2>1, <2>2, <2>3
  <1>5. ASSUME NEW n \in Node, NEW x \in Contexts, MergeStep(n, x)
        PROVE  y.vector_clock[m] = 0
    <2>1. y \in Contexts \/ y = Merge(local_context[n], x)
      BY <1>5 DEF MergeStep
    <2>2. local_context[n] \in Contexts
      BY ContextsMembers
    <2>3. Merge(local_context[n], x).vector_clock[m] = 0
      BY <1>1, <2>2, MergeCounts
    <2>4. QED
      BY <1>2, <2>1, <2>3
  <1>6. QED
    BY <1>3, <1>4, <1>5, NextIsContextStep DEF ContextStep

LEMMA OwnerInvariantHolds ==
    ASSUME OneOwner
    PROVE  Spec => []OwnerInvariant
  <1>1. Init => OnlyOwnerCounts
    BY InitContexts DEF OnlyOwnerCounts, ZeroClock
  <1>2. TypeOK /\ OnlyOwnerCounts /\ [Next]_vars => OnlyOwnerCounts'
    BY OnlyOwnerCountsStep
  <1>3. TypeOK /\ ClockBounded /\ OnlyOwnerCounts => OwnerInvariant
    BY DEF OwnerInvariant
  <1>4. QED
    BY <1>1, <1>2, <1>3, TypeCorrect, ClocksAreBounded, PTL DEF Spec

-----------------------------------------------------------------------------
(* The owner's changes, before and after one more.                         *)

LEMMA NumberedGrows ==
    ASSUME NEW W, NEW top \in Nat, Numbered(W, top),
           NEW x, x.by = Owner, x.seq = top + 1
    PROVE  Numbered(W \cup {x}, top + 1)
  <1>1. \A y \in W : y.seq \in 1..top
    BY DEF Numbered
  <1>2. \A y \in W \cup {x} : y.by = Owner /\ y.seq \in 1..(top + 1)
    BY DEF Numbered
  <1>3. ASSUME NEW k \in 1..(top + 1)
        PROVE  \E y \in W \cup {x} : y.seq = k
    <2>1. k \in 1..top \/ k = top + 1
      OBVIOUS
    <2>2. QED
      BY <2>1 DEF Numbered
  <1>4. \A y, z \in W \cup {x} : y.seq = z.seq => y = z
    BY <1>1 DEF Numbered
  <1>5. QED
    BY <1>2, <1>3, <1>4 DEF Numbered

LEMMA VersionsStay ==
    ASSUME NEW W, NEW top \in Nat, Numbered(W, top),
           NEW x, x.by = Owner, x.seq = top + 1
    PROVE  /\ \A k \in 1..top : VersionIn(W \cup {x}, k) = VersionIn(W, k)
           /\ VersionIn(W \cup {x}, top + 1) = x
           /\ \A k \in 0..top : DocAt(W \cup {x}, k) = DocAt(W, k)
           /\ DocAt(W \cup {x}, top + 1) = x.data
  <1>1. Numbered(W \cup {x}, top + 1)
    BY NumberedGrows
  <1>2. ASSUME NEW k \in 1..top
        PROVE  VersionIn(W \cup {x}, k) = VersionIn(W, k)
    <2>1. PICK y \in W : y.seq = k
      BY DEF Numbered
    <2>2. VersionIn(W, k) = y
      BY <2>1, VersionNumber
    <2>3. VersionIn(W \cup {x}, k) = y
      BY <1>1, <2>1, VersionNumber
    <2>4. QED
      BY <2>2, <2>3
  <1>3. VersionIn(W \cup {x}, top + 1) = x
    <2>1. x \in W \cup {x}
      OBVIOUS
    <2>2. VersionIn(W \cup {x}, x.seq) = x
      BY <1>1, <2>1, VersionNumber
    <2>3. QED
      BY <2>2
  <1>4. ASSUME NEW k \in 0..top
        PROVE  DocAt(W \cup {x}, k) = DocAt(W, k)
    <2>1. CASE k = 0
      BY <2>1 DEF DocAt
    <2>2. CASE k \in 1..top
      <3>1. DocAt(W \cup {x}, k) = VersionIn(W \cup {x}, k).data
        BY <2>2 DEF DocAt
      <3>2. DocAt(W, k) = VersionIn(W, k).data
        BY <2>2 DEF DocAt
      <3>3. QED
        BY <1>2, <2>2, <3>1, <3>2
    <2>3. QED
      BY <2>1, <2>2
  <1>5. DocAt(W \cup {x}, top + 1) = x.data
    BY <1>3 DEF DocAt
  <1>6. QED
    BY <1>2, <1>3, <1>4, <1>5

LEMMA StillGrowing ==
    ASSUME NEW W, NEW top \in Nat, Numbered(W, top), Growing(W, top),
           NEW x, x.by = Owner, x.seq = top + 1, KeysOf(DocAt(W, top)) \subseteq KeysOf(x.data)
    PROVE  Growing(W \cup {x}, top + 1)
  <1>1. SUFFICES ASSUME NEW j \in 0..(top + 1), NEW k \in 0..(top + 1), j <= k
                 PROVE  KeysOf(DocAt(W \cup {x}, j)) \subseteq KeysOf(DocAt(W \cup {x}, k))
    BY DEF Growing
  <1>2. CASE k \in 0..top
    <2>1. j \in 0..top
      BY <1>1, <1>2
    <2>2. QED
      BY <1>1, <1>2, <2>1, VersionsStay DEF Growing
  <1>3. CASE k = top + 1 /\ j \in 0..top
    <2>1. top \in 0..top /\ j <= top
      BY <1>3
    <2>2. KeysOf(DocAt(W, j)) \subseteq KeysOf(DocAt(W, top))
      BY <1>3, <2>1 DEF Growing
    <2>3. DocAt(W \cup {x}, j) = DocAt(W, j) /\ DocAt(W \cup {x}, k) = x.data
      BY <1>3, VersionsStay
    <2>4. QED
      BY <2>2, <2>3
  <1>4. CASE k = top + 1 /\ j = top + 1
    BY <1>4
  <1>5. QED
    BY <1>2, <1>3, <1>4

-----------------------------------------------------------------------------
(* Every context is a version.                                             *)

(* What a change adds to the history.                                      *)
Entry(x, keys) == [by |-> Owner, seq |-> Top + 1, keys |-> keys, data |-> x.data]

LEMMA ChangeAdds ==
    ASSUME OneOwner, VersionInvariant, NEW n \in Node, NEW x \in Context,
           NEW keys \in SUBSET Key, ChangeStep(n, x, keys)
    PROVE  LET next == [x EXCEPT !.vector_clock = Increment(@, n)]
           IN  /\ Top \in Nat /\ Top' = Top + 1
               /\ local_context' = [local_context EXCEPT ![Owner] = next]
               /\ next.data = x.data /\ x.data \in Doc /\ Count(next) = Top + 1
               /\ written' = written \cup {Entry(x, keys)}
               /\ Contexts' \subseteq Contexts \cup {next}
  <1> DEFINE next == [x EXCEPT !.vector_clock = Increment(@, n)]
  <1>1. TypeOK /\ Owner \in Node /\ local_context[Owner] \in Contexts
    BY OwnerWrites, ContextsMembers DEF VersionInvariant, OwnerInvariant
  <1>2. n = Owner /\ local_context'[Owner] = next /\ Count(next) = Top + 1
    BY <1>1, ChangeIsOwners
  <1>3. Top \in Nat /\ Top' = Top + 1
    BY <1>1, <1>2, CountType DEF Top, Count
  <1>4. next.data = x.data /\ x.data \in Doc
    BY DEF Context
  <1>5. /\ local_context' = [local_context EXCEPT ![n] = next]
        /\ written' = written \cup {[by |-> n, seq |-> next.vector_clock[n],
                                     keys |-> keys, data |-> next.data]}
        /\ Contexts' \subseteq Contexts \cup {next}
    BY DEF ChangeStep
  <1>6. next.vector_clock[n] = Top + 1
    BY <1>2 DEF Count
  <1>7. written' = written \cup {Entry(x, keys)}
    BY <1>2, <1>4, <1>5, <1>6 DEF Entry
  <1>8. QED
    BY <1>2, <1>3, <1>4, <1>5, <1>7

LEMMA OwnerShowsTop ==
    ASSUME OneOwner, VersionInvariant
    PROVE  local_context[Owner].data = DocAt(written, Top)
  BY OwnerWrites, ContextsMembers DEF VersionInvariant, ContextsAreVersions, Top

LEMMA ChangeKeepsVersions ==
    ASSUME OneOwner, VersionInvariant, KeepsKeys, NEW n \in Node, NEW x \in Context,
           NEW keys \in SUBSET Key, ChangeStep(n, x, keys)
    PROVE  /\ Numbered(written, Top)' /\ Growing(written, Top)'
           /\ ContextsAreVersions'
  <1> DEFINE next == [x EXCEPT !.vector_clock = Increment(@, n)]
             entry == Entry(x, keys)
  <1>1. /\ Top \in Nat /\ Top' = Top + 1
        /\ local_context' = [local_context EXCEPT ![Owner] = next]
        /\ next.data = x.data /\ x.data \in Doc /\ Count(next) = Top + 1
        /\ written' = written \cup {entry}
        /\ Contexts' \subseteq Contexts \cup {next}
    BY ChangeAdds
  <1>2. entry.by = Owner /\ entry.seq = Top + 1 /\ entry.data = x.data
    BY DEF Entry
  <1>3. KeysOf(DocAt(written, Top)) \subseteq KeysOf(entry.data)
    <2>1. KeysOf(local_context[Owner].data) \subseteq KeysOf(local_context'[Owner].data)
      BY OwnerWrites DEF KeepsKeys
    <2>2. local_context'[Owner].data = x.data
      BY <1>1, OwnerWrites DEF VersionInvariant, OwnerInvariant, TypeOK
    <2>3. QED
      BY <1>2, <2>1, <2>2, OwnerShowsTop
  <1>4. Numbered(written, Top) /\ Growing(written, Top)
    BY DEF VersionInvariant
  <1> HIDE DEF next, entry
  <1>5. Numbered(written \cup {entry}, Top + 1)
    BY <1>1, <1>2, <1>4, NumberedGrows
  <1>6. Growing(written \cup {entry}, Top + 1)
    BY <1>1, <1>2, <1>3, <1>4, StillGrowing
  <1>7. /\ \A k \in 0..Top : DocAt(written \cup {entry}, k) = DocAt(written, k)
        /\ DocAt(written \cup {entry}, Top + 1) = entry.data
    BY <1>1, <1>2, <1>4, VersionsStay
  <1>8. ASSUME NEW y \in Contexts'
        PROVE  y.data = DocAt(written', Count(y))
    <2>1. CASE y \in Contexts
      <3>1. Count(y) \in 0..Top
        BY <2>1, CountBounded DEF VersionInvariant
      <3>2. y.data = DocAt(written, Count(y))
        BY <2>1 DEF VersionInvariant, ContextsAreVersions
      <3>3. QED
        BY <1>1, <1>7, <3>1, <3>2
    <2>2. CASE y = next
      BY <1>1, <1>2, <1>7, <2>2
    <2>3. QED
      BY <1>1, <2>1, <2>2
  <1>9. ContextsAreVersions'
    BY <1>8 DEF ContextsAreVersions, Count
  <1>10. QED
    BY <1>1, <1>5, <1>6, <1>9

LEMMA MergeKeepsVersions ==
    ASSUME OneOwner, VersionInvariant, NEW n \in Node, NEW x \in Contexts, MergeStep(n, x)
    PROVE  /\ Numbered(written, Top)' /\ Growing(written, Top)'
           /\ ContextsAreVersions'
  <1> DEFINE merged == Merge(local_context[n], x)
  <1>1. Top' = Top /\ written' = written
    BY MergeKeepsTop DEF VersionInvariant, MergeStep
  <1>2. local_context[n] \in Contexts
    BY ContextsMembers
  <1>3. merged.data = DocAt(written, Count(merged))
    <2>1. Count(local_context[n]) \in Nat /\ Count(x) \in Nat
      BY <1>2, CountType DEF VersionInvariant, OwnerInvariant
    <2>2. Count(merged) = IF Count(x) > Count(local_context[n]) THEN Count(x)
                          ELSE Count(local_context[n])
      BY <1>2, MergeCounts DEF VersionInvariant, OwnerInvariant
    <2>3. /\ Count(local_context[n]) < Count(x) => merged.data = x.data
          /\ Count(local_context[n]) >= Count(x) => merged.data = local_context[n].data
      BY <1>2, LaterVersionWins
    <2>4. /\ x.data = DocAt(written, Count(x))
          /\ local_context[n].data = DocAt(written, Count(local_context[n]))
      BY <1>2 DEF VersionInvariant, ContextsAreVersions
    <2>5. CASE Count(local_context[n]) < Count(x)
      BY <2>1, <2>2, <2>3, <2>4, <2>5
    <2>6. CASE Count(local_context[n]) >= Count(x)
      BY <2>1, <2>2, <2>3, <2>4, <2>6
    <2>7. QED
      BY <2>1, <2>5, <2>6
  <1>4. Contexts' \subseteq Contexts \cup {merged}
    BY DEF MergeStep
  <1>5. \A y \in Contexts : y.data = DocAt(written, Count(y))
    BY DEF VersionInvariant, ContextsAreVersions
  <1>6. ContextsAreVersions'
    BY <1>1, <1>3, <1>4, <1>5 DEF ContextsAreVersions, Count
  <1>7. QED
    BY <1>1, <1>6 DEF VersionInvariant

LEMMA VersionInvariantStep ==
    ASSUME OneOwner, VersionInvariant, OwnerInvariant', KeepsKeys, [Next]_vars
    PROVE  VersionInvariant'
  <1> DEFINE Good == Numbered(written, Top)' /\ Growing(written, Top)' /\ ContextsAreVersions'
  <1>1. CASE NoContextStep
    <2>1. written' = written /\ Top' = Top /\ Contexts' \subseteq Contexts
      BY <1>1 DEF NoContextStep, Top, Count
    <2>2. Good
      BY <2>1 DEF VersionInvariant, ContextsAreVersions, Count
    <2>3. QED
      BY <2>2 DEF VersionInvariant
  <1>2. CASE \E n \in Node, x \in Context, keys \in SUBSET Key : ChangeStep(n, x, keys)
    BY <1>2, ChangeKeepsVersions DEF VersionInvariant
  <1>3. CASE \E n \in Node : \E x \in Contexts : MergeStep(n, x)
    BY <1>3, MergeKeepsVersions DEF VersionInvariant
  <1>4. QED
    BY <1>1, <1>2, <1>3, NextIsContextStep DEF ContextStep, VersionInvariant, OwnerInvariant

LEMMA VersionInvariantInit ==
    ASSUME OneOwner, Init, OwnerInvariant
    PROVE  VersionInvariant
  <1>1. \A x \in Contexts : x.vector_clock = ZeroClock /\ x.data = Skeleton
    BY InitContexts
  <1>2. \A x \in Contexts : Count(x) = 0
    BY <1>1, OwnerWrites DEF Count, ZeroClock
  <1>3. Top = 0
    BY <1>2, OwnerWrites, ContextsMembers DEF Top
  <1>4. written = {}
    BY DEF Init
  <1>5. Numbered(written, Top)
    BY <1>3, <1>4 DEF Numbered
  <1>6. Growing(written, Top)
    BY <1>3 DEF Growing
  <1>7. ContextsAreVersions
    BY <1>1, <1>2 DEF ContextsAreVersions, DocAt
  <1>8. QED
    BY <1>5, <1>6, <1>7 DEF VersionInvariant

-----------------------------------------------------------------------------
(* Each step, seen as one of the versioned document.                       *)

(* The three variables of the abstract document, as RuntimeProperties      *)
(* reads them off the mesh.                                                *)
Series(W, top) == [k \in 1..top |-> VersionIn(W, k).data]
HistoryOf == Series(written, Top)
VersionOf == [n \in Node |-> Count(local_context[n])]
ViewOf == [n \in Node |-> local_context[n].data]

LEMMA ViewAfter ==
    ASSUME TypeOK, NEW n \in Node, NEW x, local_context' = [local_context EXCEPT ![n] = x]
    PROVE  /\ VersionOf' = [VersionOf EXCEPT ![n] = Count(x)]
           /\ ViewOf' = [ViewOf EXCEPT ![n] = x.data]
  <1>1. \A m \in Node : local_context'[m] = IF m = n THEN x ELSE local_context[m]
    BY DEF TypeOK
  <1>2. \A m \in Node : Count(local_context'[m]) = IF m = n THEN Count(x) ELSE Count(local_context[m])
    BY <1>1
  <1>3. VersionOf' = [m \in Node |-> IF m = n THEN Count(x) ELSE Count(local_context[m])]
    BY <1>2 DEF VersionOf, Count
  <1>4. ViewOf' = [m \in Node |-> IF m = n THEN x.data ELSE local_context[m].data]
    BY <1>1 DEF ViewOf
  <1>5. QED
    BY <1>3, <1>4 DEF VersionOf, ViewOf

LEMMA HistoryAfter ==
    ASSUME NEW W, NEW top \in Nat, Numbered(W, top),
           NEW x, x.by = Owner, x.seq = top + 1
    PROVE  /\ Len(Series(W, top)) = top
           /\ Series(W \cup {x}, top + 1) = Append(Series(W, top), x.data)
  <1> DEFINE old == [k \in 1..top |-> VersionIn(W, k).data]
             more == [k \in 1..(top + 1) |-> VersionIn(W \cup {x}, k).data]
  <1>1. ASSUME NEW k \in 1..top
        PROVE  more[k] = old[k]
    <2>1. k \in 1..(top + 1)
      OBVIOUS
    <2>2. VersionIn(W \cup {x}, k) = VersionIn(W, k)
      BY VersionsStay
    <2>3. QED
      BY <2>1, <2>2
  <1>2. more[top + 1] = x.data
    <2>1. top + 1 \in 1..(top + 1)
      OBVIOUS
    <2>2. QED
      BY <2>1, VersionsStay
  <1>3. old \in Seq({old[k] : k \in 1..top}) /\ Len(old) = top
    <2>1. old \in [1..top -> {old[k] : k \in 1..top}]
      OBVIOUS
    <2>2. QED
      BY <2>1, SeqDef, LenProperties
  <1>4. Append(old, x.data) = [k \in 1..(top + 1) |-> IF k = top + 1 THEN x.data ELSE old[k]]
    BY <1>3
  <1>5. more = [k \in 1..(top + 1) |-> more[k]]
    OBVIOUS
  <1> HIDE DEF old, more
  <1>6. \A k \in 1..(top + 1) : more[k] = IF k = top + 1 THEN x.data ELSE old[k]
    BY <1>1, <1>2
  <1>7. more = Append(old, x.data)
    BY <1>4, <1>5, <1>6
  <1>8. QED
    BY <1>3, <1>7 DEF Series, old, more

LEMMA ChangePublishes ==
    ASSUME OneOwner, VersionInvariant, NEW n \in Node, NEW x \in Context,
           NEW keys \in SUBSET Key, ChangeStep(n, x, keys)
    PROVE  /\ x.data \in Doc
           /\ HistoryOf' = Append(HistoryOf, x.data)
           /\ VersionOf' = [VersionOf EXCEPT ![Owner] = Len(HistoryOf) + 1]
           /\ ViewOf' = [ViewOf EXCEPT ![Owner] = x.data]
  <1> DEFINE next == [x EXCEPT !.vector_clock = Increment(@, n)]
             entry == Entry(x, keys)
  <1>1. /\ Top \in Nat /\ Top' = Top + 1
        /\ local_context' = [local_context EXCEPT ![Owner] = next]
        /\ next.data = x.data /\ x.data \in Doc /\ Count(next) = Top + 1
        /\ written' = written \cup {entry}
    BY ChangeAdds
  <1>2. entry.by = Owner /\ entry.seq = Top + 1 /\ entry.data = x.data
    BY DEF Entry
  <1>3. Owner \in Node /\ TypeOK /\ Numbered(written, Top)
    BY OwnerWrites DEF VersionInvariant, OwnerInvariant
  <1> HIDE DEF next, entry
  <1>4. /\ VersionOf' = [VersionOf EXCEPT ![Owner] = Top + 1]
        /\ ViewOf' = [ViewOf EXCEPT ![Owner] = x.data]
    <2>1. /\ VersionOf' = [VersionOf EXCEPT ![Owner] = Count(next)]
          /\ ViewOf' = [ViewOf EXCEPT ![Owner] = next.data]
      BY <1>1, <1>3, ViewAfter
    <2>2. QED
      BY <1>1, <2>1
  <1>5. Len(HistoryOf) = Top /\ Series(written \cup {entry}, Top + 1) = Append(HistoryOf, x.data)
    BY <1>1, <1>2, <1>3, HistoryAfter DEF HistoryOf
  <1>6. HistoryOf' = Series(written', Top')
    BY DEF HistoryOf, Series, VersionIn
  <1>7. QED
    BY <1>1, <1>4, <1>5, <1>6

LEMMA HistoryLen ==
    ASSUME OneOwner, TypeOK
    PROVE  Len(HistoryOf) = Top /\ \A k \in 1..Top : HistoryOf[k] = DocAt(written, k)
  <1>1. Top \in Nat
    BY OwnerWrites, ContextsMembers, CountType
  <1>2. HistoryOf \in Seq({HistoryOf[k] : k \in 1..Top}) /\ Len(HistoryOf) = Top
    <2>1. HistoryOf \in [1..Top -> {HistoryOf[k] : k \in 1..Top}]
      BY DEF HistoryOf, Series
    <2>2. QED
      BY <1>1, <2>1, SeqDef, LenProperties
  <1>3. \A k \in 1..Top : HistoryOf[k] = VersionIn(written, k).data /\ k # 0
    BY <1>1 DEF HistoryOf, Series
  <1>4. QED
    BY <1>2, <1>3 DEF DocAt

LEMMA MergeCatchesUp ==
    ASSUME OneOwner, VersionInvariant, NEW n \in Node, NEW x \in Contexts, MergeStep(n, x)
    PROVE  /\ HistoryOf' = HistoryOf
           /\ \/ VersionOf' = VersionOf /\ ViewOf' = ViewOf
              \/ /\ Count(x) \in 1..Len(HistoryOf)
                 /\ Count(x) > VersionOf[n]
                 /\ VersionOf' = [VersionOf EXCEPT ![n] = Count(x)]
                 /\ ViewOf' = [ViewOf EXCEPT ![n] = HistoryOf[Count(x)]]
  <1> DEFINE c == local_context[n]
             merged == Merge(c, x)
  <1>1. TypeOK /\ OnlyOwnerCounts /\ c \in Contexts
    BY ContextsMembers DEF VersionInvariant, OwnerInvariant
  <1>2. Count(c) \in Nat /\ Count(x) \in Nat /\ Top \in Nat /\ Count(x) \in 0..Top
    BY <1>1, CountType, CountBounded DEF VersionInvariant
  <1>3. HistoryOf' = HistoryOf
    <2>1. written' = written /\ Top' = Top
      BY MergeKeepsTop DEF VersionInvariant, MergeStep
    <2>2. QED
      BY <2>1 DEF HistoryOf, Series, VersionIn
  <1>4. /\ VersionOf' = [VersionOf EXCEPT ![n] = Count(merged)]
        /\ ViewOf' = [ViewOf EXCEPT ![n] = merged.data]
    <2>1. local_context' = [local_context EXCEPT ![n] = merged]
      BY <1>1 DEF MergeStep, TypeOK
    <2>2. QED
      BY <1>1, <2>1, ViewAfter
  <1>5. Count(merged) = IF Count(x) > Count(c) THEN Count(x) ELSE Count(c)
    BY <1>1, MergeCounts
  <1>6. /\ Count(c) < Count(x) => merged.data = x.data
        /\ Count(c) >= Count(x) => merged.data = c.data
    BY <1>1, LaterVersionWins
  <1>7. VersionOf[n] = Count(c) /\ ViewOf[n] = c.data
    BY DEF VersionOf, ViewOf
  <1> HIDE DEF c, merged
  <1>8. CASE Count(c) < Count(x)
    <2>1. Count(x) \in 1..Top
      BY <1>2, <1>8
    <2>2. x.data = HistoryOf[Count(x)] /\ Len(HistoryOf) = Top
      BY <1>1, <2>1, HistoryLen DEF VersionInvariant, ContextsAreVersions
    <2>3. Count(merged) = Count(x) /\ merged.data = HistoryOf[Count(x)]
      BY <1>2, <1>5, <1>6, <1>8, <2>2
    <2>4. QED
      BY <1>2, <1>3, <1>4, <1>7, <1>8, <2>1, <2>2, <2>3
  <1>9. CASE Count(c) >= Count(x)
    <2>1. Count(merged) = VersionOf[n] /\ merged.data = ViewOf[n]
      BY <1>2, <1>5, <1>6, <1>7, <1>9
    <2>2. VersionOf' = VersionOf /\ ViewOf' = ViewOf
      BY <1>4, <2>1 DEF VersionOf, ViewOf
    <2>3. QED
      BY <1>3, <2>2
  <1>10. QED
    BY <1>2, <1>8, <1>9

LEMMA NoContextStepStutters ==
    ASSUME NoContextStep
    PROVE  UNCHANGED <<HistoryOf, VersionOf, ViewOf>>
  BY DEF NoContextStep, HistoryOf, Series, VersionOf, ViewOf, VersionIn, Top, Count

LEMMA VersionsInit ==
    ASSUME OneOwner
    PROVE  Init => Versions!Init
  <1> SUFFICES ASSUME Init PROVE Versions!Init
    OBVIOUS
  <1>1. \A n \in Node : /\ local_context[n].vector_clock[Owner] = 0
                        /\ local_context[n].data = Skeleton
    BY InitContexts, ContextsMembers, OwnerWrites DEF ZeroClock
  <1>2. local_context[Owner].vector_clock[Owner] = 0
    BY <1>1, OwnerWrites
  <1>3. QED
    BY <1>1, <1>2 DEF Versions!Init

LEMMA VersionsNext ==
    ASSUME OneOwner, VersionInvariant, [Next]_vars
    PROVE  [Versions!Next]_<<HistoryOf, VersionOf, ViewOf>>
  <1> USE DEF HistoryOf, Series, VersionOf, ViewOf, VersionIn, Top, Count
  <1>1. CASE NoContextStep
    BY <1>1, NoContextStepStutters
  <1>2. ASSUME NEW n \in Node, NEW x \in Context, NEW keys \in SUBSET Key, ChangeStep(n, x, keys)
        PROVE  Versions!PublishVersion(x.data) /\ x.data \in Doc
    BY <1>2, ChangePublishes DEF Versions!PublishVersion, Versions!Move
  <1>3. ASSUME NEW n \in Node, NEW x \in Contexts, MergeStep(n, x)
        PROVE  Versions!Next \/ UNCHANGED <<HistoryOf, VersionOf, ViewOf>>
    BY <1>3, MergeCatchesUp DEF Versions!Next, Versions!CatchUp, Versions!Move
  <1>4. QED
    BY <1>1, <1>2, <1>3, NextIsContextStep
       DEF ContextStep, VersionInvariant, OwnerInvariant, Versions!Next

LEMMA StepKeepsKeys ==
    ASSUME OneOwner, WholeReplacements, OwnerInvariant, [Next]_vars
    PROVE  KeepsKeys
  <1>1. /\ TypeOK /\ OnlyOwnerCounts /\ Owner \in Node /\ Writer = {Owner}
        /\ local_context[Owner] \in Contexts
    BY OwnerWrites, ContextsMembers DEF OwnerInvariant
  <1>2. SUFFICES KeysOf(local_context[Owner].data) \subseteq KeysOf(local_context'[Owner].data)
    BY <1>1 DEF KeepsKeys
  <1>3. CASE NoContextStep
    BY <1>3 DEF NoContextStep
  <1>4. ASSUME NEW n \in Node, NEW x \in Context, NEW keys \in SUBSET Key, ChangeStep(n, x, keys)
        PROVE  KeysOf(local_context[Owner].data) \subseteq KeysOf(local_context'[Owner].data)
    <2>1. n = Owner /\ local_context'[Owner] = [x EXCEPT !.vector_clock = Increment(@, n)]
      BY <1>1, <1>4, ChangeIsOwners
    <2>2. local_context'[Owner].data = x.data
      BY <2>1 DEF Context
    <2>3. QED
      BY <1>4, <2>1, <2>2 DEF ChangeStep
  <1>5. ASSUME NEW n \in Node, NEW x \in Contexts, MergeStep(n, x)
        PROVE  KeysOf(local_context[Owner].data) \subseteq KeysOf(local_context'[Owner].data)
    <2>1. CASE n # Owner
      BY <1>1, <1>5, <2>1 DEF MergeStep, TypeOK
    <2>2. CASE n = Owner
      <3>1. local_context'[Owner] = Merge(local_context[Owner], x)
        BY <1>1, <1>5, <2>2 DEF MergeStep, TypeOK
      <3>2. /\ Count(x) \in 0..Top /\ Top \in Nat
            /\ local_context[Owner].data \in Doc /\ x.data \in Doc
        BY <1>1, CountType, CountBounded DEF Context
      <3>3. /\ Top > Count(x) => local_context'[Owner].data
                                   = DeepMerge(local_context[Owner].data, x.data, TRUE)
            /\ Top = Count(x) => local_context'[Owner].data = local_context[Owner].data
        <4>1. /\ Count(local_context[Owner]) > Count(x) =>
                    Merge(local_context[Owner], x).data
                      = DeepMerge(local_context[Owner].data, x.data, TRUE)
              /\ Count(local_context[Owner]) = Count(x) =>
                    Merge(local_context[Owner], x).data = local_context[Owner].data
          BY <1>1, MergeData
        <4>2. QED
          BY <3>1, <4>1 DEF Top
      <3>4. CASE Top > Count(x)
        BY <3>2, <3>3, <3>4, DeepMergeKeys
      <3>5. CASE Top = Count(x)
        BY <3>3, <3>5
      <3>6. QED
        BY <3>2, <3>4, <3>5
    <2>3. QED
      BY <2>1, <2>2
  <1>6. QED
    BY <1>1, <1>3, <1>4, <1>5, NextIsContextStep DEF ContextStep

(* Where one node writes and never drops a key, every node shows a version *)
(* that the writer had, whole, and only ever goes on to a later one: the   *)
(* broadcasts, the SyncContexts and the merges (AviContext::merge) of any  *)
(* mesh implement the versioned document.                                  *)
THEOREM ReplicasShowVersions ==
    ASSUME OneOwner
    PROVE  Spec /\ [][KeepsKeys]_vars => OneWriterIsVersioned
  <1>1. Init => Versions!Init
    BY VersionsInit
  <1>2. Init /\ OwnerInvariant => VersionInvariant
    BY VersionInvariantInit
  <1>3. UNCHANGED vars => KeepsKeys
    BY DEF KeepsKeys, vars, replica
  <1>4. VersionInvariant /\ OwnerInvariant' /\ [Next]_vars /\ [KeepsKeys]_vars
          => VersionInvariant'
    BY <1>3, VersionInvariantStep
  <1>5. VersionInvariant /\ [Next]_vars =>
          [Versions!Next]_<<[k \in 1..local_context[Owner].vector_clock[Owner] |->
                               (CHOOSE w \in written : w.by = Owner /\ w.seq = k).data],
                            [n \in Node |-> local_context[n].vector_clock[Owner]],
                            [n \in Node |-> local_context[n].data]>>
    BY VersionsNext DEF HistoryOf, Series, VersionOf, ViewOf, VersionIn, Top, Count
  <1>6. QED
    BY <1>1, <1>2, <1>4, <1>5, OwnerInvariantHolds, PTL
       DEF Spec, OneWriterIsVersioned, Versions!Spec

(* The same from what the application may ask for: it patches as it likes, *)
(* and replaces its document only by one with every key.                   *)
THEOREM OneWriterImplementsVersions ==
    ASSUME OneOwner, WholeReplacements
    PROVE  Spec => OneWriterIsVersioned
  <1>1. OwnerInvariant /\ [Next]_vars => [KeepsKeys]_vars
    BY StepKeepsKeys
  <1>2. Spec => [][KeepsKeys]_vars
    BY <1>1, OwnerInvariantHolds, PTL DEF Spec
  <1>3. QED
    BY <1>2, ReplicasShowVersions

(* Where one node writes and never drops a key, replicas with equal clocks *)
(* show the same document, which is what PartialCmp's "Equal" branch of    *)
(* AviContext::merge relies on.  Neither hypothesis can go: with a second  *)
(* writer the run ContextsDiverge shows two documents under one clock, and *)
(* with a deletion the run DeletionUndone brings a key back under it.      *)
THEOREM EqualClocksShowOneDocument ==
    ASSUME OneOwner, WholeReplacements
    PROVE  Spec => []EqualClocksAgree
  <1>1. Init /\ OwnerInvariant => VersionInvariant
    BY VersionInvariantInit
  <1>2. VersionInvariant /\ OwnerInvariant' /\ [Next]_vars => VersionInvariant'
    <2>1. SUFFICES ASSUME VersionInvariant, OwnerInvariant', [Next]_vars
                   PROVE  VersionInvariant'
      OBVIOUS
    <2>2. OwnerInvariant
      BY <2>1 DEF VersionInvariant
    <2>3. KeepsKeys
      BY <2>1, <2>2, StepKeepsKeys DEF KeepsKeys, vars, replica
    <2>4. QED
      BY <2>1, <2>3, VersionInvariantStep
  <1>3. VersionInvariant => EqualClocksAgree
    <2>1. SUFFICES ASSUME VersionInvariant, NEW n \in Node, NEW p \in Node,
                          local_context[n].vector_clock = local_context[p].vector_clock
                   PROVE  local_context[n].data = local_context[p].data
      BY DEF EqualClocksAgree
    <2>2. local_context[n] \in Contexts /\ local_context[p] \in Contexts
      BY ContextsMembers
    <2>3. Count(local_context[n]) = Count(local_context[p])
      BY <2>1 DEF Count
    <2>4. QED
      BY <2>1, <2>2, <2>3 DEF VersionInvariant, ContextsAreVersions
  <1>4. QED
    BY <1>1, <1>2, <1>3, OwnerInvariantHolds, PTL DEF Spec
=============================================================================

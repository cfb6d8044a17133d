------------------------- MODULE ContextCallsProofs -------------------------
(***************************************************************************)
(* Proofs about the calls that edit a context at a path, for every         *)
(* document, every menu of calls and any number of tasks.                  *)
(*                                                                         *)
(* The first part is about paths, element by element; the second about     *)
(* what the edits and the merge do to a tree; the third about the calls.   *)
(***************************************************************************)
EXTENDS TLAPS, SequenceTheorems, ContextLaws

-----------------------------------------------------------------------------
(* Paths.                                                                  *)

\* A prefix is what agrees with the longer path as far as it goes.
LEMMA PrefixElements ==
    ASSUME NEW p \in Path, NEW q \in Path
    PROVE  IsPrefix(p, q) <=> Len(p) <= Len(q) /\ \A i \in 1..Len(p) : p[i] = q[i]
<1>1. CASE Len(p) <= Len(q)
  <2>1. SubSeq(p, 1, Len(p)) = p
    BY SubSeqFull DEF Path
  <2>2. /\ SubSeq(q, 1, Len(p)) \in Seq(Name)
        /\ Len(SubSeq(q, 1, Len(p))) = Len(p)
        /\ \A i \in 1..Len(p) : SubSeq(q, 1, Len(p))[i] = q[i]
    BY <1>1, LenProperties, SubSeqProperties DEF Path
  <2>3. SubSeq(q, 1, Len(p)) = p <=> \A i \in 1..Len(p) : p[i] = q[i]
    BY <2>2, SeqEqual DEF Path
  <2> QED
    BY <1>1, <2>1, <2>3 DEF IsPrefix
<1>2. CASE ~(Len(p) <= Len(q))
  BY <1>2 DEF IsPrefix
<1> QED
  BY <1>1, <1>2

\* The paths above a path are its strict prefixes.
LEMMA AboveIsStrictPrefix ==
    ASSUME NEW p \in Path, NEW q
    PROVE  q \in Above(p) <=> q \in Path /\ IsPrefix(q, p) /\ Len(q) < Len(p)
<1>1. Len(p) \in Nat
  BY DEF Path
<1>2. ASSUME NEW n \in 0..(Len(p) - 1)
      PROVE  /\ SubSeq(p, 1, n) \in Path
             /\ Len(SubSeq(p, 1, n)) = n
             /\ \A i \in 1..n : SubSeq(p, 1, n)[i] = p[i]
  BY <1>1, SubSeqProperties DEF Path
<1>3. ASSUME q \in Above(p)
      PROVE  q \in Path /\ IsPrefix(q, p) /\ Len(q) < Len(p)
  <2>1. PICK n \in 0..(Len(p) - 1) : q = SubSeq(p, 1, n)
    BY <1>3 DEF Above
  <2>2. q \in Path /\ Len(q) = n /\ \A i \in 1..Len(q) : q[i] = p[i]
    BY <1>2, <2>1
  <2>3. Len(q) < Len(p) /\ Len(q) <= Len(p)
    BY <1>1, <2>2
  <2> QED
    BY <2>2, <2>3, PrefixElements
<1>4. ASSUME q \in Path, IsPrefix(q, p), Len(q) < Len(p)
      PROVE  q \in Above(p)
  <2>1. Len(q) \in 0..(Len(p) - 1)
    BY <1>1, <1>4 DEF Path
  <2>2. SubSeq(p, 1, Len(q)) = q
    BY <1>2, <1>4, <2>1, PrefixElements, SeqEqual DEF Path
  <2> QED
    BY <2>1, <2>2 DEF Above
<1> QED
  BY <1>3, <1>4

LEMMA PrefixIsAbove ==
    ASSUME NEW p \in Path, NEW x \in Path, IsPrefix(p, x)
    PROVE  p = x \/ p \in Above(x)
<1>1. CASE Len(p) < Len(x)
  BY <1>1, AboveIsStrictPrefix
<1>2. CASE ~(Len(p) < Len(x))
  <2>1. Len(p) = Len(x) /\ \A i \in 1..Len(p) : p[i] = x[i]
    BY <1>2, PrefixElements DEF Path
  <2> QED
    BY <2>1, SeqEqual DEF Path
<1> QED
  BY <1>1, <1>2

LEMMA AboveElements ==
    ASSUME NEW p \in Path, NEW q
    PROVE  q \in Above(p) <=>
              q \in Path /\ Len(q) < Len(p) /\ \A i \in 1..Len(q) : q[i] = p[i]
BY AboveIsStrictPrefix, PrefixElements, LenProperties DEF Path

LEMMA AboveTransitive ==
    ASSUME NEW p \in Path, NEW q \in Above(p), NEW r \in Above(q)
    PROVE  r \in Above(p)
<1>1. q \in Path /\ Len(q) < Len(p) /\ \A i \in 1..Len(q) : q[i] = p[i]
  BY AboveElements
<1>2. r \in Path /\ Len(r) < Len(q) /\ \A i \in 1..Len(r) : r[i] = q[i]
  BY <1>1, AboveElements
<1>3. Len(p) \in Nat /\ Len(q) \in Nat /\ Len(r) \in Nat
  BY <1>1, <1>2 DEF Path
<1> QED
  BY <1>1, <1>2, <1>3, AboveElements

\* Everything that is not above a path, and does not extend it, and what
\* lies below such a path.
LEMMA PrefixOfAbove ==
    ASSUME NEW p \in Path, NEW r \in Path, NEW q \in Above(r), IsPrefix(p, q)
    PROVE  IsPrefix(p, r)
<1>1. q \in Path /\ Len(q) < Len(r) /\ \A i \in 1..Len(q) : q[i] = r[i]
  BY AboveElements
<1>2. Len(p) <= Len(q) /\ \A i \in 1..Len(p) : p[i] = q[i]
  BY <1>1, PrefixElements
<1>3. Len(p) \in Nat /\ Len(q) \in Nat /\ Len(r) \in Nat
  BY <1>1 DEF Path
<1> QED
  BY <1>1, <1>2, <1>3, PrefixElements

LEMMA AboveNotExtending ==
    ASSUME NEW p \in Path, NEW q \in Above(p)
    PROVE  ~IsPrefix(p, q)
<1>1. q \in Path /\ Len(q) < Len(p)
  BY AboveElements
<1> QED
  BY <1>1, PrefixElements DEF Path

LEMMA RootIsAbove ==
    ASSUME NEW p \in Path, p # <<>>
    PROVE  <<>> \in Above(p)
<1>1. <<>> \in Path /\ Len(<<>>) = 0
  BY DEF Path
<1>2. Len(p) > 0
  BY EmptySeq, LenProperties DEF Path
<1> QED
  BY <1>1, <1>2, AboveElements

LEMMA NothingAboveRoot == Above(<<>>) = {}
<1>1. <<>> \in Path /\ Len(<<>>) = 0
  BY DEF Path
<1>2. ASSUME NEW q \in Above(<<>>) PROVE FALSE
  <2>1. q \in Path /\ Len(q) < 0
    BY <1>1, AboveElements
  <2> QED
    BY <2>1, LenProperties DEF Path
<1> QED
  BY <1>2

LEMMA ConcatPath ==
    ASSUME NEW p \in Path, NEW s \in Path
    PROVE  /\ p \o s \in Path
           /\ Len(p \o s) = Len(p) + Len(s)
           /\ IsPrefix(p, p \o s)
           /\ Rest(p, p \o s) = s
<1>1. /\ p \o s \in Path
      /\ Len(p \o s) = Len(p) + Len(s)
      /\ \A i \in 1..Len(p) : (p \o s)[i] = p[i]
      /\ \A i \in 1..Len(s) : (p \o s)[Len(p) + i] = s[i]
  BY ConcatProperties, LenProperties DEF Path
<1>2. Len(p) \in Nat /\ Len(s) \in Nat
  BY DEF Path
<1>3. IsPrefix(p, p \o s)
  <2> DEFINE r == p \o s
  <2>1. r \in Path /\ Len(p) <= Len(r) /\ \A i \in 1..Len(p) : p[i] = r[i]
    BY <1>1, <1>2
  <2> HIDE DEF r
  <2>2. IsPrefix(p, r)
    BY <2>1, PrefixElements
  <2> QED
    BY <2>2 DEF r
<1>4. Rest(p, p \o s) = s
  <2>1. \A i \in (Len(p) + 1)..Len(p \o s) : (p \o s)[i] \in Name
    BY <1>1, <1>2, LenProperties DEF Path
  <2>2. /\ Rest(p, p \o s) \in Path
        /\ Len(Rest(p, p \o s)) = Len(s)
        /\ \A i \in 1..Len(s) : Rest(p, p \o s)[i] = (p \o s)[Len(p) + 1 + i - 1]
    BY <1>1, <1>2, <2>1, SubSeqProperties DEF Path, Rest
  <2>3. \A i \in 1..Len(s) : Rest(p, p \o s)[i] = s[i]
    BY <1>1, <1>2, <2>2
  <2> QED
    BY <2>2, <2>3, SeqEqual DEF Path
<1> QED
  BY <1>1, <1>3, <1>4

LEMMA PrefixAndRest ==
    ASSUME NEW p \in Path, NEW r \in Path, IsPrefix(p, r)
    PROVE  Rest(p, r) \in Path /\ r = p \o Rest(p, r)
<1>1. Len(p) \in Nat /\ Len(r) \in Nat /\ Len(p) <= Len(r)
  BY PrefixElements DEF Path
<1>2. \A i \in 1..Len(p) : p[i] = r[i]
  BY PrefixElements
<1>3. /\ Rest(p, r) \in Path
      /\ Len(Rest(p, r)) = Len(r) - Len(p)
      /\ \A i \in 1..(Len(r) - Len(p)) : Rest(p, r)[i] = r[Len(p) + i]
  <2>1. \A i \in (Len(p) + 1)..Len(r) : r[i] \in Name
    BY <1>1, LenProperties DEF Path
  <2>2. /\ Rest(p, r) \in Path
        /\ Len(Rest(p, r)) = Len(r) - Len(p)
        /\ \A i \in 1..(Len(r) - Len(p)) : Rest(p, r)[i] = r[Len(p) + 1 + i - 1]
    BY <1>1, <2>1, SubSeqProperties DEF Path, Rest
  <2> QED
    BY <1>1, <2>2
<1>4. /\ p \o Rest(p, r) \in Path
      /\ Len(p \o Rest(p, r)) = Len(r)
      /\ \A i \in 1..Len(p) : (p \o Rest(p, r))[i] = p[i]
      /\ \A i \in 1..Len(Rest(p, r)) : (p \o Rest(p, r))[Len(p) + i] = Rest(p, r)[i]
  BY <1>1, <1>3, ConcatProperties, ConcatPath DEF Path
<1>5. \A i \in 1..Len(r) : (p \o Rest(p, r))[i] = r[i]
  <2> TAKE i \in 1..Len(r)
  <2>1. CASE i <= Len(p)
    BY <1>2, <1>4, <2>1
  <2>2. CASE i > Len(p)
    <3> DEFINE j == i - Len(p)
    <3>1. j \in 1..(Len(r) - Len(p)) /\ i = Len(p) + j
      BY <1>1, <2>2
    <3>2. Rest(p, r)[j] = r[Len(p) + j]
      BY <1>3, <3>1
    <3>3. (p \o Rest(p, r))[Len(p) + j] = Rest(p, r)[j]
      BY <1>3, <1>4, <3>1
    <3> QED
      BY <3>1, <3>2, <3>3
  <2>3. i <= Len(p) \/ i > Len(p)
    BY <1>1
  <2> QED
    BY <2>1, <2>2, <2>3
<1> QED
  BY <1>3, <1>4, <1>5, SeqEqual DEF Path

\* The paths above one that extends p are above p, or extend p by a path
\* above the extension.
LEMMA AboveExtension ==
    ASSUME NEW p \in Path, NEW s \in Path, NEW q \in Above(p \o s)
    PROVE  /\ q \in Path
           /\ ~IsPrefix(p, q) => q \in Above(p)
           /\ IsPrefix(p, q) => Rest(p, q) \in Above(s)
<1>1. /\ p \o s \in Path
      /\ Len(p \o s) = Len(p) + Len(s)
      /\ \A i \in 1..Len(p) : (p \o s)[i] = p[i]
      /\ \A i \in 1..Len(s) : (p \o s)[Len(p) + i] = s[i]
  BY ConcatProperties, LenProperties DEF Path
<1>2. q \in Path /\ Len(q) < Len(p) + Len(s) /\ \A i \in 1..Len(q) : q[i] = (p \o s)[i]
  BY <1>1, AboveElements
<1>3. Len(p) \in Nat /\ Len(s) \in Nat /\ Len(q) \in Nat
  BY <1>2 DEF Path
<1>4. ASSUME ~IsPrefix(p, q) PROVE q \in Above(p)
  <2>1. CASE Len(q) < Len(p)
    BY <1>1, <1>2, <1>3, <2>1, AboveElements
  <2>2. CASE Len(p) <= Len(q)
    BY <1>1, <1>2, <1>3, <1>4, <2>2, PrefixElements
  <2> QED
    BY <1>3, <2>1, <2>2
<1>5. ASSUME IsPrefix(p, q) PROVE Rest(p, q) \in Above(s)
  <2> DEFINE t == Rest(p, q)
  <2>1. t \in Path /\ q = p \o t
    BY <1>2, <1>5, PrefixAndRest
  <2> HIDE DEF t
  <2>2. /\ Len(q) = Len(p) + Len(t) /\ Len(t) \in Nat
        /\ \A i \in 1..Len(t) : q[Len(p) + i] = t[i]
    BY <2>1, ConcatProperties DEF Path
  <2>3. ASSUME NEW i \in 1..Len(t) PROVE t[i] = s[i]
    <3>1. Len(p) + i \in 1..Len(q) /\ i \in 1..Len(s)
      BY <1>2, <1>3, <2>2
    <3>2. q[Len(p) + i] = (p \o s)[Len(p) + i]
      BY <1>2, <3>1
    <3> QED
      BY <1>1, <2>2, <3>1, <3>2
  <2>4. t \in Above(s)
    BY <1>2, <1>3, <2>1, <2>2, <2>3, AboveElements
  <2> QED
    BY <2>4 DEF t
<1> QED
  BY <1>2, <1>4, <1>5

-----------------------------------------------------------------------------
(* Edits and merges of trees.                                              *)

\* A leaf at the root is the whole document.
LEMMA LeafRoot ==
    ASSUME NEW d, IsTree(d), d[<<>>] # Object, NEW r \in DOMAIN d
    PROVE  r = <<>>
BY RootIsAbove DEF IsTree

LEMMA EmptyIsTree == IsTree(EmptyObject)
<1>1. <<>> \in Path
  BY DEF Path
<1> QED
  BY <1>1, NothingAboveRoot DEF IsTree, EmptyObject

LEMMA RootedIsTree ==
    ASSUME NEW d, IsTree(d)
    PROVE  IsTree(Rooted(d)) /\ Rooted(d)[<<>>] = Object
BY EmptyIsTree DEF Rooted, EmptyObject

LEMMA SetNestedValueIsTree ==
    ASSUME NEW d, IsTree(d), NEW p \in Path, NEW v, IsTree(v)
    PROVE  IsTree(SetNestedValue(d, p, v))
<1> DEFINE old == Rooted(d)
           kept == {r \in DOMAIN old : ~IsPrefix(p, r)}
           below == {p \o s : s \in DOMAIN v}
           set == SetNestedValue(d, p, v)
<1>1. IsTree(old)
  BY RootedIsTree
<1>2. /\ DOMAIN set = kept \cup Above(p) \cup below
      /\ \A r \in DOMAIN set :
            set[r] = IF IsPrefix(p, r) THEN v[Rest(p, r)]
                     ELSE IF r \in Above(p) THEN Object ELSE old[r]
  BY DEF SetNestedValue
<1> HIDE DEF old, set
<1>3. ASSUME NEW r \in kept
      PROVE  /\ r \in Path /\ set[r] \in Leaf \cup {Object}
             /\ \A q \in Above(r) : q \in DOMAIN set /\ set[q] = Object
  <2>1. r \in Path /\ old[r] \in Leaf \cup {Object}
    BY <1>1 DEF IsTree
  <2>2. \A q \in Above(r) : q \in kept /\ old[q] = Object
    BY <1>1, <2>1, PrefixOfAbove DEF IsTree
  <2> QED
    BY <1>2, <2>1, <2>2
<1>4. ASSUME NEW r \in Above(p)
      PROVE  /\ r \in Path /\ set[r] \in Leaf \cup {Object}
             /\ \A q \in Above(r) : q \in DOMAIN set /\ set[q] = Object
  <2>1. r \in Path /\ \A q \in Above(r) : q \in Above(p)
    BY AboveElements, AboveTransitive
  <2> QED
    BY <1>2, <2>1, AboveNotExtending
<1>5. ASSUME NEW r \in below
      PROVE  /\ r \in Path /\ set[r] \in Leaf \cup {Object}
             /\ \A q \in Above(r) : q \in DOMAIN set /\ set[q] = Object
  <2>1. PICK s \in DOMAIN v : r = p \o s
    OBVIOUS
  <2>2. s \in Path /\ v[s] \in Leaf \cup {Object}
    BY DEF IsTree
  <2>3. r \in Path /\ IsPrefix(p, r) /\ Rest(p, r) = s
    BY <2>1, <2>2, ConcatPath
  <2>4. ASSUME NEW q \in Above(r), ~IsPrefix(p, q)
        PROVE  q \in DOMAIN set /\ set[q] = Object
    BY <1>2, <2>1, <2>2, <2>4, AboveExtension
  <2>5. ASSUME NEW q \in Above(r), IsPrefix(p, q)
        PROVE  q \in DOMAIN set /\ set[q] = Object
    <3>1. q \in Path /\ Rest(p, q) \in Above(s)
      BY <2>1, <2>2, <2>5, AboveExtension
    <3>2. Rest(p, q) \in DOMAIN v /\ v[Rest(p, q)] = Object
      BY <3>1 DEF IsTree
    <3>3. q = p \o Rest(p, q)
      BY <2>5, <3>1, PrefixAndRest
    <3> QED
      BY <1>2, <2>5, <3>2, <3>3
  <2> QED
    BY <1>2, <2>2, <2>3, <2>4, <2>5
<1>6. <<>> \in DOMAIN set
  <2>1. CASE p = <<>>
    <3>1. <<>> \in DOMAIN v /\ <<>> = p \o <<>>
      BY <2>1 DEF IsTree
    <3> QED
      BY <1>2, <3>1
  <2>2. CASE p # <<>>
    BY <1>2, <2>2, RootIsAbove
  <2> QED
    BY <2>1, <2>2
<1>7. IsTree(set)
  BY <1>2, <1>3, <1>4, <1>5, <1>6 DEF IsTree
<1> QED
  BY <1>7 DEF set

LEMMA DeleteNestedValueIsTree ==
    ASSUME NEW d, IsTree(d), NEW p \in Path
    PROVE  IsTree(DeleteNestedValue(d, p))
<1>1. CASE p = <<>>
  BY <1>1, EmptyIsTree DEF DeleteNestedValue
<1>2. CASE p # <<>>
  <2> DEFINE kept == {q \in DOMAIN d : ~IsPrefix(p, q)}
  <2>1. DeleteNestedValue(d, p) = [r \in kept |-> d[r]]
    BY <1>2 DEF DeleteNestedValue
  <2>2. <<>> \in kept
    BY <1>2, RootIsAbove, AboveNotExtending DEF IsTree
  <2>3. \A r \in kept : \A q \in Above(r) : q \in kept /\ d[q] = Object
    BY PrefixOfAbove DEF IsTree
  <2>4. \A r \in kept : r \in Path /\ d[r] \in Leaf \cup {Object}
    BY DEF IsTree
  <2> HIDE DEF kept
  <2> QED
    BY <2>1, <2>2, <2>3, <2>4 DEF IsTree
<1> QED
  BY <1>1, <1>2

\* What merging leaves, with the two documents in the order of preference.
LEMMA MergedIsTree ==
    ASSUME NEW w, IsTree(w), NEW l, IsTree(l), NEW added, NEW m,
           added = {r \in DOMAIN l : \A q \in Above(r) \cup {r} :
                       ~(q \in DOMAIN w \cap DOMAIN l /\ ~(w[q] = Object /\ l[q] = Object))},
           m = [r \in DOMAIN w \cup added |-> IF r \in DOMAIN w THEN w[r] ELSE l[r]]
    PROVE  IsTree(m)
<1>1. ASSUME NEW r \in added, NEW q \in Above(r)
      PROVE  q \in added /\ m[q] = Object
  <2>1. r \in Path /\ q \in DOMAIN l /\ l[q] = Object
    BY DEF IsTree
  <2>2. Above(q) \cup {q} \subseteq Above(r)
    BY <2>1, AboveTransitive
  <2>3. q \in added
    BY <2>1, <2>2
  <2>4. CASE q \in DOMAIN w
    BY <2>1, <2>3, <2>4
  <2>5. CASE q \notin DOMAIN w
    BY <2>1, <2>3, <2>5
  <2> QED
    BY <2>3, <2>4, <2>5
<1>2. \A r \in DOMAIN m : r \in Path /\ m[r] \in Leaf \cup {Object}
  BY DEF IsTree
<1>3. \A r \in DOMAIN w : \A q \in Above(r) : q \in DOMAIN m /\ m[q] = Object
  BY DEF IsTree
<1>4. <<>> \in DOMAIN m
  BY DEF IsTree
<1>5. DOMAIN m = DOMAIN w \cup added
  OBVIOUS
<1> QED
  BY <1>1, <1>2, <1>3, <1>4, <1>5 DEF IsTree

LEMMA DeepMergeIsTree ==
    ASSUME NEW a, IsTree(a), NEW b, IsTree(b), NEW preferA \in BOOLEAN
    PROVE  IsTree(DeepMerge(a, b, preferA))
<1> DEFINE w == IF preferA THEN a ELSE b
           l == IF preferA THEN b ELSE a
           added == {r \in DOMAIN l : \A q \in Above(r) \cup {r} :
                       ~(q \in DOMAIN w \cap DOMAIN l /\ ~(w[q] = Object /\ l[q] = Object))}
           m == [r \in DOMAIN w \cup added |-> IF r \in DOMAIN w THEN w[r] ELSE l[r]]
<1>1. IsTree(w) /\ IsTree(l)
  OBVIOUS
<1>2. \A q : Clash(a, b, q) <=> q \in DOMAIN w \cap DOMAIN l /\ ~(w[q] = Object /\ l[q] = Object)
  BY DEF Clash
<1>3. added = {r \in DOMAIN l : \A q \in Above(r) \cup {r} : ~Clash(a, b, q)}
  BY <1>2
<1>4. DeepMerge(a, b, preferA) = m
  BY <1>3 DEF DeepMerge
<1>5. IsTree(m)
  <2> HIDE DEF w, l
  <2> QED
    BY <1>1, MergedIsTree
<1> QED
  BY <1>4, <1>5

-----------------------------------------------------------------------------
(* The calls.                                                              *)

LEMMA CallsAreCalls ==
    ASSUME NEW t \in Task, NEW c \in Calls(t)
    PROVE  /\ c # Idle /\ c.path \in Path /\ IsTree(c.value)
           /\ c.value = [r \in DOMAIN c.value |-> c.value[r]]
BY MenuAssumption DEF IsCall

LEMMA EditedIsTree ==
    ASSUME NEW t \in Task, NEW c \in Calls(t), NEW d, IsTree(d)
    PROVE  IsTree(Edited(c, d))
BY CallsAreCalls, SetNestedValueIsTree, DeleteNestedValueIsTree DEF Edited

LEMMA InitTypeOK == Init => TypeOK
BY RemoteAssumption, ArrivalsAssumption DEF Init, TypeOK

\* What a task has read stays as it is, whatever the step does to the others.
LEMMA TaskStep ==
    ASSUME TypeOK, NEW t \in Task, NEW c \in Calls(t),
           IsTree(doc'), arrivals' = arrivals,
           \/ pending' = pending /\ copy' = copy
           \/ pending' = [pending EXCEPT ![t] = Idle] /\ copy' = [copy EXCEPT ![t] = NoCopy]
           \/ pending' = [pending EXCEPT ![t] = Idle] /\ copy' = copy /\ copy[t] = NoCopy
           \/ pending' = [pending EXCEPT ![t] = c] /\ copy' = copy /\ copy[t] = NoCopy
           \/ /\ pending' = [pending EXCEPT ![t] = c] /\ copy' = [copy EXCEPT ![t] = doc]
              /\ ~Fails(c, doc)
    PROVE  TypeOK'
<1>1. DOMAIN pending' = Task /\ DOMAIN copy' = Task
  BY DEF TypeOK
<1>2. c # Idle
  BY CallsAreCalls
<1>3. ASSUME NEW u \in Task
      PROVE  /\ pending'[u] \in Calls(u) \cup {Idle}
             /\ copy'[u] # NoCopy =>
                   pending'[u] # Idle /\ IsTree(copy'[u]) /\ ~Fails(pending'[u], copy'[u])
  <2>1. CASE u = t
    BY <1>2, <2>1 DEF TypeOK
  <2>2. CASE u # t
    <3>1. pending'[u] = pending[u] /\ copy'[u] = copy[u]
      BY <2>2 DEF TypeOK
    <3> QED
      BY <3>1 DEF TypeOK
  <2> QED
    BY <2>1, <2>2
<1> QED
  BY <1>1, <1>3 DEF TypeOK

LEMMA IdleHasNoCopy ==
    ASSUME TypeOK, NEW t \in Task, pending[t] = Idle
    PROVE  copy[t] = NoCopy
BY DEF TypeOK

LEMMA ReadForTypeOK ==
    ASSUME TypeOK, NEW t \in Task, NEW c \in Calls(t), copy[t] = NoCopy, ReadFor(t, c)
    PROVE  TypeOK'
<1>1. IsTree(doc') /\ arrivals' = arrivals
  BY DEF ReadFor, TypeOK
<1> QED
  BY <1>1, TaskStep DEF ReadFor

LEMMA NextTypeOK == TypeOK /\ [Next]_vars => TypeOK'
<1> SUFFICES ASSUME TypeOK, [Next]_vars PROVE TypeOK'
  OBVIOUS
<1>1. ASSUME NEW t \in Task, NEW c \in Calls(t), Read(t, c) PROVE TypeOK'
  BY <1>1, IdleHasNoCopy, ReadForTypeOK DEF Read
<1>2. ASSUME NEW t \in Task, NEW c \in Calls(t), CheckClaim(t, c) PROVE TypeOK'
  <2>1. IsTree(doc') /\ arrivals' = arrivals /\ copy' = copy /\ copy[t] = NoCopy
    BY <1>2, IdleHasNoCopy DEF CheckClaim, TypeOK
  <2>2. CASE Has(doc, c.path)
    BY <1>2, <2>1, <2>2, TaskStep DEF CheckClaim
  <2>3. CASE ~Has(doc, c.path)
    BY <1>2, <2>1, <2>3, TaskStep DEF CheckClaim
  <2> QED
    BY <2>2, <2>3
<1>3. ASSUME NEW t \in Task, NEW c \in Calls(t), Clear(t, c) PROVE TypeOK'
  BY <1>3, EmptyIsTree DEF Clear, TypeOK
<1>4. ASSUME NEW t \in Task, ReadClaim(t) PROVE TypeOK'
  <2>1. pending[t] \in Calls(t) /\ copy[t] = NoCopy /\ ReadFor(t, pending[t])
    BY <1>4 DEF ReadClaim, TypeOK
  <2> QED
    BY <2>1, ReadForTypeOK
<1>5. ASSUME NEW t \in Task, Write(t) PROVE TypeOK'
  <2>1. pending[t] \in Calls(t) /\ IsTree(copy[t]) /\ IsTree(doc)
    BY <1>5 DEF Write, TypeOK
  <2>2. IsTree(Edited(pending[t], copy[t]))
    BY <2>1, EditedIsTree
  <2>3. IsTree(doc')
    BY <1>5, <2>1, <2>2, DeepMergeIsTree DEF Write
  <2> QED
    BY <1>5, <2>1, <2>3, TaskStep DEF Write
<1>6. ASSUME NEW r \in Remote, Arrive(r) PROVE TypeOK'
  <2>1. IsTree(doc')
    BY <1>6, RemoteAssumption, DeepMergeIsTree DEF Arrive, TypeOK
  <2>2. arrivals' \in 0..MaxArrivals
    BY <1>6, ArrivalsAssumption DEF Arrive, TypeOK
  <2> QED
    BY <1>6, <2>1, <2>2 DEF Arrive, TypeOK
<1>7. CASE UNCHANGED vars
  BY <1>7 DEF vars, TypeOK
<1> QED
  BY <1>1, <1>2, <1>3, <1>4, <1>5, <1>6, <1>7 DEF Next

(* Whatever is read, edited, written back or merged in between, the        *)
(* document is a tree, and an edit under way is one its copy allows        *)
(* (set_nested_value, delete_nested_value, deep_merge).                    *)
THEOREM TypeCorrect == Spec => []TypeOK
BY InitTypeOK, NextTypeOK, PTL DEF Spec

\* An edit leaves alone what is apart from its path.
LEMMA EditedElsewhere ==
    ASSUME NEW t \in Task, NEW c \in Calls(t), NEW d, IsTree(d), NEW q \in Path,
           Apart(c.path, q)
    PROVE  SameAt(Edited(c, d), d, q)
<1> DEFINE p == c.path
<1>1. p \in Path /\ IsTree(c.value)
  BY CallsAreCalls
<1>2. q \notin Above(p) /\ ~IsPrefix(p, q) /\ ~IsPrefix(q, p)
  BY <1>1, AboveIsStrictPrefix DEF Apart
<1>3. p # <<>> /\ q # <<>>
  BY <1>1, <1>2, PrefixElements, EmptySeq DEF Path
<1>4. CASE c.type = "Delete"
  BY <1>2, <1>3, <1>4 DEF Edited, DeleteNestedValue, SameAt
<1>5. CASE c.type # "Delete"
  <2> DEFINE old == Rooted(d)
             set == SetNestedValue(d, p, c.value)
  <2>1. SameAt(old, d, q)
    BY <1>3, LeafRoot DEF Rooted, EmptyObject, SameAt
  <2>2. q \notin {p \o s : s \in DOMAIN c.value}
    BY <1>1, <1>2, ConcatPath DEF IsTree
  <2>3. SameAt(set, old, q)
    BY <1>2, <2>2 DEF SetNestedValue, SameAt
  <2>4. Edited(c, d) = set
    BY <1>5 DEF Edited
  <2> HIDE DEF old, set
  <2> QED
    BY <2>1, <2>3, <2>4 DEF SameAt
<1> QED
  BY <1>4, <1>5

LEMMA MergeElsewhere ==
    ASSUME NEW a, NEW b, NEW q, SameAt(b, a, q)
    PROVE  SameAt(DeepMerge(a, b, FALSE), a, q)
BY DEF DeepMerge, SameAt

LEMMA WritesIsWrite ==
    ASSUME TypeOK, [Next]_vars, NEW t \in Task, Writes(t)
    PROVE  Write(t)
<1>1. ASSUME NEW u \in Task, u # t,
             \E x : pending' = [pending EXCEPT ![u] = x]
      PROVE  FALSE
  BY <1>1 DEF Writes, TypeOK
<1>2. ASSUME NEW u \in Task, NEW c \in Calls(u), Read(u, c) \/ CheckClaim(u, c) \/ Clear(u, c)
      PROVE  FALSE
  <2>1. u # t
    BY <1>2 DEF Read, CheckClaim, Clear, Writes
  <2>2. pending' = pending \/ \E x : pending' = [pending EXCEPT ![u] = x]
    BY <1>2 DEF Read, CheckClaim, Clear, ReadFor
  <2> QED
    BY <1>1, <2>1, <2>2 DEF Writes
<1>3. ASSUME NEW u \in Task, ReadClaim(u)
      PROVE  FALSE
  <2>1. u # t
    BY <1>3 DEF ReadClaim, Writes
  <2>2. \E x : pending' = [pending EXCEPT ![u] = x]
    BY <1>3 DEF ReadClaim, ReadFor
  <2> QED
    BY <1>1, <2>1, <2>2
<1>4. ASSUME NEW u \in Task, Write(u)
      PROVE  u = t
  BY <1>1, <1>4 DEF Write
<1>5. pending' # pending
  BY DEF Writes
<1> QED
  BY <1>2, <1>3, <1>4, <1>5 DEF Next, Arrive, vars

LEMMA WriteElsewhere ==
    ASSUME TypeOK, NEW t \in Task, Write(t), NEW q \in Path,
           Apart(pending[t].path, q), SameAt(doc, copy[t], q)
    PROVE  SameAt(doc, doc', q)
<1> DEFINE edited == Edited(pending[t], copy[t])
<1>1. pending[t] \in Calls(t) /\ IsTree(copy[t])
  BY DEF Write, TypeOK
<1>2. SameAt(edited, copy[t], q)
  BY <1>1, EditedElsewhere
<1>3. SameAt(edited, doc, q)
  BY <1>2 DEF SameAt
<1>4. doc' = edited \/ doc' = DeepMerge(doc, edited, FALSE)
  BY DEF Write
<1>5. SameAt(doc', doc, q)
  <2> HIDE DEF edited
  <2> QED
    BY <1>3, <1>4, MergeElsewhere
<1> QED
  BY <1>5 DEF SameAt

(* What an edit changes away from its path had changed since it read the   *)
(* document: the whole-document patch of update_ctx and the replacement of *)
(* replace_ctx and delete_ctx undo what came in between, and nothing else. *)
THEOREM EditsUndoOnlyWhatCameBetween == Spec => ChangesElsewhereWereStale
<1> DEFINE Step == \A t \in Task : Writes(t) =>
                     \A q \in DOMAIN doc \cup DOMAIN doc' :
                        Apart(pending[t].path, q) /\ ~SameAt(doc, doc', q)
                          => ~SameAt(doc, copy[t], q)
<1>1. TypeOK /\ TypeOK' /\ [Next]_vars => Step
  <2> SUFFICES ASSUME TypeOK, TypeOK', [Next]_vars,
                      NEW t \in Task, Writes(t),
                      NEW q \in DOMAIN doc \cup DOMAIN doc',
                      Apart(pending[t].path, q), SameAt(doc, copy[t], q)
               PROVE  SameAt(doc, doc', q)
    OBVIOUS
  <2>1. Write(t)
    BY WritesIsWrite
  <2>2. q \in Path
    BY DEF TypeOK, IsTree
  <2> QED
    BY <2>1, <2>2, WriteElsewhere
<1>2. TypeOK /\ TypeOK' /\ [Next]_vars => [Step]_vars
  BY <1>1
<1> QED
  BY <1>2, TypeCorrect, PTL DEF Spec, ChangesElsewhereWereStale

-----------------------------------------------------------------------------
(* What an edit does at its path.                                          *)

\* What is at a path, place by place.
LEMMA AtBelow ==
    ASSUME NEW d, IsTree(d), NEW p \in Path
    PROVE  /\ DOMAIN At(d, p) = {s \in Path : p \o s \in DOMAIN d}
           /\ \A s \in DOMAIN At(d, p) : At(d, p)[s] = d[p \o s]
           /\ At(d, p) = [s \in DOMAIN At(d, p) |-> At(d, p)[s]]
<1> DEFINE places == {Rest(p, q) : q \in {q \in DOMAIN d : IsPrefix(p, q)}}
<1>1. At(d, p) = [r \in places |-> d[p \o r]]
  BY DEF At
<1>2. ASSUME NEW s \in places PROVE s \in Path /\ p \o s \in DOMAIN d
  <2>1. PICK q \in DOMAIN d : IsPrefix(p, q) /\ s = Rest(p, q)
    OBVIOUS
  <2>2. q \in Path
    BY DEF IsTree
  <2> QED
    BY <2>1, <2>2, PrefixAndRest
<1>3. ASSUME NEW s \in Path, p \o s \in DOMAIN d PROVE s \in places
  BY <1>3, ConcatPath
<1> HIDE DEF places
<1> QED
  BY <1>1, <1>2, <1>3

\* Two functions on one set that agree there are one.
LEMMA AtEquals ==
    ASSUME NEW d, IsTree(d), NEW p \in Path,
           NEW S \in SUBSET Path, NEW f \in [S -> Leaf \cup {Object}],
           \A s \in Path : s \in S <=> p \o s \in DOMAIN d,
           \A s \in S : f[s] = d[p \o s]
    PROVE  At(d, p) = f
<1> DEFINE g == At(d, p)
<1>1. /\ DOMAIN g = {s \in Path : p \o s \in DOMAIN d}
      /\ \A s \in DOMAIN g : g[s] = d[p \o s]
      /\ g = [s \in DOMAIN g |-> g[s]]
  BY AtBelow
<1> HIDE DEF g
<1>2. DOMAIN g = S
  BY <1>1
<1>3. \A s \in S : g[s] = f[s]
  BY <1>1, <1>2
<1>4. g = [s \in S |-> g[s]]
  BY <1>1, <1>2
<1>5. f = [s \in S |-> f[s]]
  OBVIOUS
<1>6. g = f
  BY <1>3, <1>4, <1>5
<1> QED
  BY <1>6 DEF g

\* At its path and below, SetNestedValue leaves the value and nothing else.
LEMMA SetBelow ==
    ASSUME NEW d, IsTree(d), NEW p \in Path, NEW v, IsTree(v), NEW s \in Path
    PROVE  /\ p \o s \in DOMAIN SetNestedValue(d, p, v) <=> s \in DOMAIN v
           /\ s \in DOMAIN v => SetNestedValue(d, p, v)[p \o s] = v[s]
<1> DEFINE set == SetNestedValue(d, p, v)
           kept == {r \in DOMAIN Rooted(d) : ~IsPrefix(p, r)}
           below == {p \o r : r \in DOMAIN v}
<1>1. /\ DOMAIN set = kept \cup Above(p) \cup below
      /\ \A r \in DOMAIN set : IsPrefix(p, r) => set[r] = v[Rest(p, r)]
  BY DEF SetNestedValue
<1>2. /\ p \o s \in Path /\ IsPrefix(p, p \o s) /\ Rest(p, p \o s) = s
  BY ConcatPath
<1>3. p \o s \notin kept /\ p \o s \notin Above(p)
  BY <1>2, AboveNotExtending
<1>4. p \o s \in below => s \in DOMAIN v
  <2> SUFFICES ASSUME NEW r \in DOMAIN v, p \o s = p \o r PROVE s \in DOMAIN v
    OBVIOUS
  <2>1. r \in Path
    BY DEF IsTree
  <2>2. Rest(p, p \o r) = r
    BY <2>1, ConcatPath
  <2> QED
    BY <1>2, <2>2
<1>5. s \in DOMAIN v => p \o s \in below
  OBVIOUS
<1> HIDE DEF set, kept, below
<1>6. p \o s \in DOMAIN set <=> s \in DOMAIN v
  BY <1>1, <1>3, <1>4, <1>5
<1>7. s \in DOMAIN v => set[p \o s] = v[s]
  BY <1>1, <1>2, <1>6
<1> QED
  BY <1>6, <1>7 DEF set

\* Beside its path it leaves what was there, with objects on the way.
LEMMA SetBeside ==
    ASSUME NEW d, IsTree(d), NEW p \in Path, NEW v, IsTree(v), NEW q \in Path, ~IsPrefix(p, q)
    PROVE  LET set == SetNestedValue(d, p, v)
           IN  /\ q \in DOMAIN d => q \in DOMAIN set
               /\ q \in DOMAIN set =>
                     \/ q \in Above(p) /\ set[q] = Object
                     \/ q \in DOMAIN d /\ set[q] = d[q]
<1> DEFINE set == SetNestedValue(d, p, v)
           old == Rooted(d)
           kept == {r \in DOMAIN old : ~IsPrefix(p, r)}
           below == {p \o r : r \in DOMAIN v}
<1>1. /\ DOMAIN set = kept \cup Above(p) \cup below
      /\ q \in DOMAIN set => set[q] = IF q \in Above(p) THEN Object ELSE old[q]
  BY DEF SetNestedValue
<1>2. q \notin below
  BY ConcatPath DEF IsTree
<1>3. q = <<>> => q \in Above(p)
  <2>1. p # <<>>
    BY PrefixElements, EmptySeq DEF Path
  <2> QED
    BY <2>1, RootIsAbove
<1>4. q # <<>> => (q \in DOMAIN old <=> q \in DOMAIN d) /\ (q \in DOMAIN d => old[q] = d[q])
  BY LeafRoot DEF Rooted, EmptyObject
<1> HIDE DEF set, old, below
<1> QED
  BY <1>1, <1>2, <1>3, <1>4 DEF set

\* What is above a place below a path.
LEMMA AboveBelow ==
    ASSUME NEW p \in Path, NEW s \in Path, NEW x \in Above(s)
    PROVE  x \in Path /\ p \o x \in Above(p \o s)
<1>1. /\ x \in Path /\ Len(x) < Len(s) /\ \A i \in 1..Len(x) : x[i] = s[i]
  BY AboveElements
<1>2. /\ p \o s \in Path /\ Len(p \o s) = Len(p) + Len(s)
      /\ \A i \in 1..Len(p) : (p \o s)[i] = p[i]
      /\ \A i \in 1..Len(s) : (p \o s)[Len(p) + i] = s[i]
  BY ConcatProperties DEF Path
<1>3. /\ p \o x \in Path /\ Len(p \o x) = Len(p) + Len(x)
      /\ \A i \in 1..Len(p) : (p \o x)[i] = p[i]
      /\ \A i \in 1..Len(x) : (p \o x)[Len(p) + i] = x[i]
  BY <1>1, ConcatProperties DEF Path
<1>4. Len(p) \in Nat /\ Len(s) \in Nat /\ Len(x) \in Nat
  BY <1>1, LenProperties DEF Path
<1>5. ASSUME NEW i \in 1..Len(p \o x) PROVE (p \o x)[i] = (p \o s)[i]
  <2>1. CASE i <= Len(p)
    BY <1>2, <1>3, <1>4, <2>1
  <2>2. CASE i > Len(p)
    <3>1. i - Len(p) \in 1..Len(x) /\ i = Len(p) + (i - Len(p))
      BY <1>3, <1>4, <2>2
    <3>2. (p \o x)[i] = x[i - Len(p)]
      BY <1>3, <3>1
    <3>3. (p \o s)[i] = s[i - Len(p)]
      BY <1>1, <1>2, <1>4, <3>1
    <3>4. x[i - Len(p)] = s[i - Len(p)]
      BY <1>1, <3>1
    <3> QED
      BY <3>2, <3>3, <3>4
  <2>3. i <= Len(p) \/ i > Len(p)
    BY <1>3, <1>4
  <2> QED
    BY <2>1, <2>2, <2>3
<1>6. Len(p \o x) < Len(p \o s)
  BY <1>1, <1>2, <1>3, <1>4
<1> QED
  BY <1>1, <1>2, <1>3, <1>5, <1>6, AboveElements

LEMMA AtIsTree ==
    ASSUME NEW d, IsTree(d), NEW p \in Path, Has(d, p)
    PROVE  IsTree(At(d, p))
<1> DEFINE a == At(d, p)
<1>1. /\ DOMAIN a = {s \in Path : p \o s \in DOMAIN d}
      /\ \A s \in DOMAIN a : a[s] = d[p \o s]
  BY AtBelow
<1> HIDE DEF a
<1>2. <<>> \in DOMAIN a
  BY <1>1, ConcatEmptySeq, EmptySeq DEF Has, Path
<1>3. ASSUME NEW s \in DOMAIN a PROVE a[s] \in Leaf \cup {Object}
  BY <1>1 DEF IsTree
<1>4. ASSUME NEW s \in DOMAIN a, NEW x \in Above(s) PROVE x \in DOMAIN a /\ a[x] = Object
  <2>1. x \in Path /\ p \o x \in Above(p \o s)
    BY <1>1, AboveBelow
  <2>2. p \o x \in DOMAIN d /\ d[p \o x] = Object
    BY <1>1, <2>1 DEF IsTree
  <2> QED
    BY <1>1, <2>1, <2>2
<1>5. IsTree(a)
  BY <1>1, <1>2, <1>3, <1>4 DEF IsTree
<1> QED
  BY <1>5 DEF a

\* What is missing has nothing below it.
LEMMA NothingBelowMissing ==
    ASSUME NEW d, IsTree(d), NEW p \in Path, ~Has(d, p), NEW s \in Path
    PROVE  p \o s \notin DOMAIN d
<1>1. p \o s \in Path /\ IsPrefix(p, p \o s) /\ Len(p \o s) = Len(p) + Len(s)
  BY ConcatPath
<1>2. CASE s = <<>>
  BY <1>2, ConcatEmptySeq DEF Has, Path
<1>3. CASE s # <<>>
  <2>1. Len(s) \in Nat \ {0} /\ Len(p) \in Nat
    BY <1>3, LenProperties, EmptySeq DEF Path
  <2>2. Len(p) < Len(p \o s)
    BY <1>1, <2>1
  <2>3. p \in Above(p \o s)
    BY <1>1, <2>2, AboveIsStrictPrefix
  <2> QED
    BY <2>3 DEF IsTree, Has
<1> QED
  BY <1>2, <1>3

\* Where a document has the path, its own parts and the edited document clash
\* below it exactly as what is there clashes with the value.
LEMMA ClashesBelow ==
    ASSUME NEW d, IsTree(d), NEW p \in Path, Has(d, p), NEW v, IsTree(v),
           NEW s \in Path
    PROVE  (\A q \in Above(p \o s) \cup {p \o s} : ~Clash(d, SetNestedValue(d, p, v), q))
             <=> \A q \in Above(s) \cup {s} : ~Clash(At(d, p), v, q)
<1> DEFINE set == SetNestedValue(d, p, v)
           a == At(d, p)
<1>0. /\ DOMAIN a = {x \in Path : p \o x \in DOMAIN d}
      /\ \A x \in DOMAIN a : a[x] = d[p \o x]
  BY AtBelow
<1> HIDE DEF a
<1>1. ASSUME NEW x \in Path PROVE Clash(d, set, p \o x) <=> Clash(a, v, x)
  <2>1. x \in DOMAIN a <=> p \o x \in DOMAIN d
    BY <1>0
  <2>2. x \in DOMAIN a => a[x] = d[p \o x]
    BY <1>0
  <2>3. /\ p \o x \in DOMAIN set <=> x \in DOMAIN v
        /\ x \in DOMAIN v => set[p \o x] = v[x]
    BY SetBelow
  <2> HIDE DEF set
  <2> QED
    BY <2>1, <2>2, <2>3 DEF Clash
<1>2. ASSUME NEW q \in Above(p \o s), ~IsPrefix(p, q) PROVE ~Clash(d, set, q)
  <2>1. q \in Path /\ q \in Above(p)
    BY <1>2, AboveExtension
  <2>2. d[q] = Object
    BY <2>1 DEF IsTree, Has
  <2>3. q \in DOMAIN set => set[q] = Object \/ set[q] = d[q]
    BY <1>2, <2>1, SetBeside
  <2> HIDE DEF set
  <2> QED
    BY <2>2, <2>3 DEF Clash
<1>3. ASSUME NEW q \in Above(p \o s), IsPrefix(p, q)
      PROVE  Rest(p, q) \in Path /\ Rest(p, q) \in Above(s) /\ q = p \o Rest(p, q)
  BY <1>3, AboveExtension, PrefixAndRest
<1>4. ASSUME NEW x \in Above(s) PROVE x \in Path /\ p \o x \in Above(p \o s)
  BY AboveBelow
<1> HIDE DEF set
<1>5. ASSUME \A x \in Above(s) \cup {s} : ~Clash(a, v, x),
             NEW q \in Above(p \o s) \cup {p \o s}
      PROVE  ~Clash(d, set, q)
  <2>1. CASE q = p \o s
    BY <1>1, <1>5, <2>1
  <2>2. CASE q \in Above(p \o s) /\ ~IsPrefix(p, q)
    BY <1>2, <2>2
  <2>3. CASE q \in Above(p \o s) /\ IsPrefix(p, q)
    <3> DEFINE x == Rest(p, q)
    <3>1. x \in Path /\ x \in Above(s) /\ q = p \o x
      BY <1>3, <2>3
    <3> HIDE DEF x
    <3>2. ~Clash(a, v, x)
      BY <1>5, <3>1
    <3> QED
      BY <1>1, <3>1, <3>2
  <2> QED
    BY <2>1, <2>2, <2>3
<1>6. ASSUME \A q \in Above(p \o s) \cup {p \o s} : ~Clash(d, set, q),
             NEW x \in Above(s) \cup {s}
      PROVE  ~Clash(a, v, x)
  <2>1. x \in Path /\ p \o x \in Above(p \o s) \cup {p \o s}
    BY <1>4
  <2> QED
    BY <1>1, <1>6, <2>1
<1>7. (\A q \in Above(p \o s) \cup {p \o s} : ~Clash(d, set, q))
        <=> \A q \in Above(s) \cup {s} : ~Clash(a, v, q)
  BY <1>5, <1>6
<1> QED
  BY <1>7 DEF a, set

LEMMA MergeDomain ==
    ASSUME NEW a, NEW b
    PROVE  LET m == DeepMerge(a, b, FALSE)
           IN  /\ \A r : r \in DOMAIN m <=>
                      \/ r \in DOMAIN b
                      \/ r \in DOMAIN a /\ \A q \in Above(r) \cup {r} : ~Clash(a, b, q)
               /\ \A r \in DOMAIN m : m[r] = IF r \in DOMAIN b THEN b[r] ELSE a[r]
               /\ m = [r \in DOMAIN m |-> m[r]]
BY DEF DeepMerge

\* An edit and the merge of its patch leave the rest alone.
LEMMA SetUntouched ==
    ASSUME NEW d, IsTree(d), NEW p \in Path, NEW v, IsTree(v), NEW new,
           \/ new = SetNestedValue(d, p, v)
           \/ new = DeepMerge(d, SetNestedValue(d, p, v), FALSE)
    PROVE  Untouched(p, d, new)
<1> DEFINE set == SetNestedValue(d, p, v)
<1>1. IsTree(set)
  BY SetNestedValueIsTree
<1>2. IsTree(new)
  BY <1>1, DeepMergeIsTree
<1>3. ASSUME NEW q \in Path, ~IsPrefix(p, q)
      PROVE  /\ q \in DOMAIN d => q \in DOMAIN set
             /\ q \in DOMAIN set => \/ q \in Above(p) /\ set[q] = Object
                                    \/ q \in DOMAIN d /\ set[q] = d[q]
  BY <1>3, SetBeside
<1>4. new = set \/ new = DeepMerge(d, set, FALSE)
  OBVIOUS
<1> HIDE DEF set
<1>5. ASSUME NEW q \in DOMAIN d \cup DOMAIN new, ~IsPrefix(p, q)
      PROVE  \/ q \in Above(p) /\ Has(new, q) /\ new[q] = Object
             \/ Has(new, q) /\ Has(d, q) /\ new[q] = d[q]
  <2>1. q \in Path
    BY <1>2 DEF IsTree
  <2>2. q \in DOMAIN set
    BY <1>3, <1>4, <1>5, <2>1, MergeDomain
  <2>3. q \in DOMAIN DeepMerge(d, set, FALSE) /\ DeepMerge(d, set, FALSE)[q] = set[q]
    BY <2>2, MergeDomain
  <2>4. q \in DOMAIN new /\ new[q] = set[q]
    BY <1>4, <2>2, <2>3
  <2> QED
    BY <1>3, <1>5, <2>1, <2>2, <2>4 DEF Has
<1> QED
  BY <1>5 DEF Untouched

LEMMA DeleteUntouched ==
    ASSUME NEW d, IsTree(d), NEW p \in Path
    PROVE  /\ Untouched(p, d, DeleteNestedValue(d, p))
           /\ p # <<>> => ~Has(DeleteNestedValue(d, p), p)
           /\ p = <<>> => DeleteNestedValue(d, p) = EmptyObject
<1>1. CASE p = <<>>
  <2>1. ASSUME NEW q \in Path PROVE IsPrefix(p, q)
    <3>1. Len(p) = 0 /\ Len(q) \in Nat
      BY <1>1, LenProperties, EmptySeq DEF Path
    <3>2. Len(p) <= Len(q) /\ \A i \in 1..Len(p) : p[i] = q[i]
      BY <3>1
    <3> QED
      BY <3>2, PrefixElements
  <2>2. DOMAIN d \subseteq Path /\ DOMAIN EmptyObject \subseteq Path
    BY EmptyIsTree DEF IsTree
  <2> QED
    BY <1>1, <2>1, <2>2 DEF DeleteNestedValue, Untouched
<1>2. CASE p # <<>>
  <2>1. IsPrefix(p, p)
    BY PrefixElements, LenProperties DEF Path
  <2> QED
    BY <1>2, <2>1 DEF DeleteNestedValue, Untouched, Has
<1> QED
  BY <1>1, <1>2

LEMMA SetIsThere ==
    ASSUME NEW d, IsTree(d), NEW p \in Path,
           NEW v, IsTree(v), v = [r \in DOMAIN v |-> v[r]]
    PROVE  At(SetNestedValue(d, p, v), p) = v
<1> DEFINE set == SetNestedValue(d, p, v)
<1>1. IsTree(set)
  BY SetNestedValueIsTree
<1>2. DOMAIN v \in SUBSET Path /\ v \in [DOMAIN v -> Leaf \cup {Object}]
  BY DEF IsTree
<1>3. \A s \in Path : /\ p \o s \in DOMAIN set <=> s \in DOMAIN v
                      /\ s \in DOMAIN v => set[p \o s] = v[s]
  BY SetBelow
<1> HIDE DEF set
<1>4. At(set, p) = v
  BY <1>1, <1>2, <1>3, AtEquals
<1> QED
  BY <1>4 DEF set

\* A patch with a value at a path the document lacks puts it there; at a path
\* it has, it merges the value with what is there.
LEMMA PatchMissing ==
    ASSUME NEW d, IsTree(d), NEW p \in Path, ~Has(d, p),
           NEW v, IsTree(v), v = [r \in DOMAIN v |-> v[r]]
    PROVE  At(DeepMerge(d, SetNestedValue(d, p, v), FALSE), p) = v
<1> DEFINE set == SetNestedValue(d, p, v)
           m == DeepMerge(d, set, FALSE)
<1>1. IsTree(m)
  BY SetNestedValueIsTree, DeepMergeIsTree
<1>2. DOMAIN v \in SUBSET Path /\ v \in [DOMAIN v -> Leaf \cup {Object}]
  BY DEF IsTree
<1>3. \A s \in Path : /\ p \o s \in DOMAIN set <=> s \in DOMAIN v
                      /\ s \in DOMAIN v => set[p \o s] = v[s]
  BY SetBelow
<1>4. \A s \in Path : p \o s \notin DOMAIN d
  BY NothingBelowMissing
<1> HIDE DEF set
<1>5. \A r : /\ r \in DOMAIN set => r \in DOMAIN m /\ m[r] = set[r]
             /\ r \in DOMAIN m => r \in DOMAIN set \/ r \in DOMAIN d
  BY MergeDomain
<1> HIDE DEF m
<1>6. At(m, p) = v
  BY <1>1, <1>2, <1>3, <1>4, <1>5, AtEquals
<1> QED
  BY <1>6 DEF m, set

LEMMA PatchPresent ==
    ASSUME NEW d, IsTree(d), NEW p \in Path, Has(d, p), NEW v, IsTree(v)
    PROVE  At(DeepMerge(d, SetNestedValue(d, p, v), FALSE), p)
             = DeepMerge(At(d, p), v, FALSE)
<1> DEFINE set == SetNestedValue(d, p, v)
           m == DeepMerge(d, set, FALSE)
           a == At(d, p)
           f == DeepMerge(a, v, FALSE)
<1>1. IsTree(m) /\ IsTree(f)
  BY SetNestedValueIsTree, DeepMergeIsTree, AtIsTree
<1>2. /\ DOMAIN a = {s \in Path : p \o s \in DOMAIN d}
      /\ \A s \in DOMAIN a : a[s] = d[p \o s]
  BY AtBelow
<1>3. \A s \in Path : /\ p \o s \in DOMAIN set <=> s \in DOMAIN v
                      /\ s \in DOMAIN v => set[p \o s] = v[s]
  BY SetBelow
<1>4. \A s \in Path :
         (\A q \in Above(p \o s) \cup {p \o s} : ~Clash(d, set, q))
           <=> \A q \in Above(s) \cup {s} : ~Clash(a, v, q)
  BY ClashesBelow
<1> HIDE DEF set, a
<1>5. /\ \A r : r \in DOMAIN m <=>
             \/ r \in DOMAIN set
             \/ r \in DOMAIN d /\ \A q \in Above(r) \cup {r} : ~Clash(d, set, q)
      /\ \A r \in DOMAIN m : m[r] = IF r \in DOMAIN set THEN set[r] ELSE d[r]
  BY MergeDomain
<1>6. /\ \A r : r \in DOMAIN f <=>
             \/ r \in DOMAIN v
             \/ r \in DOMAIN a /\ \A q \in Above(r) \cup {r} : ~Clash(a, v, q)
      /\ \A r \in DOMAIN f : f[r] = IF r \in DOMAIN v THEN v[r] ELSE a[r]
      /\ f = [r \in DOMAIN f |-> f[r]]
  BY MergeDomain
<1> HIDE DEF m, f
<1>7. DOMAIN f \in SUBSET Path /\ f \in [DOMAIN f -> Leaf \cup {Object}]
  <2>1. DOMAIN f \subseteq Path /\ \A r \in DOMAIN f : f[r] \in Leaf \cup {Object}
    BY <1>1 DEF IsTree
  <2> QED
    BY <1>6, <2>1
<1>8. \A s \in Path : s \in DOMAIN f <=> p \o s \in DOMAIN m
  BY <1>2, <1>3, <1>4, <1>5, <1>6
<1>9. \A s \in DOMAIN f : f[s] = m[p \o s]
  <2> SUFFICES ASSUME NEW s \in DOMAIN f PROVE f[s] = m[p \o s]
    OBVIOUS
  <2>1. s \in Path /\ p \o s \in DOMAIN m
    BY <1>7, <1>8
  <2>2. CASE s \in DOMAIN v
    BY <1>3, <1>5, <1>6, <2>1, <2>2
  <2>3. CASE s \notin DOMAIN v
    <3>1. s \in DOMAIN a /\ f[s] = a[s]
      BY <1>6, <2>3
    <3>2. m[p \o s] = d[p \o s]
      BY <1>3, <1>5, <2>1, <2>3
    <3> QED
      BY <1>2, <3>1, <3>2
  <2> QED
    BY <2>2, <2>3
<1>10. At(m, p) = f
  BY <1>1, <1>7, <1>8, <1>9, AtEquals
<1> QED
  BY <1>10 DEF m, f, set, a

\* clear_ctx is one command: no task is ever between two of it.
NoClearPending == \A t \in Task : pending[t] # Idle => pending[t].type # "Clear"

LEMMA ClearIsNeverPending == TypeOK /\ NoClearPending /\ [Next]_vars => NoClearPending'
<1> SUFFICES ASSUME TypeOK, NoClearPending, [Next]_vars, NEW u \in Task, pending'[u] # Idle
             PROVE  pending'[u].type # "Clear"
  BY DEF NoClearPending
<1>1. ASSUME NEW t \in Task, NEW x, pending' = [pending EXCEPT ![t] = x],
             x # Idle => x.type # "Clear"
      PROVE  pending'[u].type # "Clear"
  BY <1>1 DEF NoClearPending, TypeOK
<1>2. ASSUME pending' = pending PROVE pending'[u].type # "Clear"
  BY <1>2 DEF NoClearPending
<1>3. ASSUME NEW t \in Task, NEW c \in Calls(t), Read(t, c) PROVE pending'[u].type # "Clear"
  BY <1>1, <1>3 DEF Read, ReadFor
<1>4. ASSUME NEW t \in Task, NEW c \in Calls(t), CheckClaim(t, c)
      PROVE  pending'[u].type # "Clear"
  BY <1>1, <1>2, <1>4 DEF CheckClaim
<1>5. ASSUME NEW t \in Task, ReadClaim(t) PROVE pending'[u].type # "Clear"
  <2>1. pending[t].type # "Clear"
    BY <1>5 DEF ReadClaim, NoClearPending
  <2> QED
    BY <1>1, <1>5, <2>1 DEF ReadClaim, ReadFor
<1>6. ASSUME NEW t \in Task, Write(t) PROVE pending'[u].type # "Clear"
  BY <1>1, <1>6 DEF Write
<1> QED
  BY <1>2, <1>3, <1>4, <1>5, <1>6 DEF Next, Arrive, Clear, vars

LEMMA UncontendedWrite ==
    ASSUME TypeOK, NoClearPending, NEW t \in Task, Write(t), copy[t] = doc
    PROVE  Exact(pending[t], doc, doc')
<1> DEFINE c == pending[t]
           p == c.path
           v == c.value
<1>1. c \in Calls(t) /\ IsTree(doc)
  BY DEF Write, TypeOK
<1>2. p \in Path /\ IsTree(v) /\ v = [r \in DOMAIN v |-> v[r]]
  BY <1>1, CallsAreCalls
<1>3. CASE c.type = "Delete"
  <2>1. doc' = DeleteNestedValue(doc, p)
    BY <1>3 DEF Write, Edited
  <2> QED
    BY <1>1, <1>2, <1>3, <2>1, DeleteUntouched DEF Exact
<1>4. CASE c.type = "Replace"
  <2>1. doc' = SetNestedValue(doc, p, v)
    BY <1>4 DEF Write, Edited
  <2>2. Untouched(p, doc, doc')
    BY <1>1, <1>2, <2>1, SetUntouched
  <2>3. At(doc', p) = v
    BY <1>1, <1>2, <2>1, SetIsThere
  <2> QED
    BY <1>4, <2>2, <2>3 DEF Exact
<1>5. CASE c.type \in {"Update", "Claim"}
  <2>1. doc' = DeepMerge(doc, SetNestedValue(doc, p, v), FALSE)
    BY <1>5 DEF Write, Edited
  <2>2. Untouched(p, doc, doc')
    BY <1>1, <1>2, <2>1, SetUntouched
  <2>3. At(doc', p) = IF Has(doc, p) THEN DeepMerge(At(doc, p), v, FALSE) ELSE v
    BY <1>1, <1>2, <2>1, PatchMissing, PatchPresent
  <2> QED
    BY <1>5, <2>2, <2>3 DEF Exact
<1>6. c.type # "Clear"
  BY DEF NoClearPending, Write
<1> QED
  BY <1>1, <1>3, <1>4, <1>5, <1>6, MenuAssumption DEF IsCall, CallType

(* An edit that nothing came between has the effect it names: update_ctx   *)
(* merges its value with what is at the path, replace_ctx puts it there,   *)
(* delete_ctx removes it, and no place beside the path changes but for the *)
(* objects on the way to it.                                               *)
THEOREM UncontendedCallsDoWhatTheySay == Spec => UncontendedCallsAreExact
<1> DEFINE Step == \A t \in Task :
                     Writes(t) /\ copy[t] = doc => Exact(pending[t], doc, doc')
<1>1. TypeOK /\ NoClearPending /\ [Next]_vars => [Step]_vars
  BY WritesIsWrite, UncontendedWrite
<1>2. Init => NoClearPending
  BY DEF Init, NoClearPending
<1> QED
  BY <1>1, <1>2, TypeCorrect, ClearIsNeverPending, PTL DEF Spec, UncontendedCallsAreExact

-----------------------------------------------------------------------------
(* The laws of merges.                                                     *)

\* m is w with what l adds to it: the merge, with the two documents in the
\* order of preference.
Overlaid(m, w, l) ==
    /\ \A r : r \in DOMAIN m <=>
          \/ r \in DOMAIN w
          \/ r \in DOMAIN l /\ \A q \in Above(r) \cup {r} : ~Clash(w, l, q)
    /\ \A r \in DOMAIN w : m[r] = w[r]
    /\ \A r \in DOMAIN m : r \notin DOMAIN w => m[r] = l[r]
    /\ m = [r \in DOMAIN m |-> m[r]]

LEMMA MergeOverlays ==
    ASSUME NEW a, NEW b
    PROVE  /\ Overlaid(DeepMerge(a, b, TRUE), a, b)
           /\ Overlaid(DeepMerge(a, b, FALSE), b, a)
<1>1. Overlaid(DeepMerge(a, b, TRUE), a, b)
  BY DEF DeepMerge, Overlaid
<1>2. \A q : Clash(a, b, q) <=> Clash(b, a, q)
  BY DEF Clash
<1>3. Overlaid(DeepMerge(a, b, FALSE), b, a)
  <2> DEFINE m == DeepMerge(a, b, FALSE)
  <2>1. /\ \A r : r \in DOMAIN m <=>
              \/ r \in DOMAIN b
              \/ r \in DOMAIN a /\ \A q \in Above(r) \cup {r} : ~Clash(a, b, q)
        /\ \A r \in DOMAIN m : m[r] = IF r \in DOMAIN b THEN b[r] ELSE a[r]
        /\ m = [r \in DOMAIN m |-> m[r]]
    BY MergeDomain
  <2> HIDE DEF m
  <2>2. Overlaid(m, b, a)
    BY <1>2, <2>1 DEF Overlaid
  <2> QED
    BY <2>2 DEF m
<1> QED
  BY <1>1, <1>3

LEMMA OverlaidOnce ==
    ASSUME NEW w, NEW l, NEW m, NEW n, Overlaid(m, w, l), Overlaid(n, w, l)
    PROVE  m = n
<1>1. DOMAIN m = DOMAIN n
  BY DEF Overlaid
<1>2. \A r \in DOMAIN m : m[r] = n[r]
  BY <1>1 DEF Overlaid
<1>3. m = [r \in DOMAIN m |-> m[r]] /\ n = [r \in DOMAIN n |-> n[r]]
  BY DEF Overlaid
<1> QED
  BY <1>1, <1>2, <1>3

\* Below a path with no clash above it, two documents clash where their
\* subtrees do.
LEMMA SubtreesClash ==
    ASSUME NEW w, IsTree(w), NEW l, IsTree(l), NEW p \in Path,
           \A q \in Above(p) : ~Clash(w, l, q), NEW s \in Path
    PROVE  (\A q \in Above(p \o s) \cup {p \o s} : ~Clash(w, l, q))
             <=> \A x \in Above(s) \cup {s} : ~Clash(At(w, p), At(l, p), x)
<1>1. ASSUME NEW x \in Path PROVE Clash(w, l, p \o x) <=> Clash(At(w, p), At(l, p), x)
  <2> DEFINE aw == At(w, p)
             al == At(l, p)
  <2>1. /\ DOMAIN aw = {y \in Path : p \o y \in DOMAIN w}
        /\ \A y \in DOMAIN aw : aw[y] = w[p \o y]
    BY AtBelow
  <2>2. /\ DOMAIN al = {y \in Path : p \o y \in DOMAIN l}
        /\ \A y \in DOMAIN al : al[y] = l[p \o y]
    BY AtBelow
  <2> HIDE DEF aw, al
  <2>3. Clash(w, l, p \o x) <=> Clash(aw, al, x)
    BY <2>1, <2>2 DEF Clash
  <2> QED
    BY <2>3 DEF aw, al
<1>2. ASSUME NEW q \in Above(p \o s)
      PROVE  \/ q \in Above(p)
             \/ \E x \in Above(s) : x \in Path /\ q = p \o x
  <2>1. CASE IsPrefix(p, q)
    <3>1. Rest(p, q) \in Above(s) /\ q \in Path
      BY <2>1, AboveExtension
    <3>2. Rest(p, q) \in Path /\ q = p \o Rest(p, q)
      BY <2>1, <3>1, PrefixAndRest
    <3> QED
      BY <3>1, <3>2
  <2>2. CASE ~IsPrefix(p, q)
    BY <2>2, AboveExtension
  <2> QED
    BY <2>1, <2>2
<1>3. ASSUME NEW x \in Above(s) PROVE x \in Path /\ p \o x \in Above(p \o s)
  BY AboveBelow
<1> QED
  BY <1>1, <1>2, <1>3

\* The merge of two documents holds there the merge of their subtrees.
LEMMA OverlaidAt ==
    ASSUME NEW w, IsTree(w), NEW l, IsTree(l), NEW m, IsTree(m), Overlaid(m, w, l),
           NEW p \in Path, \A q \in Above(p) : ~Clash(w, l, q)
    PROVE  Overlaid(At(m, p), At(w, p), At(l, p))
<1> DEFINE am == At(m, p)
           aw == At(w, p)
           al == At(l, p)
<1>1. \A s \in Path :
         (\A q \in Above(p \o s) \cup {p \o s} : ~Clash(w, l, q))
           <=> \A x \in Above(s) \cup {s} : ~Clash(aw, al, x)
  BY SubtreesClash
<1>2. /\ DOMAIN am = {s \in Path : p \o s \in DOMAIN m}
      /\ \A s \in DOMAIN am : am[s] = m[p \o s]
      /\ am = [s \in DOMAIN am |-> am[s]]
  BY AtBelow
<1>3. /\ DOMAIN aw = {s \in Path : p \o s \in DOMAIN w}
      /\ \A s \in DOMAIN aw : aw[s] = w[p \o s]
  BY AtBelow
<1>4. /\ DOMAIN al = {s \in Path : p \o s \in DOMAIN l}
      /\ \A s \in DOMAIN al : al[s] = l[p \o s]
  BY AtBelow
<1> HIDE DEF am, aw, al
<1>5. ASSUME NEW s
      PROVE  s \in DOMAIN am <=>
                \/ s \in DOMAIN aw
                \/ s \in DOMAIN al /\ \A x \in Above(s) \cup {s} : ~Clash(aw, al, x)
  BY <1>1, <1>2, <1>3, <1>4 DEF Overlaid
<1>6. \A s \in DOMAIN aw : am[s] = aw[s]
  BY <1>2, <1>3, <1>5 DEF Overlaid
<1>7. \A s \in DOMAIN am : s \notin DOMAIN aw => am[s] = al[s]
  BY <1>2, <1>3, <1>4, <1>5 DEF Overlaid
<1>8. Overlaid(am, aw, al)
  BY <1>2, <1>5, <1>6, <1>7 DEF Overlaid
<1> QED
  BY <1>8 DEF am, aw, al

\* What only one of the two has stays as it is.
LEMMA OverlaidAlone ==
    ASSUME NEW w, IsTree(w), NEW l, IsTree(l), NEW m, IsTree(m), Overlaid(m, w, l),
           NEW p \in Path, \A q \in Above(p) : ~Clash(w, l, q)
    PROVE  /\ ~Has(l, p) => At(m, p) = At(w, p)
           /\ ~Has(w, p) => At(m, p) = At(l, p)
<1> DEFINE am == At(m, p)
           aw == At(w, p)
           al == At(l, p)
<1>1. Overlaid(am, aw, al)
  BY OverlaidAt
<1>2. /\ am = [s \in DOMAIN am |-> am[s]]
      /\ aw = [s \in DOMAIN aw |-> aw[s]]
      /\ al = [s \in DOMAIN al |-> al[s]]
  BY AtBelow
<1>3. /\ ~Has(l, p) => DOMAIN al = {}
      /\ ~Has(w, p) => DOMAIN aw = {}
  <2>1. /\ DOMAIN aw = {s \in Path : p \o s \in DOMAIN w}
        /\ DOMAIN al = {s \in Path : p \o s \in DOMAIN l}
    BY AtBelow
  <2> HIDE DEF aw, al
  <2>2. /\ ~Has(l, p) => \A s \in Path : p \o s \notin DOMAIN l
        /\ ~Has(w, p) => \A s \in Path : p \o s \notin DOMAIN w
    BY NothingBelowMissing
  <2> QED
    BY <2>1, <2>2
<1> HIDE DEF am, aw, al
<1>4. ASSUME DOMAIN al = {} PROVE am = aw
  <2>1. DOMAIN am = DOMAIN aw /\ \A s \in DOMAIN aw : am[s] = aw[s]
    BY <1>1, <1>4 DEF Overlaid
  <2> QED
    BY <1>2, <2>1
<1>5. ASSUME DOMAIN aw = {} PROVE am = al
  <2>1. DOMAIN am = DOMAIN al /\ \A s \in DOMAIN al : am[s] = al[s]
    BY <1>1, <1>5 DEF Overlaid, Clash
  <2> QED
    BY <1>2, <2>1
<1> QED
  BY <1>3, <1>4, <1>5 DEF am, aw, al

LEMMA MemberPath ==
    ASSUME NEW n \in Name
    PROVE  <<n>> \in Path /\ Above(<<n>>) = {<<>>}
<1>1. <<n>> \in Path /\ Len(<<n>>) = 1
  BY DEF Path
<1>2. <<n>> # <<>>
  BY <1>1, EmptySeq
<1>3. ASSUME NEW q \in Above(<<n>>) PROVE q = <<>>
  <2>1. q \in Path /\ Len(q) < 1
    BY <1>1, AboveElements
  <2> QED
    BY <2>1, EmptySeq, LenProperties DEF Path
<1> QED
  BY <1>1, <1>2, <1>3, RootIsAbove

\* Two objects are merged member by member.
LEMMA ObjectsMerge ==
    ASSUME NEW w, IsTree(w), NEW l, IsTree(l), NEW m, IsTree(m), Overlaid(m, w, l),
           w[<<>>] = Object, l[<<>>] = Object
    PROVE  /\ m[<<>>] = Object
           /\ Members(m) = Members(w) \cup Members(l)
           /\ \A n \in Members(m) :
                 /\ n \notin Members(l) => At(m, <<n>>) = At(w, <<n>>)
                 /\ n \notin Members(w) => At(m, <<n>>) = At(l, <<n>>)
                 /\ Overlaid(At(m, <<n>>), At(w, <<n>>), At(l, <<n>>))
<1>1. m[<<>>] = Object
  BY DEF Overlaid, IsTree
<1>2. ~Clash(w, l, <<>>)
  BY DEF Clash
<1>3. ASSUME NEW n \in Name
      PROVE  /\ <<n>> \in DOMAIN m <=> <<n>> \in DOMAIN w \/ <<n>> \in DOMAIN l
             /\ \A q \in Above(<<n>>) : ~Clash(w, l, q)
  <2> DEFINE p == <<n>>
  <2>1. Above(p) = {<<>>}
    BY MemberPath
  <2> HIDE DEF p
  <2>2. p \notin DOMAIN w => ~Clash(w, l, p)
    BY DEF Clash
  <2>3. /\ p \in DOMAIN m <=> p \in DOMAIN w \/ p \in DOMAIN l
        /\ \A q \in Above(p) : ~Clash(w, l, q)
    BY <1>2, <2>1, <2>2 DEF Overlaid
  <2> QED
    BY <2>3 DEF p
<1>4. Members(m) = Members(w) \cup Members(l)
  BY <1>3 DEF Members, Has
<1>5. ASSUME NEW n \in Members(m)
      PROVE  /\ n \notin Members(l) => At(m, <<n>>) = At(w, <<n>>)
             /\ n \notin Members(w) => At(m, <<n>>) = At(l, <<n>>)
             /\ Overlaid(At(m, <<n>>), At(w, <<n>>), At(l, <<n>>))
  <2>1. n \in Name /\ <<n>> \in Path /\ \A q \in Above(<<n>>) : ~Clash(w, l, q)
    BY <1>3, MemberPath DEF Members
  <2> QED
    BY <2>1, OverlaidAt, OverlaidAlone DEF Members
<1> QED
  BY <1>1, <1>4, <1>5

\* Of anything else the preferred one stays, whole.
LEMMA RootsClash ==
    ASSUME NEW w, IsTree(w), w = [r \in DOMAIN w |-> w[r]], NEW l, IsTree(l),
           NEW m, Overlaid(m, w, l), ~(w[<<>>] = Object /\ l[<<>>] = Object)
    PROVE  m = w
<1>1. Clash(w, l, <<>>)
  BY DEF Clash, IsTree
<1>2. \A r \in DOMAIN l : <<>> \in Above(r) \cup {r}
  BY RootIsAbove DEF IsTree
<1>3. DOMAIN m = DOMAIN w /\ \A r \in DOMAIN w : m[r] = w[r]
  BY <1>1, <1>2 DEF Overlaid
<1> QED
  BY <1>3 DEF Overlaid

LEMMA MergeMembers ==
    ASSUME NEW a, IsTree(a), a = [r \in DOMAIN a |-> a[r]],
           NEW b, IsTree(b), b = [r \in DOMAIN b |-> b[r]], NEW preferA \in BOOLEAN
    PROVE  MergesMembers(a, b, preferA)
<1> DEFINE m == DeepMerge(a, b, preferA)
<1>1. IsTree(m)
  BY DeepMergeIsTree
<1>2. preferA => Overlaid(m, a, b)
  BY MergeOverlays
<1>3. ~preferA => Overlaid(m, b, a)
  BY MergeOverlays
<1> HIDE DEF m
<1>4. CASE a[<<>>] = Object /\ b[<<>>] = Object
  <2>1. m[<<>>] = Object /\ Members(m) = Members(a) \cup Members(b)
    BY <1>1, <1>2, <1>3, <1>4, ObjectsMerge
  <2>2. ASSUME NEW n \in Members(m)
        PROVE  /\ n \notin Members(b) => At(m, <<n>>) = At(a, <<n>>)
               /\ n \notin Members(a) => At(m, <<n>>) = At(b, <<n>>)
               /\ At(m, <<n>>) = DeepMerge(At(a, <<n>>), At(b, <<n>>), preferA)
    <3> DEFINE am == At(m, <<n>>)
               aa == At(a, <<n>>)
               ab == At(b, <<n>>)
    <3>1. /\ n \notin Members(b) => am = aa
          /\ n \notin Members(a) => am = ab
      BY <1>1, <1>2, <1>3, <1>4, ObjectsMerge
    <3>2. /\ preferA => Overlaid(am, aa, ab)
          /\ ~preferA => Overlaid(am, ab, aa)
      BY <1>1, <1>2, <1>3, <1>4, ObjectsMerge
    <3> HIDE DEF am, aa, ab
    <3>3. /\ preferA => am = DeepMerge(aa, ab, TRUE)
          /\ ~preferA => am = DeepMerge(aa, ab, FALSE)
      BY <3>2, MergeOverlays, OverlaidOnce
    <3>4. am = DeepMerge(aa, ab, preferA)
      BY <3>3
    <3> QED
      BY <3>1, <3>4 DEF am, aa, ab
  <2>3. \A n \in Members(m) :
           At(m, <<n>>) = IF n \notin Members(b) THEN At(a, <<n>>)
                          ELSE IF n \notin Members(a) THEN At(b, <<n>>)
                          ELSE DeepMerge(At(a, <<n>>), At(b, <<n>>), preferA)
    BY <2>2
  <2> QED
    BY <1>4, <2>1, <2>3 DEF MergesMembers, m
<1>5. CASE ~(a[<<>>] = Object /\ b[<<>>] = Object)
  <2>1. (preferA => m = a) /\ (~preferA => m = b)
    BY <1>2, <1>3, <1>5, RootsClash
  <2> QED
    BY <1>5, <2>1 DEF MergesMembers, m
<1> QED
  BY <1>4, <1>5

LEMMA KnownAreTrees ==
    ASSUME TypeOK, NEW other \in Known
    PROVE  IsTree(other)
BY RemoteAssumption DEF Known, TypeOK

(* The merge by paths is the recursion of deep_merge: in every pair of     *)
(* subtrees of documents that ever meet, two objects are merged member by  *)
(* member and of anything else the preferred one stays.                    *)
THEOREM MergeRecurses == Spec => []MergeIsRecursive
<1>1. TypeOK => MergeIsRecursive
  <2> SUFFICES ASSUME TypeOK, NEW other \in Known, NEW preferA \in BOOLEAN,
                      NEW p \in DOMAIN doc \cap DOMAIN other
               PROVE  MergesMembers(At(doc, p), At(other, p), preferA)
    BY DEF MergeIsRecursive
  <2>1. IsTree(doc) /\ IsTree(other) /\ p \in Path
    BY KnownAreTrees DEF TypeOK, IsTree
  <2>2. IsTree(At(doc, p)) /\ IsTree(At(other, p))
    BY <2>1, AtIsTree DEF Has
  <2>3. /\ At(doc, p) = [r \in DOMAIN At(doc, p) |-> At(doc, p)[r]]
        /\ At(other, p) = [r \in DOMAIN At(other, p) |-> At(other, p)[r]]
    BY <2>1, AtBelow
  <2> QED
    BY <2>2, <2>3, MergeMembers
<1> QED
  BY <1>1, TypeCorrect, PTL DEF Spec

-----------------------------------------------------------------------------
(* Documents as maps of paths.                                             *)

\* Without a leaf against an object, nothing clashes at or above a path the
\* preferred document lacks.
LEMMA PathIsAdded ==
    ASSUME NEW w, IsTree(w), NEW l, IsTree(l), NEW m, Overlaid(m, w, l),
           \A r \in DOMAIN w \cap DOMAIN l : w[r] = Object <=> l[r] = Object,
           NEW k \in DOMAIN l, k \notin DOMAIN w
    PROVE  k \in DOMAIN m /\ m[k] = l[k]
<1>1. ASSUME NEW q \in Above(k) PROVE ~Clash(w, l, q)
  BY DEF Clash, IsTree
<1>2. ~Clash(w, l, k)
  BY DEF Clash
<1> QED
  BY <1>1, <1>2 DEF Overlaid

LEMMA MapOfTree ==
    ASSUME NEW d, IsTree(d), NEW k \in KeyPath
    PROVE  /\ k \in DOMAIN d => PathMap(d)[k] = d[k] /\ d[k] # Nothing
           /\ k \notin DOMAIN d => PathMap(d)[k] = Nothing
BY KeyPathAssumption DEF PathMap, Has, IsTree

LEMMA MapsOverlay ==
    ASSUME NEW w, IsTree(w), NEW l, IsTree(l), NEW m, Overlaid(m, w, l), IsTree(m),
           \A r \in DOMAIN w \cap DOMAIN l : w[r] = Object <=> l[r] = Object,
           NEW k \in KeyPath
    PROVE  /\ PathMap(w)[k] # Nothing => PathMap(m)[k] = PathMap(w)[k]
           /\ PathMap(w)[k] = Nothing => PathMap(m)[k] = PathMap(l)[k]
<1>1. CASE k \in DOMAIN w
  <2>1. k \in DOMAIN m /\ m[k] = w[k]
    BY <1>1 DEF Overlaid
  <2> QED
    BY <1>1, <2>1, MapOfTree
<1>2. CASE k \notin DOMAIN w /\ k \in DOMAIN l
  <2>1. k \in DOMAIN m /\ m[k] = l[k]
    BY <1>2, PathIsAdded
  <2> QED
    BY <1>2, <2>1, MapOfTree
<1>3. CASE k \notin DOMAIN w /\ k \notin DOMAIN l
  <2>1. k \notin DOMAIN m
    BY <1>3 DEF Overlaid
  <2> QED
    BY <1>3, <2>1, MapOfTree
<1> QED
  BY <1>1, <1>2, <1>3

\* Maps that look at all of two documents tell them apart.
LEMMA MapsTellApart ==
    ASSUME NEW a, IsTree(a), NEW b, IsTree(b)
    PROVE  MapsOfSame(a, b)
<1> SUFFICES ASSUME DOMAIN a \cup DOMAIN b \subseteq KeyPath
             PROVE  PathMap(a) = PathMap(b) <=> \A q \in DOMAIN a \cup DOMAIN b : SameAt(a, b, q)
  BY DEF MapsOfSame
<1>1. ASSUME PathMap(a) = PathMap(b), NEW q \in DOMAIN a \cup DOMAIN b PROVE SameAt(a, b, q)
  BY <1>1, MapOfTree DEF SameAt
<1>2. ASSUME \A q \in DOMAIN a \cup DOMAIN b : SameAt(a, b, q)
      PROVE  PathMap(a) = PathMap(b)
  <2>1. ASSUME NEW k \in KeyPath PROVE PathMap(a)[k] = PathMap(b)[k]
    BY <1>2, MapOfTree DEF SameAt
  <2>2. /\ PathMap(a) = [k \in KeyPath |-> PathMap(a)[k]]
        /\ PathMap(b) = [k \in KeyPath |-> PathMap(b)[k]]
    BY DEF PathMap
  <2> QED
    BY <2>1, <2>2
<1> QED
  BY <1>1, <1>2

(* Wherever no leaf meets an object, the merge of two documents as trees   *)
(* is the merge of their maps of paths, the one the replicated contexts    *)
(* are modelled with (deep_merge); and those maps are equal exactly when   *)
(* the documents are (self.data != other.data).                            *)
THEOREM PathMapsSuffice == Spec => []PathMapsAgree
<1>1. ASSUME TypeOK, NEW other \in Known, NEW preferA \in BOOLEAN,
             ~LeafMeetsObject(doc, other)
      PROVE  PathMap(DeepMerge(doc, other, preferA))
               = Maps!DeepMerge(PathMap(doc), PathMap(other), preferA)
  <2> DEFINE m == DeepMerge(doc, other, preferA)
             f == PathMap(doc)
             g == PathMap(other)
             h == PathMap(m)
  <2>1. IsTree(doc) /\ IsTree(other) /\ IsTree(m)
    BY <1>1, KnownAreTrees, DeepMergeIsTree DEF TypeOK
  <2>2. /\ preferA => Overlaid(m, doc, other)
        /\ ~preferA => Overlaid(m, other, doc)
    BY MergeOverlays
  <2>3. \A r \in DOMAIN doc \cap DOMAIN other : doc[r] = Object <=> other[r] = Object
    BY <1>1 DEF LeafMeetsObject
  <2>4. h = [k \in KeyPath |-> h[k]]
    BY DEF PathMap
  <2> HIDE DEF m
  <2>5. ASSUME NEW k \in KeyPath
        PROVE  /\ preferA => /\ f[k] # Nothing => h[k] = f[k]
                             /\ f[k] = Nothing => h[k] = g[k]
               /\ ~preferA => /\ g[k] # Nothing => h[k] = g[k]
                              /\ g[k] = Nothing => h[k] = f[k]
    BY <2>1, <2>2, <2>3, MapsOverlay
  <2> HIDE DEF f, g, h
  <2>6. \A k \in KeyPath :
           h[k] = IF f[k] = Nothing \/ (g[k] # Nothing /\ ~preferA) THEN g[k] ELSE f[k]
    BY <1>1, <2>5
  <2>7. h = Maps!DeepMerge(f, g, preferA)
    BY <2>4, <2>6 DEF Maps!DeepMerge
  <2> QED
    BY <2>7 DEF f, g, h, m
<1>2. ASSUME TypeOK, NEW other \in Known PROVE MapsOfSame(doc, other)
  BY <1>2, KnownAreTrees, MapsTellApart DEF TypeOK
<1>3. TypeOK => PathMapsAgree
  BY <1>1, <1>2 DEF PathMapsAgree
<1> QED
  BY <1>3, TypeCorrect, PTL DEF Spec

-----------------------------------------------------------------------------
(* The entries under the devices.                                          *)

\* A place in an entry.
Inside(n, p) == Entry(n) \o p

\* CapsSound, place by place.
SoundPlaces(d) ==
    /\ CapsPath \in DOMAIN d => d[CapsPath] = Object
    /\ \A n \in Name : Entry(n) \in DOMAIN d => d[Entry(n)] = Object
    /\ \A n \in Name, p \in DOMAIN Optional :
          Inside(n, p) \in DOMAIN d => d[Inside(n, p)] \in Optional[p]
    /\ \A n \in Name, p \in DOMAIN Variants :
          (Inside(n, p) \in DOMAIN d /\ d[Inside(n, p)] = Object) =>
             \E v \in Variants[p] : HasMembers(d, Inside(n, p), v)

\* What is above a member.
LEMMA AboveMember ==
    ASSUME NEW e \in Path, NEW f \in Name
    PROVE  LET x == e \o <<f>>
           IN  x \in Path /\ x # <<>> /\ e \in Above(x) /\ Above(x) \subseteq Above(e) \cup {e}
<1> DEFINE x == e \o <<f>>
<1>1. <<f>> \in Path /\ Len(<<f>>) = 1 /\ Above(<<f>>) = {<<>>}
  BY MemberPath
<1>2. x \in Path /\ Len(x) = Len(e) + 1 /\ IsPrefix(e, x)
  BY <1>1, ConcatPath
<1>6. Len(e) \in Nat /\ Len(e) < Len(e) + 1
  BY DEF Path
<1>3. ASSUME NEW q \in Above(x) PROVE q \in Above(e) \cup {e}
  <2>1. CASE IsPrefix(e, q)
    <3>1. Rest(e, q) = <<>> /\ q \in Path
      BY <1>1, <2>1, AboveExtension
    <3>2. q = e \o <<>>
      BY <2>1, <3>1, PrefixAndRest
    <3> QED
      BY <3>2, ConcatEmptySeq DEF Path
  <2>2. CASE ~IsPrefix(e, q)
    BY <1>1, <2>2, AboveExtension
  <2> QED
    BY <2>1, <2>2
<1> HIDE DEF x
<1>4. e \in Above(x)
  BY <1>2, <1>6, AboveIsStrictPrefix
<1>5. x # <<>>
  BY <1>2, <1>6, EmptySeq
<1> QED
  BY <1>2, <1>3, <1>4, <1>5 DEF x

\* The paths of an entry, of a place in it and of the members there.
LEMMA EntryPaths ==
    ASSUME NEW n \in Name
    PROVE  /\ CapsPath \in Path /\ Entry(n) \in Path /\ Entry(n) # <<>>
           /\ CapsPath \in Above(Entry(n))
           /\ \A p \in DOMAIN Optional \cup DOMAIN Variants : p \in Path /\ Inside(n, p) \in Path
<1>1. CapsPath \in Path /\ DOMAIN Optional \cup DOMAIN Variants \subseteq Path
  BY CapsAssumption
<1>2. Entry(n) \in Path /\ Entry(n) # <<>> /\ CapsPath \in Above(Entry(n))
  BY <1>1, AboveMember DEF Entry
<1>3. \A p \in Path : Inside(n, p) \in Path
  BY <1>2, ConcatPath DEF Inside
<1> QED
  BY <1>1, <1>2, <1>3

LEMMA MemberNames ==
    \A p \in DOMAIN Variants : \A v \in Variants[p] : DOMAIN v \subseteq Name
BY CapsAssumption

LEMMA EntryDecodes ==
    ASSUME NEW d, IsTree(d), NEW n \in Name, Entry(n) \in DOMAIN d
    PROVE  Decodes(CapsOf(d, n)) <=>
              /\ d[Entry(n)] = Object
              /\ \A p \in DOMAIN Optional :
                    Inside(n, p) \in DOMAIN d => d[Inside(n, p)] \in Optional[p]
              /\ \A p \in DOMAIN Variants :
                    (Inside(n, p) \in DOMAIN d /\ d[Inside(n, p)] = Object) =>
                       \E v \in Variants[p] : HasMembers(d, Inside(n, p), v)
<1> DEFINE caps == At(d, Entry(n))
<1>1. Entry(n) \in Path
  BY EntryPaths
<1>2. /\ DOMAIN caps = {s \in Path : Entry(n) \o s \in DOMAIN d}
      /\ \A s \in DOMAIN caps : caps[s] = d[Entry(n) \o s]
  BY <1>1, AtBelow
<1>3. CapsOf(d, n) = caps
  BY DEF CapsOf, Entry
<1>4. Entry(n) \o <<>> = Entry(n) /\ <<>> \in Path
  BY <1>1, ConcatEmptySeq, EmptySeq DEF Path
<1> HIDE DEF caps
<1>5. ASSUME NEW p \in Path
      PROVE  /\ p \in DOMAIN caps <=> Inside(n, p) \in DOMAIN d
             /\ p \in DOMAIN caps => caps[p] = d[Inside(n, p)]
  BY <1>2 DEF Inside
<1>6. caps[<<>>] = d[Entry(n)]
  BY <1>2, <1>4
<1>7. ASSUME NEW p \in DOMAIN Variants, NEW v \in Variants[p]
      PROVE  HasMembers(caps, p, v) <=> HasMembers(d, Inside(n, p), v)
  <2>1. ASSUME NEW f \in DOMAIN v
        PROVE  /\ p \o <<f>> \in DOMAIN caps <=> Inside(n, p) \o <<f>> \in DOMAIN d
               /\ p \o <<f>> \in DOMAIN caps => caps[p \o <<f>>] = d[Inside(n, p) \o <<f>>]
    <3>1. p \in Path /\ f \in Name /\ <<f>> \in Path
      BY MemberNames, EntryPaths, MemberPath
    <3>2. p \o <<f>> \in Path
      BY <3>1, ConcatPath
    <3>3. Inside(n, p \o <<f>>) = Inside(n, p) \o <<f>>
      BY <1>1, <3>1, ConcatAssociative DEF Inside, Path
    <3> QED
      BY <1>5, <3>2, <3>3
  <2> QED
    BY <2>1 DEF HasMembers, Has
<1>8. DOMAIN Optional \cup DOMAIN Variants \subseteq Path
  BY CapsAssumption
<1> QED
  BY <1>3, <1>5, <1>6, <1>7, <1>8 DEF Decodes

LEMMA SoundByPlaces ==
    ASSUME NEW d, IsTree(d)
    PROVE  CapsSound(d) <=> SoundPlaces(d)
<1>1. \A n \in Name : Entry(n) \in DOMAIN d => CapsPath \in DOMAIN d
  BY EntryPaths DEF IsTree
<1>2. Devices(d) = {n \in Name : Entry(n) \in DOMAIN d}
  BY DEF Devices, Has, Entry
<1>3. ASSUME NEW n \in Name, NEW p \in DOMAIN Optional \cup DOMAIN Variants,
             Inside(n, p) \in DOMAIN d
      PROVE  Entry(n) \in DOMAIN d
  <2>1. p \in Path /\ Entry(n) \in Path /\ Inside(n, p) \in Path
    BY EntryPaths
  <2>2. IsPrefix(Entry(n), Inside(n, p))
    BY <2>1, ConcatPath DEF Inside
  <2>3. Entry(n) = Inside(n, p) \/ Entry(n) \in Above(Inside(n, p))
    BY <2>1, <2>2, PrefixIsAbove
  <2> QED
    BY <1>3, <2>3 DEF IsTree
<1>4. CapsSound(d) <=> (CapsPath \in DOMAIN d =>
          d[CapsPath] = Object /\ \A n \in Name : Entry(n) \in DOMAIN d => Decodes(CapsOf(d, n)))
  BY <1>2 DEF CapsSound, QueryAnswers, Has
<1>5. CapsSound(d) => SoundPlaces(d)
  BY <1>1, <1>3, <1>4, EntryDecodes DEF SoundPlaces
<1>6. SoundPlaces(d) => CapsSound(d)
  BY <1>4, EntryDecodes DEF SoundPlaces
<1> QED
  BY <1>5, <1>6

\* A merge takes a place from one of the two with all the members its variant
\* asks for.
LEMMA MergeKeepsSound ==
    ASSUME NEW w, IsTree(w), SoundPlaces(w), NEW l, IsTree(l), SoundPlaces(l),
           NEW m, Overlaid(m, w, l)
    PROVE  SoundPlaces(m)
<1>1. \A r \in DOMAIN m : (r \in DOMAIN w /\ m[r] = w[r]) \/ (r \in DOMAIN l /\ m[r] = l[r])
  BY DEF Overlaid
<1>2. /\ CapsPath \in DOMAIN m => m[CapsPath] = Object
      /\ \A n \in Name : Entry(n) \in DOMAIN m => m[Entry(n)] = Object
      /\ \A n \in Name, p \in DOMAIN Optional :
            Inside(n, p) \in DOMAIN m => m[Inside(n, p)] \in Optional[p]
  BY <1>1 DEF SoundPlaces
<1>3. ASSUME NEW n \in Name, NEW p \in DOMAIN Variants,
             Inside(n, p) \in DOMAIN m, m[Inside(n, p)] = Object
      PROVE  \E v \in Variants[p] : HasMembers(m, Inside(n, p), v)
  <2> DEFINE x == Inside(n, p)
  <2>0. x \in Path
    BY EntryPaths
  <2>1. CASE x \in DOMAIN w
    <3>1. w[x] = Object
      BY <1>3, <2>1 DEF Overlaid
    <3>2. PICK v \in Variants[p] : HasMembers(w, x, v)
      BY <2>1, <3>1 DEF SoundPlaces
    <3> HIDE DEF x
    <3>3. HasMembers(m, x, v)
      BY <3>2 DEF HasMembers, Has, Overlaid
    <3> QED
      BY <3>3 DEF x
  <2>2. CASE x \notin DOMAIN w
    <3>1. /\ x \in DOMAIN l /\ l[x] = Object
          /\ \A q \in Above(x) \cup {x} : ~Clash(w, l, q)
      BY <1>3, <2>2 DEF Overlaid
    <3>2. PICK v \in Variants[p] : HasMembers(l, x, v)
      BY <3>1 DEF SoundPlaces
    <3> HIDE DEF x
    <3>3. ASSUME NEW f \in DOMAIN v
          PROVE  x \o <<f>> \in DOMAIN m /\ m[x \o <<f>>] = l[x \o <<f>>]
      <4> DEFINE y == x \o <<f>>
      <4>1. /\ x \in Above(y) /\ Above(y) \subseteq Above(x) \cup {x}
        BY <2>0, MemberNames, AboveMember
      <4>2. y \in DOMAIN l
        BY <3>2 DEF HasMembers, Has
      <4> HIDE DEF y
      <4>3. y \notin DOMAIN w
        BY <2>2, <4>1 DEF IsTree
      <4>4. \A q \in Above(y) \cup {y} : ~Clash(w, l, q)
        BY <3>1, <4>1, <4>3 DEF Clash
      <4>5. y \in DOMAIN m /\ m[y] = l[y]
        BY <4>2, <4>3, <4>4 DEF Overlaid
      <4> QED
        BY <4>5 DEF y
    <3>4. HasMembers(m, x, v)
      BY <3>2, <3>3 DEF HasMembers, Has
    <3> QED
      BY <3>4 DEF x
  <2> QED
    BY <2>1, <2>2
<1> QED
  BY <1>2, <1>3 DEF SoundPlaces

LEMMA DeepMergeKeepsSound ==
    ASSUME NEW a, IsTree(a), SoundPlaces(a), NEW b, IsTree(b), SoundPlaces(b),
           NEW preferA \in BOOLEAN
    PROVE  SoundPlaces(DeepMerge(a, b, preferA))
<1>1. SoundPlaces(DeepMerge(a, b, TRUE)) /\ SoundPlaces(DeepMerge(a, b, FALSE))
  BY MergeOverlays, MergeKeepsSound
<1> QED
  BY <1>1

LEMMA EmptyIsSound == SoundPlaces(EmptyObject)
<1>1. DOMAIN EmptyObject = {<<>>} /\ EmptyObject[<<>>] = Object
  BY DEF EmptyObject
<1>2. ASSUME NEW n \in Name PROVE Entry(n) \notin DOMAIN EmptyObject
  BY <1>1, EntryPaths
<1>3. ASSUME NEW n \in Name, NEW p \in DOMAIN Optional \cup DOMAIN Variants
      PROVE  Inside(n, p) \notin DOMAIN EmptyObject
  <2>1. Entry(n) \in Path /\ p \in Path /\ Entry(n) # <<>> /\ Inside(n, p) \in Path
    BY EntryPaths
  <2>2. Len(Inside(n, p)) = Len(Entry(n)) + Len(p)
    BY <2>1, ConcatPath DEF Inside
  <2>3. Len(Entry(n)) \in Nat \ {0} /\ Len(p) \in Nat
    BY <2>1, EmptySeq, LenProperties DEF Path
  <2>4. Len(<<>>) = 0
    BY EmptySeq
  <2>5. Len(Inside(n, p)) # 0
    BY <2>2, <2>3
  <2> QED
    BY <1>1, <2>4, <2>5
<1> QED
  BY <1>1, <1>2, <1>3 DEF SoundPlaces

\* An edit leaves what it would make of nothing, over what was there.
LEMMA SetFromNothing ==
    ASSUME NEW d, IsTree(d), NEW p \in Path, NEW v, IsTree(v), NEW q \in Path
    PROVE  LET new == SetNestedValue(d, p, v)
               alone == SetNestedValue(EmptyObject, p, v)
           IN  /\ q \in DOMAIN alone => q \in DOMAIN new /\ new[q] = alone[q]
               /\ q \in DOMAIN new /\ q \notin DOMAIN alone => q \in DOMAIN d /\ new[q] = d[q]
               /\ q \in DOMAIN d /\ ~IsPrefix(p, q) => q \in DOMAIN new
               /\ IsPrefix(p, q) /\ q \in DOMAIN new => q \in DOMAIN alone
               /\ q \in Above(p) => q \in DOMAIN alone
<1> DEFINE new == SetNestedValue(d, p, v)
           alone == SetNestedValue(EmptyObject, p, v)
<1>1. IsTree(EmptyObject) /\ DOMAIN EmptyObject = {<<>>}
  BY EmptyIsTree DEF EmptyObject
<1>2. q \in Above(p) => q \in DOMAIN new /\ q \in DOMAIN alone
  BY DEF SetNestedValue
<1>3. CASE IsPrefix(p, q)
  <2> DEFINE s == Rest(p, q)
  <2>1. s \in Path /\ q = p \o s
    BY <1>3, PrefixAndRest
  <2> HIDE DEF s
  <2>2. /\ q \in DOMAIN new <=> s \in DOMAIN v
        /\ s \in DOMAIN v => new[q] = v[s]
    BY <2>1, SetBelow
  <2>3. /\ q \in DOMAIN alone <=> s \in DOMAIN v
        /\ s \in DOMAIN v => alone[q] = v[s]
    BY <1>1, <2>1, SetBelow
  <2> HIDE DEF new, alone
  <2>4. /\ q \in DOMAIN alone => q \in DOMAIN new /\ new[q] = alone[q]
        /\ q \in DOMAIN new => q \in DOMAIN alone
    BY <2>2, <2>3
  <2> QED
    BY <1>2, <1>3, <2>4 DEF new, alone
<1>4. CASE ~IsPrefix(p, q)
  <2>1. /\ q \in DOMAIN d => q \in DOMAIN new
        /\ q \in DOMAIN new => \/ q \in Above(p) /\ new[q] = Object
                               \/ q \in DOMAIN d /\ new[q] = d[q]
    BY <1>4, SetBeside
  <2>2. q \in DOMAIN alone => \/ q \in Above(p) /\ alone[q] = Object
                              \/ q \in DOMAIN EmptyObject /\ alone[q] = EmptyObject[q]
    BY <1>1, <1>4, SetBeside
  <2>3. q = <<>> => q \in Above(p)
    <3>1. p # <<>> \/ q # <<>>
      BY <1>4, PrefixElements, EmptySeq DEF Path
    <3> QED
      BY <3>1, RootIsAbove
  <2>4. q \in Above(p) => new[q] = Object /\ alone[q] = Object
    BY <1>4 DEF SetNestedValue
  <2> HIDE DEF new, alone
  <2>5. q \in DOMAIN alone => q \in Above(p)
    BY <1>1, <2>2, <2>3
  <2>6. /\ q \in DOMAIN alone => q \in DOMAIN new /\ new[q] = alone[q]
        /\ q \in DOMAIN new /\ q \notin DOMAIN alone => q \in DOMAIN d /\ new[q] = d[q]
    BY <1>2, <2>1, <2>4, <2>5
  <2> QED
    BY <1>2, <1>4, <2>1, <2>6 DEF new, alone
<1> QED
  BY <1>3, <1>4

\* An edit that would make sound entries of nothing keeps those there are: what
\* it leaves beside its own has all its members still.
LEMMA SetKeepsSound ==
    ASSUME NEW d, IsTree(d), SoundPlaces(d), NEW p \in Path, NEW v, IsTree(v),
           SoundPlaces(SetNestedValue(EmptyObject, p, v))
    PROVE  SoundPlaces(SetNestedValue(d, p, v))
<1> DEFINE new == SetNestedValue(d, p, v)
           alone == SetNestedValue(EmptyObject, p, v)
<1>1. ASSUME NEW q \in Path
      PROVE  /\ q \in DOMAIN alone => q \in DOMAIN new /\ new[q] = alone[q]
             /\ q \in DOMAIN new /\ q \notin DOMAIN alone => q \in DOMAIN d /\ new[q] = d[q]
             /\ q \in DOMAIN d /\ ~IsPrefix(p, q) => q \in DOMAIN new
             /\ IsPrefix(p, q) /\ q \in DOMAIN new => q \in DOMAIN alone
             /\ q \in Above(p) => q \in DOMAIN alone
  BY SetFromNothing
<1>2. SoundPlaces(alone) /\ IsTree(alone)
  BY EmptyIsTree, SetNestedValueIsTree
<1> HIDE DEF new, alone
<1>3. \A n \in Name : CapsPath \in Path /\ Entry(n) \in Path
  BY EntryPaths
<1>4. \A n \in Name, s \in DOMAIN Optional \cup DOMAIN Variants : Inside(n, s) \in Path
  BY EntryPaths
<1>5. CapsPath \in DOMAIN new => new[CapsPath] = Object
  BY <1>1, <1>2, CapsAssumption DEF SoundPlaces
<1>6. \A n \in Name : Entry(n) \in DOMAIN new => new[Entry(n)] = Object
  BY <1>1, <1>2, <1>3 DEF SoundPlaces
<1>7. ASSUME NEW n \in Name, NEW s \in DOMAIN Optional, Inside(n, s) \in DOMAIN new
      PROVE  new[Inside(n, s)] \in Optional[s]
  BY <1>1, <1>2, <1>4, <1>7 DEF SoundPlaces
<1>8. ASSUME NEW n \in Name, NEW s \in DOMAIN Variants,
             Inside(n, s) \in DOMAIN new, new[Inside(n, s)] = Object
      PROVE  \E u \in Variants[s] : HasMembers(new, Inside(n, s), u)
  <2> DEFINE x == Inside(n, s)
  <2>0. x \in Path
    BY <1>4
  <2>1. CASE x \in DOMAIN alone
    <3>1. alone[x] = Object
      BY <1>1, <1>8, <2>0, <2>1
    <3>2. PICK u \in Variants[s] : HasMembers(alone, x, u)
      BY <1>2, <2>1, <3>1 DEF SoundPlaces
    <3> HIDE DEF x
    <3>3. ASSUME NEW f \in DOMAIN u PROVE x \o <<f>> \in Path
      BY <2>0, MemberNames, AboveMember
    <3>4. HasMembers(new, x, u)
      BY <1>1, <3>2, <3>3 DEF HasMembers, Has
    <3> QED
      BY <3>4 DEF x
  <2>2. CASE x \notin DOMAIN alone
    <3>1. x \in DOMAIN d /\ d[x] = Object
      BY <1>1, <1>8, <2>0, <2>2
    <3>2. ~IsPrefix(p, x) /\ x \notin Above(p)
      BY <1>1, <1>8, <2>0, <2>2
    <3>3. PICK u \in Variants[s] : HasMembers(d, x, u)
      BY <3>1 DEF SoundPlaces
    <3> HIDE DEF x
    <3>4. ASSUME NEW f \in DOMAIN u
          PROVE  x \o <<f>> \in DOMAIN new /\ new[x \o <<f>>] = d[x \o <<f>>]
      <4> DEFINE y == x \o <<f>>
      <4>1. y \in Path /\ x \in Above(y) /\ Above(y) \subseteq Above(x) \cup {x}
        BY <2>0, MemberNames, AboveMember
      <4>2. y \in DOMAIN d
        BY <3>3 DEF HasMembers, Has
      <4> HIDE DEF y
      <4>3. y \notin DOMAIN alone
        BY <1>2, <2>2, <4>1 DEF IsTree
      <4>4. ~IsPrefix(p, y)
        <5>1. IsPrefix(p, y) => p = y \/ p \in Above(y)
          BY <4>1, PrefixIsAbove
        <5>2. p # y
          BY <3>2, <4>1
        <5>3. p \notin Above(x) \cup {x}
          <6>1. p \in Above(x) => IsPrefix(p, x)
            BY <2>0, AboveIsStrictPrefix
          <6>2. p = x => IsPrefix(p, x)
            BY <2>0, PrefixElements, LenProperties DEF Path
          <6> QED
            BY <3>2, <6>1, <6>2
        <5> QED
          BY <4>1, <5>1, <5>2, <5>3
      <4>5. y \in DOMAIN new /\ new[y] = d[y]
        BY <1>1, <4>1, <4>2, <4>3, <4>4
      <4> QED
        BY <4>5 DEF y
    <3>5. HasMembers(new, x, u)
      BY <3>3, <3>4 DEF HasMembers, Has
    <3> QED
      BY <3>5 DEF x
  <2> QED
    BY <2>1, <2>2
<1>9. SoundPlaces(new)
  BY <1>5, <1>6, <1>7, <1>8 DEF SoundPlaces
<1> QED
  BY <1>9 DEF new

\* A deletion takes a place whole, or something no variant asks for.
LEMMA DeleteKeepsSound ==
    ASSUME NEW d, IsTree(d), SoundPlaces(d), NEW p \in Path,
           \A n \in Name, s \in DOMAIN Variants : \A v \in Variants[s] : \A f \in DOMAIN v :
              p # Entry(n) \o s \o <<f>>
    PROVE  SoundPlaces(DeleteNestedValue(d, p))
<1> DEFINE new == DeleteNestedValue(d, p)
<1>1. CASE p = <<>>
  <2>1. new = EmptyObject
    BY <1>1 DEF DeleteNestedValue
  <2> QED
    BY <2>1, EmptyIsSound
<1>2. CASE p # <<>>
  <2>1. /\ \A q : q \in DOMAIN new <=> q \in DOMAIN d /\ ~IsPrefix(p, q)
        /\ \A q \in DOMAIN new : new[q] = d[q]
    BY <1>2 DEF DeleteNestedValue
  <2> HIDE DEF new
  <2>2. ASSUME NEW n \in Name, NEW s \in DOMAIN Variants,
               Inside(n, s) \in DOMAIN new, new[Inside(n, s)] = Object
        PROVE  \E v \in Variants[s] : HasMembers(new, Inside(n, s), v)
    <3> DEFINE x == Inside(n, s)
    <3>1. x \in Path
      BY EntryPaths
    <3>2. x \in DOMAIN d /\ d[x] = Object /\ ~IsPrefix(p, x)
      BY <2>1, <2>2
    <3>3. PICK v \in Variants[s] : HasMembers(d, x, v)
      BY <3>2 DEF SoundPlaces
    <3>4. ASSUME NEW f \in DOMAIN v PROVE p # x \o <<f>>
      BY DEF Inside
    <3> HIDE DEF x
    <3>5. ASSUME NEW f \in DOMAIN v
          PROVE  x \o <<f>> \in DOMAIN new /\ new[x \o <<f>>] = d[x \o <<f>>]
      <4> DEFINE y == x \o <<f>>
      <4>1. y \in Path /\ Above(y) \subseteq Above(x) \cup {x}
        BY <3>1, MemberNames, AboveMember
      <4>2. y \in DOMAIN d /\ p # y
        BY <3>3, <3>4 DEF HasMembers, Has
      <4> HIDE DEF y
      <4>3. p \notin Above(x) \cup {x}
        <5>1. p \in Above(x) => IsPrefix(p, x)
          BY <3>1, AboveIsStrictPrefix
        <5>2. IsPrefix(x, x)
          BY <3>1, PrefixElements, LenProperties DEF Path
        <5> QED
          BY <3>2, <5>1, <5>2
      <4>4. ~IsPrefix(p, y)
        BY <4>1, <4>2, <4>3, PrefixIsAbove
      <4>5. y \in DOMAIN new /\ new[y] = d[y]
        BY <2>1, <4>2, <4>4
      <4> QED
        BY <4>5 DEF y
    <3>6. HasMembers(new, x, v)
      BY <3>3, <3>5 DEF HasMembers, Has
    <3> QED
      BY <3>6 DEF x
  <2>3. SoundPlaces(new)
    BY <2>1, <2>2 DEF SoundPlaces
  <2> QED
    BY <2>3 DEF new
<1> QED
  BY <1>1, <1>2

\* The documents there are, the node's and the copies of its tasks, are sound.
SoundDocuments ==
    /\ TypeOK /\ NoClearPending
    /\ SoundPlaces(doc)
    /\ \A t \in Task : copy[t] # NoCopy => SoundPlaces(copy[t])

LEMMA EditedKeepsSound ==
    ASSUME WritersKeepCaps, NEW t \in Task, NEW c \in Calls(t), c.type # "Clear",
           NEW d, IsTree(d), SoundPlaces(d)
    PROVE  SoundPlaces(Edited(c, d))
<1>1. c.path \in Path /\ IsTree(c.value)
  BY CallsAreCalls
<1>2. CASE c.type = "Delete"
  <2>1. \A n \in Name, s \in DOMAIN Variants : \A v \in Variants[s] : \A f \in DOMAIN v :
           c.path # Entry(n) \o s \o <<f>>
    BY <1>2 DEF WritersKeepCaps
  <2> QED
    BY <1>1, <1>2, <2>1, DeleteKeepsSound DEF Edited
<1>3. CASE c.type # "Delete"
  <2>1. c.type \in {"Update", "Replace", "Claim"}
    BY <1>3, MenuAssumption DEF IsCall, CallType
  <2>2. CapsSound(SetNestedValue(EmptyObject, c.path, c.value))
    BY <2>1 DEF WritersKeepCaps
  <2>3. IsTree(SetNestedValue(EmptyObject, c.path, c.value))
    BY <1>1, EmptyIsTree, SetNestedValueIsTree
  <2>4. SoundPlaces(SetNestedValue(EmptyObject, c.path, c.value))
    BY <2>2, <2>3, SoundByPlaces
  <2> QED
    BY <1>1, <1>3, <2>4, SetKeepsSound DEF Edited
<1> QED
  BY <1>2, <1>3

LEMMA CopiesStaySound ==
    ASSUME SoundDocuments,
           \/ copy' = copy
           \/ \E t \in Task : copy' = [copy EXCEPT ![t] = NoCopy]
           \/ \E t \in Task : copy' = [copy EXCEPT ![t] = doc]
    PROVE  \A t \in Task : copy'[t] # NoCopy => SoundPlaces(copy'[t])
<1> SUFFICES ASSUME NEW u \in Task, copy'[u] # NoCopy PROVE SoundPlaces(copy'[u])
  OBVIOUS
<1>1. DOMAIN copy = Task
  BY DEF SoundDocuments, TypeOK
<1>2. copy'[u] = copy[u] \/ copy'[u] = doc
  BY <1>1
<1> QED
  BY <1>2 DEF SoundDocuments

LEMMA SoundDocumentsStay ==
    ASSUME WritersKeepCaps
    PROVE  SoundDocuments /\ [Next]_vars => SoundDocuments'
<1> SUFFICES ASSUME SoundDocuments, [Next]_vars PROVE SoundDocuments'
  OBVIOUS
<1>1. TypeOK' /\ NoClearPending'
  BY NextTypeOK, ClearIsNeverPending DEF SoundDocuments
<1>2. /\ \/ copy' = copy
         \/ \E t \in Task : copy' = [copy EXCEPT ![t] = NoCopy]
         \/ \E t \in Task : copy' = [copy EXCEPT ![t] = doc]
      /\ \/ doc' = doc
         \/ \E t \in Task : Write(t)
         \/ \E t \in Task : \E c \in Calls(t) : Clear(t, c)
         \/ \E r \in Remote : Arrive(r)
  <2>1. ASSUME NEW t \in Task, NEW c \in Calls(t), Read(t, c) \/ CheckClaim(t, c)
        PROVE  doc' = doc /\ (copy' = copy \/ copy' = [copy EXCEPT ![t] = doc])
    BY <2>1 DEF Read, CheckClaim, ReadFor
  <2>2. ASSUME NEW t \in Task, ReadClaim(t)
        PROVE  doc' = doc /\ (copy' = copy \/ copy' = [copy EXCEPT ![t] = doc])
    BY <2>2 DEF ReadClaim, ReadFor
  <2>3. ASSUME NEW t \in Task, Write(t) PROVE copy' = [copy EXCEPT ![t] = NoCopy]
    BY <2>3 DEF Write
  <2>4. ASSUME NEW t \in Task, NEW c \in Calls(t), Clear(t, c) PROVE copy' = copy
    BY <2>4 DEF Clear
  <2>5. ASSUME NEW r \in Remote, Arrive(r) PROVE copy' = copy
    BY <2>5 DEF Arrive
  <2>6. CASE UNCHANGED vars
    BY <2>6 DEF vars
  <2>7. CASE Next
    BY <2>1, <2>2, <2>3, <2>4, <2>5, <2>7 DEF Next
  <2> QED
    BY <2>6, <2>7
<1>3. \A t \in Task : copy'[t] # NoCopy => SoundPlaces(copy'[t])
  BY <1>2, CopiesStaySound
<1>4. ASSUME NEW t \in Task, Write(t) PROVE SoundPlaces(doc')
  <2> DEFINE c == pending[t]
             edited == Edited(c, copy[t])
  <2>1. /\ c \in Calls(t) /\ c.type # "Clear" /\ IsTree(copy[t]) /\ SoundPlaces(copy[t])
        /\ IsTree(doc) /\ SoundPlaces(doc)
    BY <1>4 DEF Write, SoundDocuments, TypeOK, NoClearPending
  <2>2. IsTree(edited) /\ SoundPlaces(edited)
    BY <2>1, EditedIsTree, EditedKeepsSound
  <2>3. doc' = edited \/ doc' = DeepMerge(doc, edited, FALSE)
    BY <1>4 DEF Write
  <2> HIDE DEF edited, c
  <2> QED
    BY <2>1, <2>2, <2>3, DeepMergeKeepsSound
<1>5. ASSUME NEW t \in Task, NEW c \in Calls(t), Clear(t, c) PROVE SoundPlaces(doc')
  BY <1>5, EmptyIsSound DEF Clear
<1>6. ASSUME NEW r \in Remote, Arrive(r) PROVE SoundPlaces(doc')
  <2>1. IsTree(r) /\ SoundPlaces(r)
    BY RemoteAssumption, SoundByPlaces DEF WritersKeepCaps
  <2>2. IsTree(doc) /\ SoundPlaces(doc)
    BY DEF SoundDocuments, TypeOK
  <2>3. doc' = r \/ doc' = DeepMerge(doc, r, TRUE) \/ doc' = DeepMerge(doc, r, FALSE)
    BY <1>6 DEF Arrive
  <2> QED
    BY <2>1, <2>2, <2>3, DeepMergeKeepsSound
<1>7. ASSUME doc' = doc PROVE SoundPlaces(doc')
  BY <1>7 DEF SoundDocuments
<1>8. SoundPlaces(doc')
  BY <1>2, <1>4, <1>5, <1>6, <1>7
<1> QED
  BY <1>1, <1>3, <1>8 DEF SoundDocuments

(* Where every writer keeps to whole entries and deletes nothing a struct  *)
(* of src/src/capability.rs asks for, no interleaving of edits and         *)
(* arrivals, each a merge of entries of different variants or a            *)
(* replacement by a document that may have gone stale, leaves an entry     *)
(* that cannot be read back: queries keep being answered (execute_query).  *)
THEOREM QueriesStayAnswered ==
    ASSUME WritersKeepCaps
    PROVE  Spec => []CapsStayDecodable
<1>1. Init => SoundDocuments
  <2> SUFFICES ASSUME Init PROVE SoundDocuments
    OBVIOUS
  <2>1. TypeOK /\ NoClearPending
    BY InitTypeOK DEF Init, NoClearPending
  <2>3. SoundPlaces(doc)
    BY RemoteAssumption, SoundByPlaces DEF WritersKeepCaps, Init
  <2>4. \A t \in Task : copy[t] = NoCopy
    BY DEF Init
  <2> QED
    BY <2>1, <2>3, <2>4 DEF SoundDocuments
<1>2. SoundDocuments => CapsStayDecodable
  <2>1. SoundDocuments => IsTree(doc) /\ SoundPlaces(doc)
    BY DEF SoundDocuments, TypeOK
  <2> QED
    BY <2>1, SoundByPlaces DEF CapsSound, CapsStayDecodable
<1>3. SoundDocuments /\ [Next]_vars => SoundDocuments'
  BY SoundDocumentsStay
<1> QED
  BY <1>1, <1>2, <1>3, PTL DEF Spec
=============================================================================

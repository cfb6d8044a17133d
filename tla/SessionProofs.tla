---------------------------- MODULE SessionProofs ----------------------------
(***************************************************************************)
(* Proofs that the library, the wire and the bridge implement the session  *)
(* of DirectSession while nothing is disturbed, and of what this says      *)
(* about the mesh streams nobody holds any more: for any number of         *)
(* devices, topics, local ids, peers, calls and datagrams.                 *)
(***************************************************************************)
EXTENDS TLAPS, FiniteSetTheorems, SequenceTheorems, GatewayProofs

-----------------------------------------------------------------------------
(* Induction over the naturals: the smallest n outside S gives the         *)
(* smallest 1..n, and finite sets are well-founded under inclusion.        *)

LEMMA SetInduction ==
    ASSUME NEW S, 0 \in S, \A n \in Nat : n \in S => n + 1 \in S
    PROVE  Nat \subseteq S
<1> SUFFICES ASSUME Nat \ S # {} PROVE FALSE
  OBVIOUS
<1> DEFINE R == StrictSubsetOrdering(Nat)
           T == {1..n : n \in Nat \ S}
<1>1. IsWellFoundedOn(R, FiniteSubsetsOf(Nat))
  BY FS_StrictSubsetOrderingWellFounded
<1>2. T \subseteq FiniteSubsetsOf(Nat) /\ T # {}
  <2>1. \A n \in Nat : 1..n \in SUBSET Nat /\ IsFiniteSet(1..n)
    BY FS_Interval
  <2> QED
    BY <2>1 DEF FiniteSubsetsOf
<1>3. \A m, n \in Nat : m < n => <<1..m, 1..n>> \in R
  <2> SUFFICES ASSUME NEW m \in Nat, NEW n \in Nat, m < n
               PROVE  <<1..m, 1..n>> \in R
    OBVIOUS
  <2>1. 1..m \subseteq 1..n /\ n \in 1..n /\ n \notin 1..m
    OBVIOUS
  <2>2. 1..m # 1..n
    BY <2>1
  <2> QED
    BY <2>1, <2>2 DEF StrictSubsetOrdering
<1> HIDE DEF R
<1>5. \E x \in T : \A y \in T : ~(<<y, x>> \in R)
  <2> HIDE DEF T
  <2> QED BY <1>1, <1>2, WFMin
<1>6. PICK n \in Nat \ S : \A m \in Nat \ S : ~(<<1..m, 1..n>> \in R)
  BY <1>5
<1>7. n # 0 /\ n - 1 \in Nat /\ n - 1 < n /\ (n - 1) + 1 = n
  OBVIOUS
<1>8. n - 1 \in S
  BY <1>3, <1>6, <1>7
<1> QED
  BY <1>6, <1>7, <1>8

-----------------------------------------------------------------------------
(* What a device's messages make of its session, one after the other.      *)

After(v, q) == FoldLeft(Effect, v, q)

\* r[k] is the session after the first k messages of q.
IsRun(r, v, q) == r[0] = v /\ \A k \in 1..Len(q) : r[k] = Effect(r[k - 1], q[k])

FoldStep(f, v, q, s) ==
    IF s = {} THEN v ELSE LET x == Max(s) IN Effect(f[s \ {x}], q[x])

IsFold(f, v, q, S) == f = [s \in SUBSET S |-> FoldStep(f, v, q, s)]

LEMMA FoldUnfolds ==
    ASSUME NEW v, NEW q
    PROVE  After(v, q) = (CHOOSE f : IsFold(f, v, q, DOMAIN q))[DOMAIN q]
BY DEF After, FoldLeft, MapThenFoldSet, IsFold, FoldStep

LEMMA LastIsMax ==
    ASSUME NEW n \in Nat, NEW s \in SUBSET (1..(n + 1)), n + 1 \in s
    PROVE  Max(s) = n + 1
<1>1. \A y \in s : y \in Nat /\ n + 1 >= y
  OBVIOUS
<1>2. \A x \in s : (\A y \in s : x >= y) => x = n + 1
  BY <1>1
<1> QED
  BY <1>1, <1>2 DEF Max

LEMMA FoldExists ==
    ASSUME NEW v, NEW q, NEW n \in Nat
    PROVE  \E f : IsFold(f, v, q, 1..n)
<1> DEFINE S == {m \in Nat : \E f : IsFold(f, v, q, 1..m)}
<1>1. 0 \in S
  <2> DEFINE f == [s \in SUBSET (1..0) |-> v]
  <2>1. \A s \in SUBSET (1..0) : s = {}
    OBVIOUS
  <2>2. f = [s \in SUBSET (1..0) |-> FoldStep(f, v, q, s)]
    BY <2>1 DEF FoldStep
  <2> QED
    BY <2>2 DEF IsFold
<1>2. ASSUME NEW m \in Nat, m \in S PROVE m + 1 \in S
  <2>1. PICK f : IsFold(f, v, q, 1..m)
    BY <1>2
  <2> DEFINE g == [s \in SUBSET (1..(m + 1)) |->
                     IF m + 1 \in s THEN Effect(f[s \ {m + 1}], q[m + 1]) ELSE f[s]]
  <2>2. ASSUME NEW s \in SUBSET (1..(m + 1)), m + 1 \in s
        PROVE  g[s] = FoldStep(g, v, q, s)
    <3>1. s \ {m + 1} \in SUBSET (1..(m + 1)) /\ m + 1 \notin s \ {m + 1}
      OBVIOUS
    <3>2. g[s \ {m + 1}] = f[s \ {m + 1}]
      BY <3>1
    <3>3. Max(s) = m + 1
      BY <2>2, LastIsMax
    <3> QED
      BY <2>2, <3>2, <3>3 DEF FoldStep
  <2>3. ASSUME NEW s \in SUBSET (1..(m + 1)), m + 1 \notin s
        PROVE  g[s] = FoldStep(g, v, q, s)
    <3>1. s \in SUBSET (1..m)
      BY <2>3
    <3>2. f[s] = FoldStep(f, v, q, s)
      BY <2>1, <3>1 DEF IsFold
    <3>3. g[s] = f[s]
      BY <2>3
    <3>4. g[s \ {Max(s)}] = f[s \ {Max(s)}]
      <4>1. s \ {Max(s)} \in SUBSET (1..(m + 1)) /\ m + 1 \notin s \ {Max(s)}
        BY <2>3
      <4> QED
        BY <4>1
    <3> QED
      BY <3>2, <3>3, <3>4 DEF FoldStep
  <2>4. \A s \in SUBSET (1..(m + 1)) : g[s] = FoldStep(g, v, q, s)
    BY <2>2, <2>3
  <2>5. IsFold(g, v, q, 1..(m + 1))
    <3>1. g = [s \in SUBSET (1..(m + 1)) |-> g[s]]
      OBVIOUS
    <3> HIDE DEF g
    <3> QED
      BY <2>4, <3>1 DEF IsFold
  <2> QED
    BY <2>5
<1>3. Nat \subseteq S
  <2> HIDE DEF S
  <2> QED
    BY <1>1, <1>2, SetInduction
<1> QED
  BY <1>3

\* The fold ends where its run does.
LEMMA AfterRuns ==
    ASSUME NEW v, NEW T, NEW q \in Seq(T)
    PROVE  \E r : IsRun(r, v, q) /\ After(v, q) = r[Len(q)]
<1>1. Len(q) \in Nat /\ DOMAIN q = 1..Len(q)
  BY LenProperties
<1> DEFINE f == CHOOSE g : IsFold(g, v, q, 1..Len(q))
           r == [k \in 0..Len(q) |-> f[1..k]]
<1>2. IsFold(f, v, q, 1..Len(q))
  <2>1. \E g : IsFold(g, v, q, 1..Len(q))
    BY <1>1, FoldExists
  <2> QED
    BY <2>1
<1>3. After(v, q) = f[1..Len(q)]
  BY <1>1, FoldUnfolds
<1> HIDE DEF f
<1>4. r[0] = v
  <2>1. 1..0 = {} /\ 1..0 \in SUBSET (1..Len(q)) /\ 0 \in 0..Len(q)
    BY <1>1
  <2>2. f[1..0] = FoldStep(f, v, q, 1..0)
    BY <1>2, <2>1 DEF IsFold
  <2> QED
    BY <2>1, <2>2 DEF FoldStep
<1>5. ASSUME NEW k \in 1..Len(q) PROVE r[k] = Effect(r[k - 1], q[k])
  <2>1. /\ k - 1 \in Nat /\ (k - 1) + 1 = k /\ 1..k \in SUBSET (1..Len(q))
        /\ k \in 0..Len(q) /\ k - 1 \in 0..Len(q)
        /\ k \in 1..k /\ (1..k) \ {k} = 1..(k - 1) /\ 1..k # {}
    <3>1. k \in Nat /\ k >= 1 /\ k <= Len(q)
      BY <1>1
    <3>2. k - 1 \in Nat /\ (k - 1) + 1 = k /\ k \in 1..k
      BY <3>1
    <3>3. k \in 0..Len(q) /\ k - 1 \in 0..Len(q) /\ 1..k \in SUBSET (1..Len(q))
      BY <1>1, <3>1
    <3>4. (1..k) \ {k} = 1..(k - 1)
      BY <3>1
    <3> QED
      BY <3>2, <3>3, <3>4
  <2>2. Max(1..k) = k
    <3>1. Max(1..k) = (k - 1) + 1
      BY <2>1, LastIsMax
    <3> QED
      BY <2>1, <3>1
  <2>3. f[1..k] = FoldStep(f, v, q, 1..k)
    BY <1>2, <2>1 DEF IsFold
  <2>4. f[1..k] = Effect(f[1..(k - 1)], q[k])
    BY <2>1, <2>2, <2>3 DEF FoldStep
  <2> QED
    BY <2>1, <2>4
<1>6. r[Len(q)] = f[1..Len(q)]
  BY <1>1
<1> HIDE DEF r
<1> QED
  BY <1>3, <1>4, <1>5, <1>6 DEF IsRun

LEMMA RunsAgree ==
    ASSUME NEW v, NEW T, NEW q \in Seq(T), NEW r, NEW s,
           IsRun(r, v, q), IsRun(s, v, q), NEW n \in 0..Len(q)
    PROVE  r[n] = s[n]
<1>1. Len(q) \in Nat
  BY LenProperties
<1> DEFINE S == {m \in Nat : m <= Len(q) => r[m] = s[m]}
<1>2. 0 \in S
  BY DEF IsRun
<1>3. ASSUME NEW m \in Nat, m \in S PROVE m + 1 \in S
  <2> SUFFICES ASSUME m + 1 <= Len(q) PROVE r[m + 1] = s[m + 1]
    OBVIOUS
  <2>1. m + 1 \in 1..Len(q) /\ (m + 1) - 1 = m /\ m <= Len(q)
    BY <1>1
  <2>2. r[m + 1] = Effect(r[m], q[m + 1]) /\ s[m + 1] = Effect(s[m], q[m + 1])
    BY <2>1 DEF IsRun
  <2> QED
    BY <1>3, <2>1, <2>2
<1>4. Nat \subseteq S
  <2> HIDE DEF S
  <2> QED
    BY <1>2, <1>3, SetInduction
<1> QED
  BY <1>1, <1>4

LEMMA RunEndsAfter ==
    ASSUME NEW v, NEW T, NEW q \in Seq(T), NEW r, IsRun(r, v, q)
    PROVE  After(v, q) = r[Len(q)]
<1>1. PICK s : IsRun(s, v, q) /\ After(v, q) = s[Len(q)]
  BY AfterRuns
<1>2. Len(q) \in 0..Len(q)
  BY LenProperties
<1> QED
  BY <1>1, <1>2, RunsAgree

\* Nothing more to handle.
LEMMA AfterNothing ==
    ASSUME NEW v
    PROVE  After(v, <<>>) = v
<1>1. <<>> \in Seq({}) /\ Len(<<>>) = 0
  BY EmptySeq
<1>2. PICK r : IsRun(r, v, <<>>) /\ After(v, <<>>) = r[0]
  BY <1>1, AfterRuns
<1> QED
  BY <1>2 DEF IsRun

\* One message more, at the end.
LEMMA AfterAppend ==
    ASSUME NEW v, NEW T, NEW q \in Seq(T), NEW m \in T
    PROVE  After(v, Append(q, m)) = Effect(After(v, q), m)
<1>1. /\ Append(q, m) \in Seq(T) /\ Len(Append(q, m)) = Len(q) + 1
      /\ \A k \in 1..Len(q) : Append(q, m)[k] = q[k]
      /\ Append(q, m)[Len(q) + 1] = m
      /\ Len(q) \in Nat
  BY AppendProperties, LenProperties
<1>2. PICK r : IsRun(r, v, Append(q, m)) /\ After(v, Append(q, m)) = r[Len(q) + 1]
  BY <1>1, AfterRuns
<1>3. IsRun(r, v, q)
  BY <1>1, <1>2 DEF IsRun
<1>4. r[Len(q) + 1] = Effect(r[Len(q)], m)
  <2>1. Len(q) + 1 \in 1..(Len(q) + 1) /\ (Len(q) + 1) - 1 = Len(q)
    BY <1>1
  <2> QED
    BY <1>1, <1>2, <2>1 DEF IsRun
<1> QED
  BY <1>2, <1>3, <1>4, RunEndsAfter

\* The first message handled.
LEMMA AfterHead ==
    ASSUME NEW v, NEW T, NEW q \in Seq(T), q # <<>>
    PROVE  After(Effect(v, Head(q)), Tail(q)) = After(v, q)
<1>1. /\ Tail(q) \in Seq(T) /\ Len(Tail(q)) = Len(q) - 1
      /\ \A k \in 1..Len(Tail(q)) : Tail(q)[k] = q[k + 1]
      /\ Len(q) \in Nat /\ Len(q) # 0
      /\ Head(q) = q[1]
  BY HeadTailProperties, LenProperties, EmptySeq
<1>2. PICK r : IsRun(r, v, q) /\ After(v, q) = r[Len(q)]
  BY AfterRuns
<1> DEFINE s == [k \in 0..Len(Tail(q)) |-> r[k + 1]]
<1>3. s[0] = Effect(v, Head(q))
  <2>1. 1 \in 1..Len(q) /\ 1 - 1 = 0 /\ 0 \in 0..Len(Tail(q))
    BY <1>1
  <2>2. r[1] = Effect(r[0], q[1])
    BY <1>2, <2>1 DEF IsRun
  <2> QED
    BY <1>1, <1>2, <2>1, <2>2 DEF IsRun
<1>4. ASSUME NEW k \in 1..Len(Tail(q)) PROVE s[k] = Effect(s[k - 1], Tail(q)[k])
  <2>1. /\ k + 1 \in 1..Len(q) /\ (k + 1) - 1 = k /\ (k - 1) + 1 = k
        /\ k \in 0..Len(Tail(q)) /\ k - 1 \in 0..Len(Tail(q))
    BY <1>1
  <2>2. r[k + 1] = Effect(r[k], q[k + 1])
    BY <1>2, <2>1 DEF IsRun
  <2> QED
    BY <1>1, <2>1, <2>2
<1>5. s[Len(Tail(q))] = r[Len(q)]
  BY <1>1
<1> HIDE DEF s
<1>6. IsRun(s, Effect(v, Head(q)), Tail(q))
  BY <1>3, <1>4 DEF IsRun
<1> QED
  BY <1>1, <1>2, <1>5, <1>6, RunEndsAfter

-----------------------------------------------------------------------------
(* What is under way from a device: its datagrams, then its commands.      *)

Joined(s, t) == s \o t

\* j is s and then t.
IsJoined(j, s, t) ==
    /\ Len(j) = Len(s) + Len(t)
    /\ \A i \in 1..Len(s) : j[i] = s[i]
    /\ \A i \in 1..Len(t) : j[Len(s) + i] = t[i]

LEMMA JoinedParts ==
    ASSUME NEW T, NEW s \in Seq(T), NEW t \in Seq(T)
    PROVE  Joined(s, t) \in Seq(T) /\ IsJoined(Joined(s, t), s, t)
<1>1. Len(s) \in Nat /\ Len(t) \in Nat
  BY LenProperties
<1>2. /\ Joined(s, t) \in Seq(T) /\ Len(Joined(s, t)) = Len(s) + Len(t)
      /\ \A i \in 1..Len(s) + Len(t) :
            Joined(s, t)[i] = IF i <= Len(s) THEN s[i] ELSE t[i - Len(s)]
  BY ConcatProperties DEF Joined
<1>3. \A i \in 1..Len(s) : i \in 1..Len(s) + Len(t) /\ i <= Len(s)
  BY <1>1
<1>4. \A i \in 1..Len(t) : /\ Len(s) + i \in 1..Len(s) + Len(t) /\ ~(Len(s) + i <= Len(s))
                           /\ (Len(s) + i) - Len(s) = i
  BY <1>1
<1> QED
  BY <1>2, <1>3, <1>4 DEF IsJoined

LEMMA JoinedIs ==
    ASSUME NEW T, NEW s \in Seq(T), NEW t \in Seq(T), NEW w \in Seq(T), IsJoined(w, s, t)
    PROVE  w = Joined(s, t)
<1> DEFINE j == Joined(s, t)
<1>1. Len(s) \in Nat /\ Len(t) \in Nat
  BY LenProperties
<1>2. j \in Seq(T) /\ IsJoined(j, s, t)
  BY JoinedParts
<1> HIDE DEF j
<1>3. Len(w) = Len(s) + Len(t) /\ Len(j) = Len(w)
  BY <1>2 DEF IsJoined
<1>4. ASSUME NEW i \in 1..Len(w) PROVE w[i] = j[i]
  <2>1. CASE i <= Len(s)
    <3>1. i \in 1..Len(s)
      BY <1>1, <1>3, <2>1
    <3> QED
      BY <1>2, <3>1 DEF IsJoined
  <2>2. CASE ~(i <= Len(s))
    <3>1. i - Len(s) \in 1..Len(t) /\ Len(s) + (i - Len(s)) = i
      BY <1>1, <1>3, <2>2
    <3>2. w[Len(s) + (i - Len(s))] = j[Len(s) + (i - Len(s))]
      BY <1>2, <3>1 DEF IsJoined
    <3> QED
      BY <3>1, <3>2
  <2> QED
    BY <2>1, <2>2
<1>5. w = j
  BY <1>2, <1>3, <1>4, SeqEqual
<1> QED
  BY <1>5 DEF j

LEMMA JoinedAppend ==
    ASSUME NEW T, NEW s \in Seq(T), NEW t \in Seq(T), NEW m \in T
    PROVE  Joined(s, Append(t, m)) = Append(Joined(s, t), m)
<1> DEFINE a == Append(t, m)
           j == Joined(s, t)
           w == Append(j, m)
<1>1. Len(s) \in Nat /\ Len(t) \in Nat
  BY LenProperties
<1>2. /\ a \in Seq(T) /\ Len(a) = Len(t) + 1 /\ a[Len(t) + 1] = m
      /\ \A i \in 1..Len(t) : a[i] = t[i]
  BY AppendProperties
<1>3. j \in Seq(T) /\ IsJoined(j, s, t)
  BY JoinedParts
<1> HIDE DEF a, j
<1>4. /\ w \in Seq(T) /\ Len(w) = Len(j) + 1 /\ w[Len(j) + 1] = m
      /\ \A i \in 1..Len(j) : w[i] = j[i]
  BY <1>3, AppendProperties
<1> HIDE DEF w
<1>5. Len(j) = Len(s) + Len(t)
  BY <1>3 DEF IsJoined
<1>6. Len(w) = Len(s) + Len(a)
  BY <1>1, <1>2, <1>4, <1>5
<1>7. ASSUME NEW i \in 1..Len(s) PROVE w[i] = s[i]
  <2>1. i \in 1..Len(j)
    BY <1>1, <1>5
  <2> QED
    BY <1>3, <1>4, <2>1 DEF IsJoined
<1>8. ASSUME NEW i \in 1..Len(a) PROVE w[Len(s) + i] = a[i]
  <2>1. CASE i = Len(t) + 1
    <3>1. Len(s) + i = Len(j) + 1
      BY <1>1, <1>5, <2>1
    <3> QED
      BY <1>2, <1>4, <2>1, <3>1
  <2>2. CASE i # Len(t) + 1
    <3>1. i \in 1..Len(t) /\ Len(s) + i \in 1..Len(j)
      BY <1>1, <1>2, <1>5, <2>2
    <3>2. w[Len(s) + i] = j[Len(s) + i] /\ a[i] = t[i]
      BY <1>2, <1>4, <3>1
    <3>3. j[Len(s) + i] = t[i]
      BY <1>3, <3>1 DEF IsJoined
    <3> QED
      BY <3>2, <3>3
  <2> QED
    BY <2>1, <2>2
<1>9. w = Joined(s, a)
  <2>1. IsJoined(w, s, a)
    BY <1>6, <1>7, <1>8 DEF IsJoined
  <2> QED
    BY <1>2, <1>4, <2>1, JoinedIs
<1> QED
  BY <1>9 DEF w, j, a

\* A command on its way is under way as before.
LEMMA JoinedMoved ==
    ASSUME NEW T, NEW s \in Seq(T), NEW t \in Seq(T), t # <<>>
    PROVE  Joined(Append(s, Head(t)), Tail(t)) = Joined(s, t)
<1> DEFINE r == Tail(t)
           a == Append(s, Head(t))
           w == Joined(a, r)
<1>1. /\ Len(s) \in Nat /\ Len(t) \in Nat /\ Len(t) # 0
      /\ Head(t) \in T /\ Head(t) = t[1]
      /\ r \in Seq(T) /\ Len(r) = Len(t) - 1
      /\ \A i \in 1..Len(r) : r[i] = t[i + 1]
  BY HeadTailProperties, LenProperties, EmptySeq
<1> HIDE DEF r
<1>2. /\ a \in Seq(T) /\ Len(a) = Len(s) + 1 /\ a[Len(s) + 1] = Head(t)
      /\ \A i \in 1..Len(s) : a[i] = s[i]
  BY <1>1, AppendProperties
<1> HIDE DEF a
<1>3. w \in Seq(T) /\ IsJoined(w, a, r)
  BY <1>1, <1>2, JoinedParts
<1> HIDE DEF w
<1>4. Len(w) = Len(a) + Len(r)
  BY <1>3 DEF IsJoined
<1>5. Len(w) = Len(s) + Len(t)
  BY <1>1, <1>2, <1>4
<1>6. ASSUME NEW i \in 1..Len(s) PROVE w[i] = s[i]
  <2>1. i \in 1..Len(a)
    BY <1>1, <1>2
  <2> QED
    BY <1>2, <1>3, <2>1 DEF IsJoined
<1>7. ASSUME NEW i \in 1..Len(t) PROVE w[Len(s) + i] = t[i]
  <2>1. CASE i = 1
    <3>1. Len(s) + 1 \in 1..Len(a)
      BY <1>1, <1>2
    <3>2. w[Len(s) + 1] = a[Len(s) + 1]
      BY <1>3, <3>1 DEF IsJoined
    <3> QED
      BY <1>1, <1>2, <2>1, <3>2
  <2>2. CASE i # 1
    <3>1. /\ i - 1 \in 1..Len(r) /\ (i - 1) + 1 = i
          /\ Len(a) + (i - 1) = Len(s) + i
      BY <1>1, <1>2, <2>2
    <3>2. w[Len(a) + (i - 1)] = r[i - 1]
      BY <1>3, <3>1 DEF IsJoined
    <3>3. r[i - 1] = t[(i - 1) + 1]
      BY <1>1, <3>1
    <3> QED
      BY <3>1, <3>2, <3>3
  <2> QED
    BY <2>1, <2>2
<1>8. w = Joined(s, t)
  <2>1. IsJoined(w, s, t)
    BY <1>5, <1>6, <1>7 DEF IsJoined
  <2> QED
    BY <1>3, <2>1, JoinedIs
<1> QED
  BY <1>8 DEF w, a, r

\* The first datagram arrives.
LEMMA JoinedTail ==
    ASSUME NEW T, NEW s \in Seq(T), NEW t \in Seq(T), s # <<>>
    PROVE  /\ Joined(s, t) \in Seq(T) /\ Joined(s, t) # <<>>
           /\ Head(Joined(s, t)) = Head(s)
           /\ Tail(Joined(s, t)) = Joined(Tail(s), t)
<1> DEFINE r == Tail(s)
           j == Joined(s, t)
           w == Tail(j)
<1>1. /\ Len(s) \in Nat /\ Len(t) \in Nat /\ Len(s) # 0
      /\ Head(s) = s[1]
      /\ r \in Seq(T) /\ Len(r) = Len(s) - 1
      /\ \A i \in 1..Len(r) : r[i] = s[i + 1]
  BY HeadTailProperties, LenProperties, EmptySeq
<1>2. j \in Seq(T) /\ IsJoined(j, s, t)
  BY JoinedParts
<1> HIDE DEF r, j
<1>3. Len(j) = Len(s) + Len(t)
  BY <1>2 DEF IsJoined
<1>4. j # <<>>
  BY <1>1, <1>3, EmptySeq
<1>5. /\ Head(j) = j[1]
      /\ w \in Seq(T) /\ Len(w) = Len(j) - 1
      /\ \A i \in 1..Len(w) : w[i] = j[i + 1]
  BY <1>2, <1>4, HeadTailProperties
<1> HIDE DEF w
<1>6. Len(w) = Len(r) + Len(t)
  BY <1>1, <1>3, <1>5
<1>7. ASSUME NEW i \in 1..Len(r) PROVE w[i] = r[i]
  <2>1. i \in 1..Len(w) /\ i + 1 \in 1..Len(s)
    BY <1>1, <1>6
  <2>2. j[i + 1] = s[i + 1]
    BY <1>2, <2>1 DEF IsJoined
  <2> QED
    BY <1>1, <1>5, <2>1, <2>2
<1>8. ASSUME NEW i \in 1..Len(t) PROVE w[Len(r) + i] = t[i]
  <2>1. Len(r) + i \in 1..Len(w) /\ (Len(r) + i) + 1 = Len(s) + i
    BY <1>1, <1>6
  <2>2. j[Len(s) + i] = t[i]
    BY <1>2 DEF IsJoined
  <2>3. w[Len(r) + i] = j[(Len(r) + i) + 1]
    BY <1>5, <2>1
  <2> QED
    BY <2>1, <2>2, <2>3
<1>9. w = Joined(r, t)
  <2>1. IsJoined(w, r, t)
    BY <1>6, <1>7, <1>8 DEF IsJoined
  <2> QED
    BY <1>1, <1>5, <2>1, JoinedIs
<1>10. Head(j) = Head(s)
  <2>1. 1 \in 1..Len(s)
    BY <1>1
  <2>2. j[1] = s[1]
    BY <1>2, <2>1 DEF IsJoined
  <2> QED
    BY <1>1, <1>5, <2>2
<1> QED
  BY <1>2, <1>4, <1>9, <1>10 DEF w, j, r

Packets(d, q) == [i \in DOMAIN q |-> Packet(d, q[i])]

LEMMA PacketsType ==
    ASSUME NEW d \in Device, NEW q \in Seq(AviCommand)
    PROVE  /\ Packets(d, q) \in Seq(UplinkMessage)
           /\ Len(Packets(d, q)) = Len(q)
           /\ \A i \in 1..Len(q) : Packets(d, q)[i] = Packet(d, q[i])
<1>1. Len(q) \in Nat /\ DOMAIN q = 1..Len(q)
  BY LenProperties
<1>2. \A i \in 1..Len(q) : Packet(d, q[i]) \in UplinkMessage
  BY <1>1, LenProperties, PacketType
<1>3. Packets(d, q) = [i \in 1..Len(q) |-> Packet(d, q[i])]
  BY <1>1 DEF Packets
<1>4. Packets(d, q) \in [1..Len(q) -> UplinkMessage]
  BY <1>2, <1>3
<1>5. Packets(d, q) \in Seq(UplinkMessage)
  BY <1>1, <1>4
<1>6. Len(Packets(d, q)) = Len(q)
  BY <1>1, <1>4, <1>5
<1> QED
  BY <1>3, <1>5, <1>6

LEMMA PacketsAppend ==
    ASSUME NEW d \in Device, NEW q \in Seq(AviCommand), NEW c \in AviCommand
    PROVE  Packets(d, Append(q, c)) = Append(Packets(d, q), Packet(d, c))
<1> DEFINE a == Append(q, c)
           p == Packets(d, a)
           r == Packets(d, q)
           w == Append(r, Packet(d, c))
<1>1. /\ Len(q) \in Nat /\ a \in Seq(AviCommand) /\ Len(a) = Len(q) + 1
      /\ a[Len(q) + 1] = c
      /\ \A i \in 1..Len(q) : a[i] = q[i]
  BY LenProperties, AppendProperties
<1> HIDE DEF a
<1>2. /\ p \in Seq(UplinkMessage) /\ Len(p) = Len(a)
      /\ \A i \in 1..Len(a) : p[i] = Packet(d, a[i])
  BY <1>1, PacketsType
<1>3. /\ r \in Seq(UplinkMessage) /\ Len(r) = Len(q)
      /\ \A i \in 1..Len(q) : r[i] = Packet(d, q[i])
  BY PacketsType
<1> HIDE DEF p, r
<1>4. /\ w \in Seq(UplinkMessage) /\ Len(w) = Len(r) + 1
      /\ w[Len(r) + 1] = Packet(d, c)
      /\ \A i \in 1..Len(r) : w[i] = r[i]
  <2>1. Packet(d, c) \in UplinkMessage
    BY PacketType
  <2> QED
    BY <1>3, <2>1, AppendProperties
<1> HIDE DEF w
<1>5. ASSUME NEW i \in 1..Len(p) PROVE p[i] = w[i]
  <2>1. CASE i = Len(q) + 1
    BY <1>1, <1>2, <1>3, <1>4, <2>1
  <2>2. CASE i # Len(q) + 1
    <3>1. i \in 1..Len(q)
      BY <1>1, <1>2, <2>2
    <3> QED
      BY <1>1, <1>2, <1>3, <1>4, <3>1
  <2> QED
    BY <2>1, <2>2
<1>6. Len(p) = Len(w)
  BY <1>1, <1>2, <1>3, <1>4
<1>7. p = w
  BY <1>2, <1>4, <1>5, <1>6, SeqEqual
<1> QED
  BY <1>7 DEF p, w, r, a

LEMMA PacketsTail ==
    ASSUME NEW d \in Device, NEW q \in Seq(AviCommand), q # <<>>
    PROVE  /\ Packets(d, q) # <<>> /\ Head(Packets(d, q)) = Packet(d, Head(q))
           /\ Tail(Packets(d, q)) = Packets(d, Tail(q))
<1> DEFINE r == Tail(q)
           p == Packets(d, q)
           s == Packets(d, r)
           w == Tail(p)
<1>1. /\ Len(q) \in Nat /\ Len(q) # 0 /\ Head(q) = q[1]
      /\ r \in Seq(AviCommand) /\ Len(r) = Len(q) - 1
      /\ \A i \in 1..Len(r) : r[i] = q[i + 1]
  BY HeadTailProperties, LenProperties, EmptySeq
<1> HIDE DEF r
<1>2. /\ p \in Seq(UplinkMessage) /\ Len(p) = Len(q)
      /\ \A i \in 1..Len(q) : p[i] = Packet(d, q[i])
  BY PacketsType
<1>3. /\ s \in Seq(UplinkMessage) /\ Len(s) = Len(r)
      /\ \A i \in 1..Len(r) : s[i] = Packet(d, r[i])
  BY <1>1, PacketsType
<1> HIDE DEF p, s
<1>4. p # <<>>
  BY <1>1, <1>2, EmptySeq
<1>5. /\ Head(p) = p[1]
      /\ w \in Seq(UplinkMessage) /\ Len(w) = Len(p) - 1
      /\ \A i \in 1..Len(w) : w[i] = p[i + 1]
  BY <1>2, <1>4, HeadTailProperties
<1> HIDE DEF w
<1>6. ASSUME NEW i \in 1..Len(w) PROVE w[i] = s[i]
  <2>1. i \in 1..Len(r) /\ i + 1 \in 1..Len(q)
    BY <1>1, <1>2, <1>5
  <2> QED
    BY <1>1, <1>2, <1>3, <1>5, <2>1
<1>7. Len(w) = Len(s)
  BY <1>1, <1>2, <1>3, <1>5
<1>8. w = s
  BY <1>3, <1>5, <1>6, <1>7, SeqEqual
<1>9. Head(p) = Packet(d, Head(q))
  <2>1. 1 \in 1..Len(q)
    BY <1>1
  <2> QED
    BY <1>1, <1>2, <1>5, <2>1
<1> QED
  BY <1>4, <1>8, <1>9 DEF w, s, p, r

QueuesType ==
    /\ up \in [Device -> Seq(UplinkMessage)]
    /\ command_queue \in [Device -> Seq(AviCommand)]

LEMMA OutstandingIs ==
    ASSUME NEW d
    PROVE  /\ Outstanding(d) = Joined(up[d], Packets(d, command_queue[d]))
           /\ View(d) = After(SessionView(d), Outstanding(d))
BY DEF Outstanding, Joined, Packets, View, After

LEMMA OutstandingType ==
    ASSUME QueuesType, NEW d \in Device
    PROVE  Outstanding(d) \in Seq(UplinkMessage)
<1>1. up[d] \in Seq(UplinkMessage) /\ command_queue[d] \in Seq(AviCommand)
  BY DEF QueuesType
<1> QED
  BY <1>1, PacketsType, JoinedParts, OutstandingIs

\* A call the library accepts is the last thing outstanding.
LEMMA Queued ==
    ASSUME QueuesType, NEW d \in Device, NEW c \in AviCommand,
           command_queue'[d] = Append(command_queue[d], c), up'[d] = up[d]
    PROVE  Outstanding(d)' = Append(Outstanding(d), Packet(d, c))
<1>1. up[d] \in Seq(UplinkMessage) /\ command_queue[d] \in Seq(AviCommand)
  BY DEF QueuesType
<1>2. Packets(d, command_queue[d]) \in Seq(UplinkMessage) /\ Packet(d, c) \in UplinkMessage
  BY <1>1, PacketsType, PacketType
<1>3. Packets(d, command_queue'[d]) = Append(Packets(d, command_queue[d]), Packet(d, c))
  BY <1>1, PacketsAppend
<1>4. Outstanding(d)' = Joined(up'[d], Packets(d, command_queue'[d]))
  BY OutstandingIs DEF Outstanding, Joined, Packets, Packet
<1> QED
  BY <1>1, <1>2, <1>3, <1>4, JoinedAppend, OutstandingIs

\* Sending a command changes nothing of what is outstanding.
LEMMA Sent ==
    ASSUME QueuesType, NEW d \in Device, command_queue[d] # <<>>,
           command_queue'[d] = Tail(command_queue[d]),
           up'[d] = Append(up[d], Packet(d, Head(command_queue[d])))
    PROVE  Outstanding(d)' = Outstanding(d)
<1>1. up[d] \in Seq(UplinkMessage) /\ command_queue[d] \in Seq(AviCommand)
  BY DEF QueuesType
<1> DEFINE p == Packets(d, command_queue[d])
<1>2. /\ p \in Seq(UplinkMessage) /\ p # <<>>
      /\ Head(p) = Packet(d, Head(command_queue[d]))
      /\ Tail(p) = Packets(d, Tail(command_queue[d]))
  BY <1>1, PacketsType, PacketsTail
<1> HIDE DEF p
<1>3. Outstanding(d)' = Joined(up'[d], Packets(d, command_queue'[d]))
  BY DEF Outstanding, Joined, Packets, Packet
<1>4. Joined(Append(up[d], Head(p)), Tail(p)) = Joined(up[d], p)
  BY <1>1, <1>2, JoinedMoved
<1> QED
  BY <1>2, <1>3, <1>4, OutstandingIs DEF p

\* What the uplink task takes is the first thing outstanding.
LEMMA Handled ==
    ASSUME QueuesType, NEW d \in Device, up[d] # <<>>,
           up'[d] = Tail(up[d]), command_queue'[d] = command_queue[d]
    PROVE  /\ Outstanding(d) # <<>> /\ Head(Outstanding(d)) = Head(up[d])
           /\ Outstanding(d)' = Tail(Outstanding(d))
<1>1. up[d] \in Seq(UplinkMessage) /\ command_queue[d] \in Seq(AviCommand)
  BY DEF QueuesType
<1> DEFINE p == Packets(d, command_queue[d])
<1>2. p \in Seq(UplinkMessage)
  BY <1>1, PacketsType
<1>3. Outstanding(d) = Joined(up[d], p)
  BY OutstandingIs
<1>4. Outstanding(d)' = Joined(Tail(up[d]), p)
  BY DEF Outstanding, Joined, Packets, Packet
<1> HIDE DEF p
<1> QED
  BY <1>1, <1>2, <1>3, <1>4, JoinedTail

LEMMA Untouched ==
    ASSUME NEW d, up'[d] = up[d], command_queue'[d] = command_queue[d]
    PROVE  Outstanding(d)' = Outstanding(d)
BY DEF Outstanding, Packet

LEMMA SameView ==
    ASSUME NEW d, SessionView(d)' = SessionView(d), Outstanding(d)' = Outstanding(d)
    PROVE  View(d)' = View(d)
<1>1. View(d)' = After(SessionView(d)', Outstanding(d)')
  BY DEF View, After
<1> QED
  BY <1>1, OutstandingIs

LEMMA NothingOutstanding ==
    ASSUME NEW d, up[d] = <<>>, command_queue[d] = <<>>
    PROVE  Outstanding(d) = <<>>
<1>1. [i \in DOMAIN command_queue[d] |-> Packet(d, command_queue[d][i])] = <<>>
  OBVIOUS
<1>2. <<>> \o <<>> = <<>>
  BY ConcatEmptySeq, EmptySeq
<1> QED
  BY <1>1, <1>2 DEF Outstanding

-----------------------------------------------------------------------------
(* The session of a device, before and after a step.                       *)

LEMMA ViewKept ==
    ASSUME BridgeTypeOK, HeldStreamsAreOwn, NEW e \in Device,
           sessions'[e] = sessions[e], forwarded'[e] = forwarded[e],
           \A id \in DOMAIN opened : opened'[id] = opened[id]
    PROVE  SessionView(e)' = SessionView(e)
<1>1. CASE sessions[e] = NoSession
  BY <1>1 DEF SessionView, Unknown
<1>2. CASE sessions[e] # NoSession
  <2>1. ASSUME NEW i \in LocalId
        PROVE  TargetOf(sessions[e].active_streams[i])' = TargetOf(sessions[e].active_streams[i])
    BY <1>2 DEF TargetOf, HeldStreamsAreOwn
  <2>2. [i \in LocalId |-> TargetOf(sessions[e].active_streams[i])']
           = [i \in LocalId |-> TargetOf(sessions[e].active_streams[i])]
    BY <2>1
  <2>3. SessionView(e)' =
           [known |-> TRUE, subscriptions |-> sessions'[e].subscriptions,
            streams |-> [i \in LocalId |-> TargetOf(sessions[e].active_streams[i])'],
            forwarded |-> forwarded'[e]]
    BY <1>2 DEF SessionView
  <2>4. SessionView(e) =
           [known |-> TRUE, subscriptions |-> sessions[e].subscriptions,
            streams |-> [i \in LocalId |-> TargetOf(sessions[e].active_streams[i])],
            forwarded |-> forwarded[e]]
    BY <1>2 DEF SessionView
  <2> QED
    BY <2>2, <2>3, <2>4
<1> QED
  BY <1>1, <1>2

LEMMA ViewsKept ==
    ASSUME UNCHANGED <<sessions, opened, forwarded>>, NEW e
    PROVE  SessionView(e)' = SessionView(e)
BY DEF SessionView, TargetOf

\* A known session, taken apart.
Seen(subscriptions, streams, f) ==
    [known |-> TRUE, subscriptions |-> subscriptions, streams |-> streams, forwarded |-> f]

Targets(d) == [i \in LocalId |-> TargetOf(sessions[d].active_streams[i])]

LEMMA ViewOfSession ==
    ASSUME NEW d, sessions[d] # NoSession
    PROVE  SessionView(d) = Seen(sessions[d].subscriptions, Targets(d), forwarded[d])
BY DEF SessionView, Seen, Targets

LEMMA ViewOfNewSession ==
    ASSUME NEW d, sessions'[d] # NoSession
    PROVE  SessionView(d)' = Seen(sessions'[d].subscriptions, Targets(d)', forwarded'[d])
BY DEF SessionView, Seen, Targets

\* What each message makes of a known session.
LEMMA SubscribeEffect ==
    ASSUME NEW u, NEW t, NEW f, NEW m, m.type = "Subscribe"
    PROVE  Effect(Seen(u, t, f), m) = Seen(u \cup {m.topic}, t, f)
BY DEF Effect, Seen

LEMMA UnsubscribeEffect ==
    ASSUME NEW u, NEW t, NEW f, NEW m, m.type = "Unsubscribe"
    PROVE  Effect(Seen(u, t, f), m) = Seen(u \ {m.topic}, t, f)
BY DEF Effect, Seen

LEMMA UntargetedEffect ==
    ASSUME NEW u, NEW t, NEW f, NEW m, m.type = "StreamStart", m.target = NoPeer
    PROVE  Effect(Seen(u, t, f), m) = Seen(u, t, f)
BY DEF Effect, Seen

LEMMA StreamStartEffect ==
    ASSUME NEW u, NEW t, NEW f, NEW m, m.type = "StreamStart", m.target # NoPeer
    PROVE  Effect(Seen(u, t, f), m) = Seen(u, [t EXCEPT ![m.local_stream_id] = m.target], f)
BY DEF Effect, Seen

LEMMA StreamCloseEffect ==
    ASSUME NEW u, NEW t, NEW f, NEW m, m.type = "StreamClose"
    PROVE  Effect(Seen(u, t, f), m) = Seen(u, [t EXCEPT ![m.local_stream_id] = NoPeer], f)
BY DEF Effect, Seen

LEMMA UnstreamedEffect ==
    ASSUME NEW u, NEW t, NEW f, NEW m, m.type = "StreamData", t[m.local_stream_id] = NoPeer
    PROVE  Effect(Seen(u, t, f), m) = Seen(u, t, f)
BY DEF Effect, Seen

LEMMA StreamDataEffect ==
    ASSUME NEW u, NEW t, NEW f, NEW m, NEW target,
           m.type = "StreamData", t[m.local_stream_id] = target, target # NoPeer
    PROVE  Effect(Seen(u, t, f), m)
              = Seen(u, t, Append(f, [type |-> "StreamData", target |-> target]))
BY DEF Effect, Seen

LEMMA ForwardEffect ==
    ASSUME NEW u, NEW t, NEW f, NEW m, m.type \in {"Publish", "ButtonPress", "SensorUpdate"}
    PROVE  Effect(Seen(u, t, f), m) = Seen(u, t, Append(f, m))
BY DEF Effect, Seen

LEMMA HelloView ==
    ASSUME BridgeTypeOK, WireTypeOK, NEW d \in Device, Hello(d)
    PROVE  SessionView(d)' = Effect(SessionView(d), Head(up[d]))
<1> DEFINE m == Head(up[d])
<1>1. m.type = "Hello"
  BY DEF Hello, ReceiveUp
<1>2. Effect(SessionView(d), m) = Seen({}, [i \in LocalId |-> NoPeer], forwarded[d])
  <2>1. SessionView(d).forwarded = forwarded[d]
    BY DEF SessionView, Unknown
  <2> QED
    BY <1>1, <2>1 DEF Effect, Seen, Unknown
<1>3. sessions'[d] = [device_id |-> m.device_id, active_streams |-> NoStreams,
                      subscriptions |-> {}]
  BY DEF Hello, BridgeTypeOK
<1>4. sessions'[d] # NoSession
  <2>1. m.device_id \in Device
    BY ReceiveUpType, UplinkFields DEF Hello, WireTypeOK
  <2>2. sessions'[d] \in DeviceSession
    BY <1>3, <2>1 DEF DeviceSession, NoStreams, NoStream
  <2> QED
    BY <2>2, NoSessionAssumption
<1> HIDE DEF m
<1>5. \A i \in LocalId : TargetOf(sessions[d].active_streams[i])' = NoPeer
  BY <1>3 DEF TargetOf, NoStreams
<1>6. Targets(d)' = [i \in LocalId |-> NoPeer]
  BY <1>5 DEF Targets
<1>7. forwarded'[d] = forwarded[d] /\ sessions'[d].subscriptions = {}
  BY <1>3 DEF Hello
<1>8. SessionView(d)' = Seen({}, [i \in LocalId |-> NoPeer], forwarded[d])
  BY <1>4, <1>6, <1>7, ViewOfNewSession
<1> QED
  BY <1>2, <1>8 DEF m

LEMMA UnknownDeviceView ==
    ASSUME NEW d \in Device, UnknownDevice(d)
    PROVE  SessionView(d)' = Effect(SessionView(d), Head(up[d]))
<1>1. SessionView(d)' = SessionView(d)
  BY ViewsKept DEF UnknownDevice, bridge, node
<1>2. ~SessionView(d).known
  BY DEF UnknownDevice, SessionView, Unknown
<1> QED
  BY <1>1, <1>2 DEF UnknownDevice, Effect

\* A handler that leaves the streams of the session as they are.
LEMMA TargetsKept ==
    ASSUME NEW d, opened' = opened,
           sessions'[d].active_streams = sessions[d].active_streams
    PROVE  Targets(d)' = Targets(d)
BY DEF Targets, TargetOf

LEMMA SubscribeView ==
    ASSUME WireTypeOK, BridgeTypeOK, NEW d \in Device, node_running,
           HandleSubscribe(d) \/ HandleUnsubscribe(d)
    PROVE  SessionView(d)' = Effect(SessionView(d), Head(up[d]))
<1> DEFINE m == Head(up[d])
           s == sessions[d]
<1>1. s # NoSession /\ s \in DeviceSession
  BY FromSessionFacts DEF HandleSubscribe, HandleUnsubscribe, FromSession, BridgeTypeOK, SessionsType
<1>2. opened' = opened /\ forwarded' = forwarded
  BY DEF HandleSubscribe, HandleUnsubscribe
<1>3. sessions'[d] # NoSession
  BY HandleSubscribeTypeOK, HandleUnsubscribeTypeOK, NoSessionAssumption
<1>4. SessionView(d) = Seen(s.subscriptions, Targets(d), forwarded[d])
  BY <1>1, ViewOfSession
<1>5. \/ /\ m.type = "Subscribe"
         /\ sessions'[d] = [s EXCEPT !.subscriptions = @ \cup {m.topic}]
      \/ /\ m.type = "Unsubscribe"
         /\ sessions'[d] = [s EXCEPT !.subscriptions = @ \ {m.topic}]
  BY DEF HandleSubscribe, HandleUnsubscribe, FromSession, ReceiveUp, BridgeTypeOK
<1> HIDE DEF m
<1>6. sessions'[d].active_streams = s.active_streams
  BY <1>1, <1>5 DEF DeviceSession
<1>7. Targets(d)' = Targets(d)
  BY <1>2, <1>6, TargetsKept
<1>8. SessionView(d)' = Seen(sessions'[d].subscriptions, Targets(d), forwarded[d])
  BY <1>2, <1>3, <1>7, ViewOfNewSession
<1>9. CASE /\ m.type = "Subscribe"
           /\ sessions'[d] = [s EXCEPT !.subscriptions = @ \cup {m.topic}]
  <2>1. sessions'[d].subscriptions = s.subscriptions \cup {m.topic}
    BY <1>1, <1>9 DEF DeviceSession
  <2> HIDE DEF s
  <2> QED
    BY <1>4, <1>8, <1>9, <2>1, SubscribeEffect DEF m
<1>10. CASE /\ m.type = "Unsubscribe"
            /\ sessions'[d] = [s EXCEPT !.subscriptions = @ \ {m.topic}]
  <2>1. sessions'[d].subscriptions = s.subscriptions \ {m.topic}
    BY <1>1, <1>10 DEF DeviceSession
  <2> HIDE DEF s
  <2> QED
    BY <1>4, <1>8, <1>10, <2>1, UnsubscribeEffect DEF m
<1> QED
  BY <1>5, <1>9, <1>10

\* What is handed on, whatever it is.
LEMMA ForwardView ==
    ASSUME BridgeTypeOK, NEW d \in Device, node_running, NEW p, Forward(d, p),
           sessions[d] # NoSession
    PROVE  SessionView(d)' = Seen(sessions[d].subscriptions, Targets(d), Append(forwarded[d], p))
<1>1. UNCHANGED <<sessions, opened>> /\ forwarded'[d] = Append(forwarded[d], p)
  BY DEF Forward, node, BridgeTypeOK
<1>2. Targets(d)' = Targets(d)
  BY <1>1, TargetsKept
<1> QED
  BY <1>1, <1>2, ViewOfNewSession

LEMMA ForwardingView ==
    ASSUME BridgeTypeOK, NEW d \in Device, node_running,
           HandlePublish(d) \/ HandleButtonPress(d) \/ HandleSensorUpdate(d)
    PROVE  SessionView(d)' = Effect(SessionView(d), Head(up[d]))
<1> DEFINE m == Head(up[d])
<1>1. /\ sessions[d] # NoSession /\ Forward(d, m)
      /\ m.type \in {"Publish", "ButtonPress", "SensorUpdate"}
  BY DEF HandlePublish, HandleButtonPress, HandleSensorUpdate, FromSession, ReceiveUp
<1> HIDE DEF m
<1>2. SessionView(d) = Seen(sessions[d].subscriptions, Targets(d), forwarded[d])
  BY <1>1, ViewOfSession
<1> QED
  BY <1>1, <1>2, ForwardEffect, ForwardView DEF m

\* A StreamStart with a target opens a stream and puts it into the slot of
\* its local id.
LEMMA StreamStarted ==
    ASSUME WireTypeOK, BridgeTypeOK, NEW d \in Device, HandleStreamStart(d), node_running,
           Head(up[d]).target # NoPeer
    PROVE  LET m == Head(up[d])
               new == Len(opened) + 1
           IN  /\ m.local_stream_id \in LocalId /\ m.target \in Peer
               /\ opened' = Append(opened, [device |-> d, local_stream_id |-> m.local_stream_id,
                                            target |-> m.target])
               /\ new \in Nat \ {NoStream} /\ new \notin DOMAIN opened /\ new \in DOMAIN opened'
               /\ \A id \in DOMAIN opened : id \in DOMAIN opened' /\ opened'[id] = opened[id]
               /\ opened'[new].device = d /\ opened'[new].target = m.target
               /\ opened'[new].local_stream_id = m.local_stream_id
               /\ open' = open \cup {new}
               /\ sessions[d] # NoSession /\ sessions'[d] # NoSession
               /\ sessions[d].active_streams \in [LocalId -> Nat]
               /\ sessions'[d].subscriptions = sessions[d].subscriptions
               /\ sessions'[d].active_streams =
                     [sessions[d].active_streams EXCEPT ![m.local_stream_id] = new]
               /\ \A e \in Device \ {d} : sessions'[e] = sessions[e]
<1> DEFINE m == Head(up[d])
           k == m.local_stream_id
           s == [device |-> d, local_stream_id |-> k, target |-> m.target]
           new == Len(opened) + 1
<1>1. /\ k \in LocalId /\ m.target \in Peer
      /\ sessions[d] \in DeviceSession /\ sessions[d].active_streams \in [LocalId -> Nat]
      /\ sessions[d] # NoSession
  BY FromSessionFacts, UplinkFields
     DEF HandleStreamStart, FromSession, BridgeTypeOK, SessionsType
<1>2. /\ opened \in Seq(MeshStream) /\ opened' = Append(opened, s) /\ open' = open \cup {new}
      /\ sessions' = [sessions EXCEPT ![d] =
                        [sessions[d] EXCEPT !.active_streams = [@ EXCEPT ![k] = new]]]
  BY DEF HandleStreamStart, BridgeTypeOK
<1> HIDE DEF m, k
<1>3. s \in MeshStream
  BY <1>1 DEF MeshStream
<1>4. /\ Len(opened) \in Nat /\ DOMAIN opened = 1..Len(opened)
      /\ opened' \in Seq(MeshStream) /\ Len(opened') = new /\ DOMAIN opened' = 1..Len(opened')
      /\ \A id \in 1..Len(opened) : opened'[id] = opened[id]
      /\ opened'[new] = s
  <2>1. opened' \in Seq(MeshStream) /\ Len(opened') = new
    BY <1>2, <1>3, AppendProperties
  <2>2. /\ \A id \in 1..Len(opened) : opened'[id] = opened[id]
        /\ opened'[new] = s
    BY <1>2, <1>3, AppendProperties
  <2>3. DOMAIN opened' = 1..Len(opened')
    BY <2>1, LenProperties
  <2> QED
    BY <1>2, <2>1, <2>2, <2>3, LenProperties
<1>5. /\ new \in Nat \ {NoStream} /\ new \notin DOMAIN opened /\ new \in DOMAIN opened'
      /\ \A id \in DOMAIN opened : id \in DOMAIN opened' /\ opened'[id] = opened[id]
  BY <1>4 DEF NoStream
<1>6. /\ opened'[new].device = d /\ opened'[new].target = m.target
      /\ opened'[new].local_stream_id = k
  BY <1>4
<1> HIDE DEF s, new
<1>7. sessions'[d] = [sessions[d] EXCEPT !.active_streams = [@ EXCEPT ![k] = new]]
  BY <1>2 DEF BridgeTypeOK
<1>8. [sessions[d].active_streams EXCEPT ![k] = new] \in [LocalId -> Nat]
  BY <1>1, <1>5
<1>9. sessions'[d] \in DeviceSession
  BY <1>1, <1>7, <1>8 DEF DeviceSession
<1>10. /\ sessions'[d].subscriptions = sessions[d].subscriptions
       /\ sessions'[d].active_streams = [sessions[d].active_streams EXCEPT ![k] = new]
  BY <1>1, <1>7 DEF DeviceSession
<1>11. sessions'[d] # NoSession
  BY <1>9, NoSessionAssumption
<1>12. \A e \in Device \ {d} : sessions'[e] = sessions[e]
  BY <1>2 DEF BridgeTypeOK
<1> QED
  BY <1>1, <1>2, <1>5, <1>6, <1>10, <1>11, <1>12 DEF s, new, k, m

LEMMA StreamStartView ==
    ASSUME WireTypeOK, BridgeTypeOK, HeldStreamsAreOwn, NEW d \in Device, node_running,
           HandleStreamStart(d)
    PROVE  SessionView(d)' = Effect(SessionView(d), Head(up[d]))
<1> DEFINE m == Head(up[d])
           k == m.local_stream_id
           new == Len(opened) + 1
<1>1. /\ sessions[d] # NoSession /\ m.type = "StreamStart"
      /\ forwarded' = forwarded
  BY DEF HandleStreamStart, FromSession, ReceiveUp
<1>2. SessionView(d) = Seen(sessions[d].subscriptions, Targets(d), forwarded[d])
  BY <1>1, ViewOfSession
<1>3. CASE m.target = NoPeer
  <2>1. UNCHANGED <<sessions, opened>>
    BY <1>3 DEF HandleStreamStart
  <2>2. SessionView(d)' = SessionView(d)
    BY <1>1, <2>1, ViewsKept
  <2> QED
    BY <1>1, <1>2, <1>3, <2>2, UntargetedEffect
<1>4. CASE m.target # NoPeer
  <2>1. /\ k \in LocalId /\ new # NoStream
        /\ \A id \in DOMAIN opened : opened'[id] = opened[id]
        /\ opened'[new].target = m.target
        /\ sessions'[d] # NoSession
        /\ sessions[d].active_streams \in [LocalId -> Nat]
        /\ sessions'[d].subscriptions = sessions[d].subscriptions
        /\ sessions'[d].active_streams = [sessions[d].active_streams EXCEPT ![k] = new]
    BY <1>4, StreamStarted
  <2> HIDE DEF m, k, new
  <2>2. ASSUME NEW i \in LocalId, i = k
        PROVE  TargetOf(sessions[d].active_streams[i])' = m.target
    <3>1. sessions'[d].active_streams[i] = new
      BY <2>1, <2>2
    <3> QED
      BY <2>1, <3>1 DEF TargetOf
  <2>3. ASSUME NEW i \in LocalId, i # k
        PROVE  TargetOf(sessions[d].active_streams[i])' = TargetOf(sessions[d].active_streams[i])
    <3>1. sessions'[d].active_streams[i] = sessions[d].active_streams[i]
      BY <2>1, <2>3
    <3>2. \/ sessions[d].active_streams[i] = NoStream
          \/ sessions[d].active_streams[i] \in DOMAIN opened
      BY <1>1 DEF HeldStreamsAreOwn
    <3> QED
      BY <2>1, <3>1, <3>2 DEF TargetOf
  <2>4. Targets(d)' = [Targets(d) EXCEPT ![k] = m.target]
    <3>1. \A i \in LocalId : TargetOf(sessions[d].active_streams[i])'
                               = IF i = k THEN m.target ELSE Targets(d)[i]
      BY <2>2, <2>3 DEF Targets
    <3>2. Targets(d)' = [i \in LocalId |-> TargetOf(sessions[d].active_streams[i])']
      BY DEF Targets
    <3>3. Targets(d)' = [i \in LocalId |-> IF i = k THEN m.target ELSE Targets(d)[i]]
      BY <3>1, <3>2
    <3>4. DOMAIN Targets(d) = LocalId
      BY DEF Targets
    <3> QED
      BY <3>3, <3>4
  <2>5. SessionView(d)' = Seen(sessions'[d].subscriptions, Targets(d)', forwarded'[d])
    BY <2>1, ViewOfNewSession
  <2>6. Effect(SessionView(d), m)
           = Seen(sessions[d].subscriptions, [Targets(d) EXCEPT ![k] = m.target], forwarded[d])
    BY <1>1, <1>2, <1>4, StreamStartEffect DEF k
  <2> QED
    BY <1>1, <2>1, <2>4, <2>5, <2>6 DEF m
<1> QED
  BY <1>3, <1>4

\* A StreamClose empties the slot of its local id, and closes what was there.
LEMMA StreamClosed ==
    ASSUME WireTypeOK, BridgeTypeOK, NEW d \in Device, HandleStreamClose(d), node_running
    PROVE  LET k == Head(up[d]).local_stream_id
           IN  /\ k \in LocalId /\ opened' = opened
               /\ open' = open \ {sessions[d].active_streams[k]}
               /\ sessions[d] # NoSession /\ sessions'[d] # NoSession
               /\ sessions[d].active_streams \in [LocalId -> Nat]
               /\ sessions'[d].subscriptions = sessions[d].subscriptions
               /\ sessions'[d].active_streams =
                     [sessions[d].active_streams EXCEPT ![k] = NoStream]
               /\ \A e \in Device \ {d} : sessions'[e] = sessions[e]
<1> DEFINE k == Head(up[d]).local_stream_id
<1>1. /\ k \in LocalId
      /\ sessions[d] \in DeviceSession /\ sessions[d].active_streams \in [LocalId -> Nat]
      /\ sessions[d] # NoSession
  BY FromSessionFacts, UplinkFields
     DEF HandleStreamClose, FromSession, BridgeTypeOK, SessionsType
<1>2. /\ opened' = opened /\ open' = open \ {sessions[d].active_streams[k]}
      /\ sessions' = [sessions EXCEPT ![d] =
                        [sessions[d] EXCEPT !.active_streams = [@ EXCEPT ![k] = NoStream]]]
  BY DEF HandleStreamClose
<1> HIDE DEF k
<1>3. sessions'[d] = [sessions[d] EXCEPT !.active_streams = [@ EXCEPT ![k] = NoStream]]
  BY <1>2 DEF BridgeTypeOK
<1>4. /\ sessions'[d].subscriptions = sessions[d].subscriptions
      /\ sessions'[d].active_streams = [sessions[d].active_streams EXCEPT ![k] = NoStream]
  BY <1>1, <1>3 DEF DeviceSession
<1>5. sessions'[d] # NoSession
  BY HandleStreamCloseTypeOK, NoSessionAssumption
<1>6. \A e \in Device \ {d} : sessions'[e] = sessions[e]
  BY <1>2 DEF BridgeTypeOK
<1> QED
  BY <1>1, <1>2, <1>4, <1>5, <1>6 DEF k

LEMMA StreamCloseView ==
    ASSUME WireTypeOK, BridgeTypeOK, NEW d \in Device, node_running, HandleStreamClose(d)
    PROVE  SessionView(d)' = Effect(SessionView(d), Head(up[d]))
<1> DEFINE m == Head(up[d])
           k == m.local_stream_id
<1>1. sessions[d] # NoSession /\ m.type = "StreamClose" /\ forwarded' = forwarded
  BY DEF HandleStreamClose, FromSession, ReceiveUp
<1>2. SessionView(d) = Seen(sessions[d].subscriptions, Targets(d), forwarded[d])
  BY <1>1, ViewOfSession
<1>3. /\ k \in LocalId /\ opened' = opened /\ sessions'[d] # NoSession
      /\ sessions[d].active_streams \in [LocalId -> Nat]
      /\ sessions'[d].subscriptions = sessions[d].subscriptions
      /\ sessions'[d].active_streams = [sessions[d].active_streams EXCEPT ![k] = NoStream]
  BY StreamClosed
<1> HIDE DEF m, k
<1>4. Targets(d)' = [Targets(d) EXCEPT ![k] = NoPeer]
  BY <1>3 DEF Targets, TargetOf
<1>5. SessionView(d)' = Seen(sessions'[d].subscriptions, Targets(d)', forwarded'[d])
  BY <1>3, ViewOfNewSession
<1>6. Effect(SessionView(d), m)
         = Seen(sessions[d].subscriptions, [Targets(d) EXCEPT ![k] = NoPeer], forwarded[d])
  BY <1>1, <1>2, StreamCloseEffect DEF k
<1> QED
  BY <1>1, <1>3, <1>4, <1>5, <1>6 DEF m

LEMMA HeldTargets ==
    ASSUME BridgeTypeOK, HeldStreamsAreOwn, NEW d \in Device, NEW i \in LocalId,
           sessions[d] # NoSession
    PROVE  LET id == sessions[d].active_streams[i]
           IN  /\ id = NoStream => Targets(d)[i] = NoPeer
               /\ id # NoStream => /\ Targets(d)[i] = opened[id].target
                                   /\ opened[id].target \in Peer /\ Targets(d)[i] # NoPeer
<1> DEFINE id == sessions[d].active_streams[i]
<1>1. Targets(d)[i] = TargetOf(id)
  BY DEF Targets
<1>2. CASE id = NoStream
  BY <1>1, <1>2 DEF TargetOf
<1>3. CASE id # NoStream
  <2>1. id \in DOMAIN opened
    BY <1>3 DEF HeldStreamsAreOwn
  <2>2. opened[id] \in MeshStream
    BY <2>1, LenProperties DEF BridgeTypeOK
  <2>3. opened[id].target \in Peer
    BY <2>2 DEF MeshStream
  <2> QED
    BY <1>1, <1>3, <2>3, PeerAssumption DEF TargetOf
<1> QED
  BY <1>2, <1>3

LEMMA StreamDataView ==
    ASSUME WireTypeOK, BridgeTypeOK, HeldStreamsAreOwn, NEW d \in Device, node_running,
           HandleStreamData(d)
    PROVE  SessionView(d)' = Effect(SessionView(d), Head(up[d]))
<1> DEFINE m == Head(up[d])
           k == m.local_stream_id
           id == sessions[d].active_streams[k]
<1>1. sessions[d] # NoSession /\ m.type = "StreamData" /\ k \in LocalId
  BY FromSessionFacts, UplinkFields
     DEF HandleStreamData, FromSession, ReceiveUp, BridgeTypeOK, SessionsType
<1>2. SessionView(d) = Seen(sessions[d].subscriptions, Targets(d), forwarded[d])
  BY <1>1, ViewOfSession
<1>3. CASE id = NoStream
  <2>1. UNCHANGED bridge
    BY <1>3 DEF HandleStreamData
  <2>2. SessionView(d)' = SessionView(d)
    BY <2>1, ViewsKept DEF bridge, node
  <2>3. Targets(d)[k] = NoPeer
    BY <1>1, <1>3, HeldTargets
  <2> HIDE DEF m
  <2> QED
    BY <1>1, <1>2, <2>2, <2>3, UnstreamedEffect DEF m
<1>4. CASE id # NoStream
  <2> DEFINE p == [type |-> "StreamData", target |-> opened[id].target]
  <2>1. Forward(d, p)
    BY <1>4 DEF HandleStreamData
  <2>2. Targets(d)[k] = opened[id].target /\ Targets(d)[k] # NoPeer
    BY <1>1, <1>4, HeldTargets
  <2> HIDE DEF id
  <2>3. Effect(SessionView(d), m) = Seen(sessions[d].subscriptions, Targets(d), Append(forwarded[d], p))
    <3> HIDE DEF m
    <3> QED
      BY <1>1, <1>2, <2>2, StreamDataEffect DEF k
  <2> HIDE DEF p
  <2> QED
    BY <1>1, <2>1, <2>3, ForwardView
<1> QED
  BY <1>3, <1>4

\* The uplink task does to a session what the message says.
LEMMA UplinkView ==
    ASSUME WireTypeOK, BridgeTypeOK, HeldStreamsAreOwn, NEW d \in Device, node_running,
           UplinkStep(d)
    PROVE  /\ SessionView(d)' = Effect(SessionView(d), Head(up[d]))
           /\ up[d] # <<>> /\ up'[d] = Tail(up[d])
           /\ \A e \in Device \ {d} : up'[e] = up[e] /\ SessionView(e)' = SessionView(e)
<1>1. SessionView(d)' = Effect(SessionView(d), Head(up[d]))
  BY HelloView, UnknownDeviceView, SubscribeView, ForwardingView, StreamStartView,
     StreamDataView, StreamCloseView DEF UplinkStep
<1>2. up[d] # <<>> /\ up' = [up EXCEPT ![d] = Tail(up[d])]
  BY DEF UplinkStep, Hello, UnknownDevice, HandleSubscribe, HandleUnsubscribe, HandlePublish,
     HandleButtonPress, HandleSensorUpdate, HandleStreamStart, HandleStreamData,
     HandleStreamClose, FromSession, ReceiveUp
<1>3. up'[d] = Tail(up[d]) /\ \A e \in Device \ {d} : up'[e] = up[e]
  BY <1>2 DEF WireTypeOK
<1>4. \A e \in Device \ {d} : sessions'[e] = sessions[e] /\ forwarded'[e] = forwarded[e]
  BY DEF UplinkStep, Hello, UnknownDevice, HandleSubscribe, HandleUnsubscribe, HandlePublish,
     HandleButtonPress, HandleSensorUpdate, HandleStreamStart, HandleStreamData,
     HandleStreamClose, Forward, bridge, BridgeTypeOK
<1>5. \A id \in DOMAIN opened : opened'[id] = opened[id]
  <2>1. CASE HandleStreamStart(d)
    <3>1. CASE Head(up[d]).target # NoPeer
      BY <2>1, <3>1, StreamStarted
    <3>2. CASE Head(up[d]).target = NoPeer
      BY <2>1, <3>2 DEF HandleStreamStart
    <3> QED
      BY <3>1, <3>2
  <2>2. CASE opened' = opened
    BY <2>2
  <2> QED
    BY <2>1, <2>2 DEF UplinkStep, Hello, UnknownDevice, HandleSubscribe, HandleUnsubscribe,
       HandlePublish, HandleButtonPress, HandleSensorUpdate, HandleStreamData,
       HandleStreamClose, Forward, bridge, node
<1> QED
  BY <1>1, <1>2, <1>3, <1>4, <1>5, ViewKept

-----------------------------------------------------------------------------
(* Messages that give a stream up.                                         *)

\* m leaves a stream of the session v behind that it does not close.
GivesUp(v, m) ==
    \/ m.type = "Hello" /\ \E i \in LocalId : v.streams[i] # NoPeer
    \/ m.type = "StreamStart" /\ v.known /\ v.streams[m.local_stream_id] # NoPeer

Careful(v, q) == \A k \in 1..Len(q) : ~GivesUp(After(v, SubSeq(q, 1, k - 1)), q[k])

LEMMA CarefulRun ==
    ASSUME NEW v, NEW T, NEW q \in Seq(T), NEW r, IsRun(r, v, q)
    PROVE  Careful(v, q) <=> \A k \in 1..Len(q) : ~GivesUp(r[k - 1], q[k])
<1>1. Len(q) \in Nat
  BY LenProperties
<1>2. ASSUME NEW k \in 1..Len(q)
      PROVE  After(v, SubSeq(q, 1, k - 1)) = r[k - 1]
  <2> DEFINE p == SubSeq(q, 1, k - 1)
  <2>1. k - 1 \in 0..Len(q)
    BY <1>1
  <2>2. p \in Seq(T)
    BY <2>1, PartIsSeq
  <2>3. Len(p) = k - 1 /\ \A i \in 1..(k - 1) : p[i] = q[i]
    <3>1. \A i \in 1..(k - 1) : q[i] \in T
      BY <1>1, LenProperties
    <3>2. Len(p) = IF 1 <= k - 1 THEN (k - 1) - 1 + 1 ELSE 0
      BY <2>1, <3>1, SubSeqProperties
    <3>3. \A i \in 1..((k - 1) - 1 + 1) : p[i] = q[1 + i - 1]
      BY <2>1, <3>1, SubSeqProperties
    <3>4. (k - 1) - 1 + 1 = k - 1 /\ \A i \in 1..(k - 1) : 1 + i - 1 = i
      BY <1>1
    <3>5. Len(p) = k - 1
      BY <1>1, <3>2
    <3> QED
      BY <3>3, <3>4, <3>5
  <2> HIDE DEF p
  <2>4. \A i \in 1..(k - 1) : i \in 1..Len(q)
    BY <1>1
  <2>5. IsRun(r, v, p)
    BY <2>3, <2>4 DEF IsRun
  <2>6. After(v, p) = r[Len(p)]
    BY <2>2, <2>5, RunEndsAfter
  <2> QED
    BY <2>3, <2>6 DEF p
<1> QED
  BY <1>2 DEF Careful

LEMMA CarefulNothing ==
    ASSUME NEW v
    PROVE  Careful(v, <<>>)
BY DEF Careful

LEMMA CarefulAppend ==
    ASSUME NEW v, NEW T, NEW q \in Seq(T), NEW m \in T,
           Careful(v, q), ~GivesUp(After(v, q), m)
    PROVE  Careful(v, Append(q, m))
<1> DEFINE a == Append(q, m)
<1>1. /\ a \in Seq(T) /\ Len(a) = Len(q) + 1 /\ a[Len(q) + 1] = m
      /\ \A k \in 1..Len(q) : a[k] = q[k]
      /\ Len(q) \in Nat
  BY AppendProperties, LenProperties
<1> HIDE DEF a
<1>2. PICK r : IsRun(r, v, a)
  BY <1>1, AfterRuns
<1>3. IsRun(r, v, q)
  BY <1>1, <1>2 DEF IsRun
<1>4. After(v, q) = r[Len(q)]
  BY <1>3, RunEndsAfter
<1>5. \A k \in 1..Len(q) : ~GivesUp(r[k - 1], q[k])
  BY <1>3, CarefulRun
<1>6. ASSUME NEW k \in 1..Len(a) PROVE ~GivesUp(r[k - 1], a[k])
  <2>1. CASE k = Len(q) + 1
    <3>1. k - 1 = Len(q)
      BY <1>1, <2>1
    <3> QED
      BY <1>1, <1>4, <2>1, <3>1
  <2>2. CASE k # Len(q) + 1
    <3>1. k \in 1..Len(q)
      BY <1>1, <2>2
    <3> QED
      BY <1>1, <1>5, <3>1
  <2> QED
    BY <2>1, <2>2
<1>7. Careful(v, a)
  BY <1>1, <1>2, <1>6, CarefulRun
<1> QED
  BY <1>7 DEF a

LEMMA CarefulTail ==
    ASSUME NEW v, NEW T, NEW q \in Seq(T), q # <<>>, Careful(v, q)
    PROVE  ~GivesUp(v, Head(q)) /\ Careful(Effect(v, Head(q)), Tail(q))
<1> DEFINE t == Tail(q)
<1>1. /\ t \in Seq(T) /\ Len(t) = Len(q) - 1
      /\ \A k \in 1..Len(t) : t[k] = q[k + 1]
      /\ Len(q) \in Nat /\ Len(q) # 0 /\ Head(q) = q[1]
  BY HeadTailProperties, LenProperties, EmptySeq
<1> HIDE DEF t
<1>2. PICK r : IsRun(r, v, q)
  BY AfterRuns
<1>3. \A k \in 1..Len(q) : ~GivesUp(r[k - 1], q[k])
  BY <1>2, CarefulRun
<1> DEFINE s == [k \in 0..Len(t) |-> r[k + 1]]
<1>4. 1 \in 1..Len(q) /\ 1 - 1 = 0 /\ 0 \in 0..Len(t) /\ 0 + 1 = 1
  BY <1>1
<1>5. r[0] = v /\ r[1] = Effect(v, Head(q)) /\ ~GivesUp(v, Head(q))
  <2>1. r[1] = Effect(r[1 - 1], q[1]) /\ ~GivesUp(r[1 - 1], q[1]) /\ r[0] = v
    BY <1>2, <1>3, <1>4 DEF IsRun
  <2> QED
    BY <1>1, <1>4, <2>1
<1>6. ASSUME NEW k \in 1..Len(t)
      PROVE  s[k] = Effect(s[k - 1], t[k]) /\ ~GivesUp(s[k - 1], t[k])
  <2>1. /\ k + 1 \in 1..Len(q) /\ (k + 1) - 1 = k /\ (k - 1) + 1 = k
        /\ k \in 0..Len(t) /\ k - 1 \in 0..Len(t)
    BY <1>1
  <2>2. r[k + 1] = Effect(r[k], q[k + 1]) /\ ~GivesUp(r[k], q[k + 1])
    <3>1. /\ r[k + 1] = Effect(r[(k + 1) - 1], q[k + 1])
          /\ ~GivesUp(r[(k + 1) - 1], q[k + 1])
      BY <1>2, <1>3, <2>1 DEF IsRun
    <3> QED
      BY <2>1, <3>1
  <2>3. s[k] = r[k + 1] /\ s[k - 1] = r[k]
    BY <2>1
  <2> QED
    BY <1>1, <2>2, <2>3
<1>7. s[0] = Effect(v, Head(q))
  BY <1>4, <1>5
<1> HIDE DEF s
<1>8. IsRun(s, Effect(v, Head(q)), t)
  BY <1>6, <1>7 DEF IsRun
<1>9. Careful(Effect(v, Head(q)), t)
  BY <1>1, <1>6, <1>8, CarefulRun
<1> QED
  BY <1>5, <1>9 DEF t

-----------------------------------------------------------------------------
(* The steps that disturb nothing.                                         *)

LEMMA FaultCounts ==
    ASSUME WireTypeOK, Fault
    PROVE  faults' # 0
BY DEF WireTypeOK, Fault

\* A call that the library accepts puts a command at the end of the queue.
LEMMA CallQueues ==
    ASSUME WireTypeOK, NEW d \in Device, ApplicationCall(d)
    PROVE  \E c \in AviCommand :
              /\ Len(command_queue[d]) < QueueSize
              /\ command_queue' = [command_queue EXCEPT ![d] = Append(command_queue[d], c)]
              /\ UNCHANGED wire
<1>1. CASE ConnectAgain(d)
  <2>1. [type |-> "Connect"] \in AviCommand
    BY DEF AviCommand
  <2> QED
    BY <1>1, <2>1 DEF ConnectAgain
<1>2. CASE \E c : SendCommand(d, c)
  <2>1. PICK c : SendCommand(d, c)
    BY <1>2
  <2>2. c \in AviCommand
    BY <2>1, ScenarioFacts DEF SendCommand
  <2> QED
    BY <2>1, <2>2 DEF SendCommand
<1> QED
  BY <1>1, <1>2 DEF ApplicationCall, Connect, Subscribe, Unsubscribe, Publish, StartStream,
     SendStreamData, CloseStream, ButtonPressed, UpdateSensor

\* What does not touch a session, nor what is on its way there.
Aside ==
    /\ UNCHANGED <<up, command_queue, sessions, opened, forwarded, node_running>>
    /\ open' \subseteq open
    /\ careless \subseteq careless'

\* The kinds of steps as the sessions see them.
LEMMA Undisturbed ==
    ASSUME WireTypeOK, Next, faults' = 0
    PROVE  /\ faults = 0
           /\ \/ \E d \in Device : ApplicationCall(d) /\ NoteCareless(d) /\ UNCHANGED bridge
              \/ \E d \in Device : ProcessCommand(d) /\ NoteCareless(d) /\ UNCHANGED bridge
              \/ \E d \in Device : UplinkStep(d) /\ UNCHANGED <<clients, careless>>
              \/ Aside
<1>1. ~Fault
  BY FaultCounts
<1>2. ASSUME NEW d \in Device, DeviceStep(d)
      PROVE  /\ faults = 0
             /\ \/ ApplicationCall(d) /\ NoteCareless(d) /\ UNCHANGED bridge
                \/ ProcessCommand(d) /\ NoteCareless(d) /\ UNCHANGED bridge
                \/ Aside
  <2>1. ClientStep(d) /\ NoteCareless(d) /\ UNCHANGED bridge
    BY <1>2 DEF DeviceStep
  <2>2. careless \subseteq careless'
    BY <2>1 DEF NoteCareless
  <2>3. CASE ApplicationCall(d)
    BY <2>1, <2>3, CallQueues DEF wire
  <2>4. CASE ProcessCommand(d)
    BY <2>1, <2>4 DEF ProcessCommand
  <2>5. CASE AwaitDatagram(d) \/ AwaitNothing(d) \/ QueueDrained(d) \/ PollDatagram(d) \/ PollNothing(d)
    <3>1. UNCHANGED <<up, command_queue, faults>>
      BY <2>5 DEF AwaitDatagram, AwaitNothing, QueueDrained, PollDatagram, PollNothing, wire
    <3> QED
      BY <2>1, <2>2, <3>1 DEF Aside, bridge, node
  <2>6. ~RestartDevice(d)
    BY <1>1 DEF RestartDevice
  <2> QED
    BY <2>1, <2>3, <2>4, <2>5, <2>6 DEF ClientStep
<1>3. ASSUME NEW d \in Device PROVE ~WireFault(d)
  BY <1>1 DEF WireFault
<1>4. ASSUME GatewayStep, UNCHANGED <<clients, careless>>
      PROVE  /\ faults = 0
             /\ (\E d \in Device : UplinkStep(d)) \/ Aside
  <2>1. ASSUME NEW d \in Device, UplinkStep(d) PROVE faults' = faults
    BY <2>1 DEF UplinkStep, Hello, UnknownDevice, HandleSubscribe, HandleUnsubscribe,
       HandlePublish, HandleButtonPress, HandleSensorUpdate, HandleStreamStart,
       HandleStreamData, HandleStreamClose, Forward
  <2>2. ASSUME \/ \E e \in MeshEvent : MeshEventArrives(e)
               \/ \E id \in open : MeshStreamEnds(id)
               \/ HandleDownlinkEvent
               \/ DownlinkEnds
        PROVE  faults' = faults /\ Aside
    <3>1. UNCHANGED <<up, faults, sessions, opened, forwarded, node_running>> /\ open' \subseteq open
      BY <2>2 DEF MeshEventArrives, MeshStreamEnds, HandleDownlinkEvent, DownlinkEnds, wire, node
    <3> QED
      BY <1>4, <3>1 DEF Aside, clients, client
  <2>3. ~NodeStops /\ ~RestartGateway
    BY <1>1 DEF NodeStops, RestartGateway
  <2> QED
    BY <1>4, <2>1, <2>2, <2>3 DEF GatewayStep
<1> QED
  BY <1>2, <1>3, <1>4 DEF Next

LEMMA AsideKeepsViews ==
    ASSUME Aside, NEW d
    PROVE  SessionView(d)' = SessionView(d) /\ Outstanding(d)' = Outstanding(d)
BY ViewsKept, Untouched DEF Aside

\* Accepted calls, seen from the sessions.
LEMMA CallView ==
    ASSUME TypeOK, NEW d \in Device, ApplicationCall(d), UNCHANGED bridge
    PROVE  \E c \in AviCommand :
              /\ Len(command_queue[d]) < QueueSize
              /\ command_queue' = [command_queue EXCEPT ![d] = Append(command_queue[d], c)]
              /\ Packet(d, c) \in UplinkMessage
              /\ Outstanding(d)' = Append(Outstanding(d), Packet(d, c))
              /\ \A e \in Device \ {d} : Outstanding(e)' = Outstanding(e)
              /\ \A e \in Device : SessionView(e)' = SessionView(e)
<1>1. WireTypeOK /\ QueuesType
  BY DEF TypeOK, WireTypeOK, ClientTypeOK, QueuesType
<1>2. PICK c \in AviCommand :
         /\ Len(command_queue[d]) < QueueSize
         /\ command_queue' = [command_queue EXCEPT ![d] = Append(command_queue[d], c)]
         /\ UNCHANGED wire
  BY <1>1, CallQueues
<1>3. /\ command_queue'[d] = Append(command_queue[d], c) /\ up' = up
      /\ \A e \in Device \ {d} : command_queue'[e] = command_queue[e]
  BY <1>1, <1>2 DEF QueuesType, wire
<1>4. Outstanding(d)' = Append(Outstanding(d), Packet(d, c))
  BY <1>1, <1>3, Queued
<1>5. \A e \in Device \ {d} : Outstanding(e)' = Outstanding(e)
  BY <1>3, Untouched
<1>6. \A e \in Device : SessionView(e)' = SessionView(e)
  BY ViewsKept DEF bridge, node
<1> QED
  BY <1>2, <1>4, <1>5, <1>6, PacketType

LEMMA SendView ==
    ASSUME TypeOK, NEW d \in Device, ProcessCommand(d), UNCHANGED bridge
    PROVE  \A e \in Device : /\ Outstanding(e)' = Outstanding(e)
                             /\ SessionView(e)' = SessionView(e)
<1>1. QueuesType
  BY DEF TypeOK, WireTypeOK, ClientTypeOK, QueuesType
<1>2. /\ command_queue[d] # <<>> /\ command_queue'[d] = Tail(command_queue[d])
      /\ up'[d] = Append(up[d], Packet(d, Head(command_queue[d])))
      /\ \A e \in Device \ {d} : command_queue'[e] = command_queue[e] /\ up'[e] = up[e]
  BY <1>1 DEF ProcessCommand, SendUp, QueuesType
<1>3. Outstanding(d)' = Outstanding(d)
  BY <1>1, <1>2, Sent
<1>4. \A e \in Device \ {d} : Outstanding(e)' = Outstanding(e)
  BY <1>2, Untouched
<1>5. \A e \in Device : SessionView(e)' = SessionView(e)
  BY ViewsKept DEF bridge, node
<1> QED
  BY <1>3, <1>4, <1>5

LEMMA TakeView ==
    ASSUME TypeOK, HeldStreamsAreOwn, node_running, NEW d \in Device, UplinkStep(d), UNCHANGED clients
    PROVE  /\ Outstanding(d) # <<>> /\ Head(Outstanding(d)) = Head(up[d])
           /\ Outstanding(d)' = Tail(Outstanding(d))
           /\ SessionView(d)' = Effect(SessionView(d), Head(Outstanding(d)))
           /\ \A e \in Device \ {d} : /\ Outstanding(e)' = Outstanding(e)
                                      /\ SessionView(e)' = SessionView(e)
<1>1. QueuesType /\ WireTypeOK /\ BridgeTypeOK /\ command_queue' = command_queue
  BY DEF TypeOK, WireTypeOK, ClientTypeOK, QueuesType, clients, client
<1>2. /\ SessionView(d)' = Effect(SessionView(d), Head(up[d]))
      /\ up[d] # <<>> /\ up'[d] = Tail(up[d])
      /\ \A e \in Device \ {d} : up'[e] = up[e] /\ SessionView(e)' = SessionView(e)
  BY <1>1, UplinkView
<1>3. /\ Outstanding(d) # <<>> /\ Head(Outstanding(d)) = Head(up[d])
      /\ Outstanding(d)' = Tail(Outstanding(d))
  BY <1>1, <1>2, Handled
<1>4. \A e \in Device \ {d} : Outstanding(e)' = Outstanding(e)
  BY <1>1, <1>2, Untouched
<1> QED
  BY <1>2, <1>3, <1>4

-----------------------------------------------------------------------------
(* The invariant: while nothing has been disturbed, the node runs, and     *)
(* only a careless device has a message under way that gives a stream up.  *)

NodeRuns == faults = 0 => node_running

OthersKeepStreams ==
    faults = 0 => \A d \in Device \ careless : Careful(SessionView(d), Outstanding(d))

SessionInvariant ==
    GatewayInvariant /\ NodeRuns /\ OthersKeepStreams /\ OrphansAreExplained

LEMMA NodeRunsKept ==
    ASSUME WireTypeOK, NodeRuns, Next
    PROVE  NodeRuns'
<1> SUFFICES ASSUME faults' = 0 PROVE node_running'
  BY DEF NodeRuns
<1>1. faults = 0 /\ node_running
  BY Undisturbed DEF NodeRuns
<1>2. ASSUME NEW d \in Device, UplinkStep(d) PROVE node_running' = node_running
  BY <1>2 DEF UplinkStep, Hello, UnknownDevice, HandleSubscribe, HandleUnsubscribe,
     HandlePublish, HandleButtonPress, HandleSensorUpdate, HandleStreamStart,
     HandleStreamData, HandleStreamClose, Forward, bridge, node
<1> QED
  BY <1>1, <1>2, Undisturbed DEF Aside, bridge, node

\* A command that is not careless is a message that gives nothing up.
LEMMA CarefulCommand ==
    ASSUME NEW d \in Device, NEW c \in AviCommand, ~Careless(d, c)
    PROVE  ~GivesUp(View(d), Packet(d, c))
<1>1. Packet(d, c).type = "Hello" => c.type = "Connect"
  BY DEF Packet, AviCommand, SensorCommand
<1>2. Packet(d, c).type = "StreamStart" => Packet(d, c) = c
  BY DEF Packet, AviCommand, SensorCommand
<1> QED
  BY <1>1, <1>2 DEF Careless, GivesUp

LEMMA OthersKeepStreamsKept ==
    ASSUME GatewayInvariant, NodeRuns, OthersKeepStreams, Next
    PROVE  OthersKeepStreams'
<1> SUFFICES ASSUME faults' = 0, NEW e \in Device \ careless'
             PROVE  Careful(SessionView(e)', Outstanding(e)')
  BY DEF OthersKeepStreams
<1>1. TypeOK /\ WireTypeOK /\ ClientTypeOK /\ QueuesType /\ HeldStreamsAreOwn
  BY DEF GatewayInvariant, TypeOK, WireTypeOK, ClientTypeOK, QueuesType
<1>2. faults = 0 /\ node_running
  BY <1>1, Undisturbed DEF NodeRuns
<1>3. Outstanding(e) \in Seq(UplinkMessage)
  BY <1>1, OutstandingType
<1>4. e \notin careless => Careful(SessionView(e), Outstanding(e))
  BY <1>2 DEF OthersKeepStreams
<1>5. ASSUME NEW d \in Device, ApplicationCall(d), NoteCareless(d), UNCHANGED bridge
      PROVE  Careful(SessionView(e)', Outstanding(e)')
  <2>1. PICK c \in AviCommand :
           /\ command_queue' = [command_queue EXCEPT ![d] = Append(command_queue[d], c)]
           /\ Packet(d, c) \in UplinkMessage
           /\ Outstanding(d)' = Append(Outstanding(d), Packet(d, c))
           /\ \A o \in Device \ {d} : Outstanding(o)' = Outstanding(o)
           /\ \A o \in Device : SessionView(o)' = SessionView(o)
    BY <1>1, <1>5, CallView
  <2>2. careless \subseteq careless'
    BY <1>5 DEF NoteCareless
  <2>3. CASE e # d
    BY <1>4, <2>1, <2>2, <2>3
  <2>4. CASE e = d
    <3>1. /\ command_queue[d] \in Seq(AviCommand)
          /\ command_queue'[d] = Append(command_queue[d], c)
      BY <1>1, <2>1 DEF QueuesType
    <3>2. Len(command_queue'[d]) > Len(command_queue[d]) /\ Last(command_queue'[d]) = c
      <4>1. /\ Len(command_queue[d]) \in Nat
            /\ Len(command_queue'[d]) = Len(command_queue[d]) + 1
            /\ command_queue'[d][Len(command_queue[d]) + 1] = c
        BY <3>1, LenProperties, AppendProperties
      <4> QED
        BY <4>1 DEF Last
    <3>3. ~Careless(d, c)
      BY <1>5, <2>4, <3>2 DEF NoteCareless
    <3>4. ~GivesUp(After(SessionView(d), Outstanding(d)), Packet(d, c))
      BY <3>3, CarefulCommand, OutstandingIs
    <3>5. Careful(SessionView(d), Outstanding(d)) /\ Outstanding(d) \in Seq(UplinkMessage)
      BY <1>3, <1>4, <2>2, <2>4
    <3>6. Careful(SessionView(d), Append(Outstanding(d), Packet(d, c)))
      BY <2>1, <3>4, <3>5, CarefulAppend
    <3>7. SessionView(d)' = SessionView(d)
      BY <2>1
    <3> QED
      BY <2>1, <2>4, <3>6, <3>7
  <2> QED
    BY <2>3, <2>4
<1>6. ASSUME NEW d \in Device, ProcessCommand(d), NoteCareless(d), UNCHANGED bridge
      PROVE  Careful(SessionView(e)', Outstanding(e)')
  BY <1>1, <1>4, <1>6, SendView DEF NoteCareless
<1>7. ASSUME NEW d \in Device, UplinkStep(d), UNCHANGED <<clients, careless>>
      PROVE  Careful(SessionView(e)', Outstanding(e)')
  <2>1. /\ Outstanding(d) # <<>>
        /\ Outstanding(d)' = Tail(Outstanding(d))
        /\ SessionView(d)' = Effect(SessionView(d), Head(Outstanding(d)))
        /\ \A o \in Device \ {d} : /\ Outstanding(o)' = Outstanding(o)
                                   /\ SessionView(o)' = SessionView(o)
    BY <1>1, <1>2, <1>7, TakeView
  <2>2. CASE e # d
    BY <1>4, <1>7, <2>1, <2>2
  <2>3. CASE e = d
    BY <1>3, <1>4, <1>7, <2>1, <2>3, CarefulTail
  <2> QED
    BY <2>2, <2>3
<1>8. CASE Aside
  BY <1>4, <1>8, AsideKeepsViews DEF Aside
<1> QED
  BY <1>1, <1>5, <1>6, <1>7, <1>8, Undisturbed

-----------------------------------------------------------------------------
(* The streams nobody holds.                                               *)

Explained(id) == Held(id) \/ opened[id].device \in careless

\* A device that is not careless, and whose stream is in its session.
LEMMA HeldOpen ==
    ASSUME BridgeTypeOK, HeldStreamsAreOwn, NEW id \in open, Held(id)
    PROVE  LET e == opened[id].device
               i == opened[id].local_stream_id
           IN  /\ e \in Device /\ i \in LocalId /\ id # NoStream /\ id \in DOMAIN opened
               /\ sessions[e] # NoSession /\ sessions[e].active_streams[i] = id
               /\ SessionView(e).known /\ SessionView(e).streams[i] # NoPeer
<1> DEFINE e == opened[id].device
           i == opened[id].local_stream_id
<1>1. id \in DOMAIN opened /\ id \in 1..Len(opened)
  BY LenProperties DEF BridgeTypeOK
<1>2. opened[id] \in MeshStream /\ id # NoStream
  BY <1>1, LenProperties DEF BridgeTypeOK, NoStream
<1>3. e \in Device /\ i \in LocalId
  BY <1>2 DEF MeshStream
<1>4. sessions[e] # NoSession /\ sessions[e].active_streams[i] = id
  BY DEF Held
<1> HIDE DEF e, i
<1>5. Targets(e)[i] # NoPeer
  BY <1>2, <1>3, <1>4, HeldTargets
<1>6. SessionView(e) = Seen(sessions[e].subscriptions, Targets(e), forwarded[e])
  BY <1>4, ViewOfSession
<1>7. SessionView(e).known /\ SessionView(e).streams[i] # NoPeer
  BY <1>5, <1>6 DEF Seen
<1> QED
  BY <1>1, <1>2, <1>3, <1>4, <1>7 DEF e, i

LEMMA UplinkExplains ==
    ASSUME WireTypeOK, BridgeTypeOK, HeldStreamsAreOwn, node_running,
           NEW d \in Device, UplinkStep(d), careless' = careless,
           d \in careless \/ ~GivesUp(SessionView(d), Head(up[d])),
           \A id \in open : Explained(id),
           NEW id \in open'
    PROVE  Explained(id)'
<1>1. CASE Hello(d)
  <2>1. /\ id \in open /\ opened' = opened
        /\ \A e \in Device \ {d} : sessions'[e] = sessions[e]
        /\ Head(up[d]).type = "Hello"
    BY <1>1 DEF Hello, node, ReceiveUp, BridgeTypeOK
  <2>2. CASE opened[id].device \in careless
    BY <2>1, <2>2 DEF Explained
  <2>3. CASE opened[id].device \notin careless
    <3>1. Held(id)
      BY <2>1, <2>3 DEF Explained
    <3>2. CASE opened[id].device = d
      BY <2>1, <2>3, <3>1, <3>2, HeldOpen DEF GivesUp
    <3>3. CASE opened[id].device # d
      BY <2>1, <3>1, <3>3, HeldOpen DEF Held, Explained
    <3> QED
      BY <3>2, <3>3
  <2> QED
    BY <2>2, <2>3
<1>2. CASE HandleStreamStart(d) /\ Head(up[d]).target # NoPeer
  <2> DEFINE m == Head(up[d])
             k == m.local_stream_id
             new == Len(opened) + 1
  <2>1. /\ k \in LocalId
        /\ \A j \in DOMAIN opened : opened'[j] = opened[j]
        /\ opened'[new].device = d /\ opened'[new].local_stream_id = k
        /\ open' = open \cup {new}
        /\ sessions'[d] # NoSession
        /\ sessions[d].active_streams \in [LocalId -> Nat]
        /\ sessions'[d].active_streams = [sessions[d].active_streams EXCEPT ![k] = new]
        /\ \A e \in Device \ {d} : sessions'[e] = sessions[e]
    BY <1>2, StreamStarted
  <2>2. m.type = "StreamStart"
    BY <1>2 DEF HandleStreamStart, FromSession, ReceiveUp
  <2> HIDE DEF m, k, new
  <2>3. CASE id = new
    <3>1. sessions'[d].active_streams[k] = new
      BY <2>1
    <3>2. Held(id)'
      BY <2>1, <2>3, <3>1 DEF Held
    <3> QED
      BY <3>2 DEF Explained
  <2>4. CASE id # new
    <3>1. id \in open /\ id \in DOMAIN opened /\ opened'[id] = opened[id]
      BY <2>1, <2>4 DEF BridgeTypeOK
    <3>2. CASE opened[id].device \in careless
      BY <3>1, <3>2 DEF Explained
    <3>3. CASE opened[id].device \notin careless
      <4>1. Held(id)
        BY <3>1, <3>3 DEF Explained
      <4> DEFINE e == opened[id].device
                 i == opened[id].local_stream_id
      <4>2. /\ e \in Device /\ i \in LocalId
            /\ sessions[e] # NoSession /\ sessions[e].active_streams[i] = id
            /\ SessionView(e).known /\ SessionView(e).streams[i] # NoPeer
        BY <3>1, <4>1, HeldOpen
      <4>3. e = d => i # k
        BY <2>2, <3>3, <4>2 DEF GivesUp, m, k
      <4>4. sessions'[e] # NoSession /\ sessions'[e].active_streams[i] = id
        BY <2>1, <4>2, <4>3
      <4>5. Held(id)'
        BY <3>1, <4>4 DEF Held
      <4> QED
        BY <4>5 DEF Explained
    <3> QED
      BY <3>2, <3>3
  <2> QED
    BY <2>3, <2>4
<1>3. CASE HandleStreamClose(d)
  <2> DEFINE k == Head(up[d]).local_stream_id
  <2>1. /\ k \in LocalId /\ opened' = opened
        /\ open' = open \ {sessions[d].active_streams[k]}
        /\ sessions'[d] # NoSession
        /\ sessions[d].active_streams \in [LocalId -> Nat]
        /\ sessions'[d].active_streams = [sessions[d].active_streams EXCEPT ![k] = NoStream]
        /\ \A e \in Device \ {d} : sessions'[e] = sessions[e]
    BY <1>3, StreamClosed
  <2> HIDE DEF k
  <2>2. id \in open /\ id # sessions[d].active_streams[k]
    BY <2>1
  <2>3. CASE opened[id].device \in careless
    BY <2>1, <2>3 DEF Explained
  <2>4. CASE opened[id].device \notin careless
    <3>1. Held(id)
      BY <2>2, <2>4 DEF Explained
    <3> DEFINE e == opened[id].device
               i == opened[id].local_stream_id
    <3>2. /\ e \in Device /\ i \in LocalId
          /\ sessions[e] # NoSession /\ sessions[e].active_streams[i] = id
      BY <2>2, <3>1, HeldOpen
    <3>3. e = d => i # k
      BY <2>2, <3>2
    <3>4. sessions'[e] # NoSession /\ sessions'[e].active_streams[i] = id
      BY <2>1, <3>2, <3>3
    <3>5. Held(id)'
      BY <2>1, <3>4 DEF Held
    <3> QED
      BY <3>5 DEF Explained
  <2> QED
    BY <2>3, <2>4
<1>4. CASE HandleSubscribe(d) \/ HandleUnsubscribe(d)
  <2>1. /\ open' = open /\ opened' = opened
        /\ \A e \in Device \ {d} : sessions'[e] = sessions[e]
        /\ sessions[d] \in DeviceSession
        /\ \E u : sessions'[d] = [sessions[d] EXCEPT !.subscriptions = u]
    BY <1>4, FromSessionFacts DEF HandleSubscribe, HandleUnsubscribe, BridgeTypeOK, SessionsType
  <2>2. sessions'[d].active_streams = sessions[d].active_streams
    BY <2>1 DEF DeviceSession
  <2>3. sessions'[d] # NoSession
    BY <1>4, HandleSubscribeTypeOK, HandleUnsubscribeTypeOK, NoSessionAssumption
  <2>4. Explained(id) /\ id \in open
    BY <2>1
  <2>5. Held(id) => Held(id)'
    BY <2>1, <2>2, <2>3, <2>4, HeldOpen DEF Held
  <2> QED
    BY <2>1, <2>4, <2>5 DEF Explained
<1>5. CASE UNCHANGED <<sessions, opened, open>>
  BY <1>5 DEF Explained, Held
<1> QED
  BY <1>1, <1>2, <1>3, <1>4, <1>5 DEF UplinkStep, UnknownDevice, HandlePublish,
     HandleButtonPress, HandleSensorUpdate, HandleStreamStart, HandleStreamData, Forward,
     bridge, node

LEMMA OrphansKept ==
    ASSUME GatewayInvariant, NodeRuns, OthersKeepStreams, OrphansAreExplained, Next
    PROVE  OrphansAreExplained'
<1> SUFFICES ASSUME faults' = 0, NEW id \in open'
             PROVE  Explained(id)'
  BY DEF OrphansAreExplained, Explained
<1>1. TypeOK /\ WireTypeOK /\ BridgeTypeOK /\ QueuesType /\ HeldStreamsAreOwn
  BY DEF GatewayInvariant, TypeOK, WireTypeOK, ClientTypeOK, QueuesType
<1>2. faults = 0 /\ node_running
  BY <1>1, Undisturbed DEF NodeRuns
<1>3. \A j \in open : Explained(j)
  BY <1>2 DEF OrphansAreExplained, Explained
<1>4. ASSUME NEW d \in Device, UplinkStep(d), UNCHANGED <<clients, careless>>
      PROVE  Explained(id)'
  <2>1. Outstanding(d) # <<>> /\ Head(Outstanding(d)) = Head(up[d])
    BY <1>1, <1>2, <1>4, TakeView
  <2>2. d \notin careless => Careful(SessionView(d), Outstanding(d))
    BY <1>2 DEF OthersKeepStreams
  <2>3. d \in careless \/ ~GivesUp(SessionView(d), Head(up[d]))
    BY <1>1, <2>1, <2>2, OutstandingType, CarefulTail
  <2> QED
    BY <1>1, <1>2, <1>3, <1>4, <2>3, UplinkExplains
<1>5. ASSUME UNCHANGED <<sessions, opened>>, open' \subseteq open, careless \subseteq careless'
      PROVE  Explained(id)'
  BY <1>3, <1>5 DEF Explained, Held
<1> QED
  BY <1>1, <1>4, <1>5, Undisturbed DEF Aside, bridge, node, NoteCareless

-----------------------------------------------------------------------------
(* The invariant holds.                                                    *)

LEMMA SessionInit == Init => SessionInvariant
<1> SUFFICES ASSUME Init PROVE SessionInvariant
  OBVIOUS
<1>1. GatewayInvariant
  BY InitInvariant
<1>2. NodeRuns /\ OrphansAreExplained
  BY DEF Init, BridgeInit, NodeRuns, OrphansAreExplained
<1>3. ASSUME NEW d \in Device PROVE Careful(SessionView(d), Outstanding(d))
  <2>1. Outstanding(d) = <<>>
    BY <1>3, NothingOutstanding DEF Init, WireInit, ClientInit
  <2> QED
    BY <2>1, CarefulNothing
<1> QED
  BY <1>1, <1>2, <1>3 DEF SessionInvariant, OthersKeepStreams

LEMMA SessionNext == SessionInvariant /\ [Next]_vars => SessionInvariant'
<1> SUFFICES ASSUME SessionInvariant, [Next]_vars PROVE SessionInvariant'
  OBVIOUS
<1>1. GatewayInvariant /\ WireTypeOK
  BY DEF SessionInvariant, GatewayInvariant, TypeOK
<1>2. GatewayInvariant'
  BY <1>1, NextInvariant
<1>3. CASE Next
  BY <1>1, <1>2, <1>3, NodeRunsKept, OthersKeepStreamsKept, OrphansKept DEF SessionInvariant
<1>4. CASE UNCHANGED vars
  <2>1. /\ UNCHANGED <<up, faults, command_queue, sessions, opened, open, forwarded,
                       node_running, careless>>
    BY <1>4 DEF vars, wire, clients, client, bridge, node
  <2>2. \A d \in Device : SessionView(d)' = SessionView(d) /\ Outstanding(d)' = Outstanding(d)
    BY <2>1, ViewsKept, Untouched
  <2>3. NodeRuns' /\ OthersKeepStreams'
    BY <2>1, <2>2 DEF SessionInvariant, NodeRuns, OthersKeepStreams
  <2>4. OrphansAreExplained'
    BY <2>1 DEF SessionInvariant, OrphansAreExplained, Held
  <2> QED
    BY <1>2, <2>3, <2>4 DEF SessionInvariant
<1> QED
  BY <1>3, <1>4

LEMMA SessionInvariantHolds == Spec => []SessionInvariant
BY SessionInit, SessionNext, PTL DEF Spec

(* While nothing is disturbed, a mesh stream that is open is in the        *)
(* session of its device, or the device gave it up without closing it      *)
(* (StreamStart, StreamClose and Hello of the bridge).                     *)
THEOREM OrphansExplained == Spec => []OrphansAreExplained
<1>1. SessionInvariant => OrphansAreExplained
  BY DEF SessionInvariant
<1> QED
  BY <1>1, SessionInvariantHolds, PTL

-----------------------------------------------------------------------------
(* The refinement.                                                         *)

LEMMA DirectEffect ==
    ASSUME NEW v, NEW m
    PROVE  Direct!Effect(v, m) = Effect(v, m)
BY DEF Direct!Effect, Direct!Unknown, Effect, Unknown

LEMMA DirectInit == Init => Direct!Init
<1> SUFFICES ASSUME Init PROVE Direct!Init
  OBVIOUS
<1>1. ASSUME NEW d \in Device PROVE View(d) = Direct!Unknown /\ Len(command_queue[d]) = 0
  <2>1. Outstanding(d) = <<>>
    BY <1>1, NothingOutstanding DEF Init, WireInit, ClientInit
  <2>2. SessionView(d) = Unknown
    BY <1>1 DEF Init, BridgeInit, SessionView, Unknown
  <2>3. View(d) = Unknown
    BY <2>1, <2>2, OutstandingIs, AfterNothing
  <2>4. Len(command_queue[d]) = 0
    BY <1>1, EmptySeq DEF Init, ClientInit
  <2> QED
    BY <2>3, <2>4 DEF Direct!Unknown, Unknown
<1>2. ~(faults > 0)
  BY DEF Init, WireInit
<1> QED
  BY <1>1, <1>2 DEF Direct!Init

LEMMA DirectNext ==
    SessionInvariant /\ [Next]_vars =>
       [Direct!Next]_<<[d \in Device |-> View(d)], [d \in Device |-> Len(command_queue[d])],
                       faults > 0>>
<1> DEFINE views == [d \in Device |-> View(d)]
           lengths == [d \in Device |-> Len(command_queue[d])]
<1> SUFFICES ASSUME SessionInvariant, [Next]_vars
             PROVE  [Direct!Next]_<<views, lengths, faults > 0>>
  OBVIOUS
<1>1. TypeOK /\ WireTypeOK /\ ClientTypeOK /\ QueuesType /\ HeldStreamsAreOwn /\ NodeRuns
  BY DEF SessionInvariant, GatewayInvariant, TypeOK, WireTypeOK, ClientTypeOK, QueuesType
<1>2. TypeOK'
  BY NextInvariant DEF SessionInvariant, GatewayInvariant
<1>3. CASE UNCHANGED vars
  <2>1. UNCHANGED <<up, faults, command_queue, sessions, opened, forwarded>>
    BY <1>3 DEF vars, wire, clients, client, bridge, node
  <2>2. \A d \in Device : View(d)' = View(d)
    BY <2>1, ViewsKept, Untouched, SameView
  <2> QED
    BY <2>1, <2>2
<1>4. CASE faults' # 0
  <2>1. (faults > 0)'
    BY <1>2, <1>4 DEF TypeOK, WireTypeOK
  <2> QED
    BY <2>1 DEF Direct!Next, Direct!Disturb
<1>5. CASE Next /\ faults' = 0
  <2>1. faults = 0 /\ node_running /\ UNCHANGED (faults > 0)
    BY <1>1, <1>5, Undisturbed DEF NodeRuns
  <2>2. ASSUME NEW d \in Device, ApplicationCall(d), UNCHANGED bridge
        PROVE  Direct!Next
    <3>1. PICK c \in AviCommand :
             /\ Len(command_queue[d]) < QueueSize
             /\ command_queue' = [command_queue EXCEPT ![d] = Append(command_queue[d], c)]
             /\ Packet(d, c) \in UplinkMessage
             /\ Outstanding(d)' = Append(Outstanding(d), Packet(d, c))
             /\ \A e \in Device \ {d} : Outstanding(e)' = Outstanding(e)
             /\ \A e \in Device : SessionView(e)' = SessionView(e)
      BY <1>1, <2>2, CallView
    <3>2. \A e \in Device \ {d} : View(e)' = View(e)
      BY <3>1, SameView
    <3>3. View(d)' = Effect(View(d), Packet(d, c))
      <4>1. Outstanding(d) \in Seq(UplinkMessage)
        BY <1>1, OutstandingType
      <4>2. View(d)' = After(SessionView(d)', Outstanding(d)')
        BY DEF View, After
      <4>3. After(SessionView(d), Append(Outstanding(d), Packet(d, c)))
               = Effect(After(SessionView(d), Outstanding(d)), Packet(d, c))
        BY <3>1, <4>1, AfterAppend
      <4> QED
        BY <3>1, <4>2, <4>3, OutstandingIs
    <3>4. views' = [views EXCEPT ![d] = Direct!Effect(@, Packet(d, c))]
      BY <3>2, <3>3, DirectEffect
    <3>5. lengths' = [lengths EXCEPT ![d] = @ + 1] /\ lengths[d] < QueueSize
      <4>1. command_queue[d] \in Seq(AviCommand)
        BY <1>1 DEF QueuesType
      <4>2. Len(Append(command_queue[d], c)) = Len(command_queue[d]) + 1
        BY <4>1, AppendProperties
      <4>3. \A e \in Device : Len(command_queue'[e])
                                 = IF e = d THEN Len(command_queue[d]) + 1 ELSE Len(command_queue[e])
        BY <1>1, <3>1, <4>2 DEF QueuesType
      <4> QED
        BY <3>1, <4>3
    <3> HIDE DEF views, lengths
    <3>6. Direct!Accept(d, Packet(d, c))
      BY <2>1, <3>4, <3>5 DEF Direct!Accept, views, lengths
    <3> QED
      BY <3>1, <3>6 DEF Direct!Next
  <2>3. ASSUME NEW d \in Device, ProcessCommand(d), UNCHANGED bridge
        PROVE  Direct!Next
    <3>1. views' = views
      BY <1>1, <2>3, SendView, SameView
    <3>2. lengths' = [lengths EXCEPT ![d] = @ - 1] /\ lengths[d] > 0
      <4>1. command_queue[d] \in Seq(AviCommand) /\ command_queue[d] # <<>>
        BY <1>1, <2>3 DEF QueuesType, ProcessCommand
      <4>2. /\ Len(Tail(command_queue[d])) = Len(command_queue[d]) - 1
            /\ Len(command_queue[d]) > 0
        BY <4>1, HeadTailProperties, LenProperties, EmptySeq
      <4>3. \A e \in Device : Len(command_queue'[e])
                                 = IF e = d THEN Len(command_queue[d]) - 1 ELSE Len(command_queue[e])
        BY <1>1, <2>3, <4>2 DEF QueuesType, ProcessCommand
      <4> QED
        BY <4>2, <4>3
    <3> HIDE DEF views, lengths
    <3>3. Direct!Send(d)
      BY <2>1, <3>1, <3>2 DEF Direct!Send, views, lengths
    <3> QED
      BY <3>3 DEF Direct!Next
  <2>4. ASSUME NEW d \in Device, UplinkStep(d), UNCHANGED <<clients, careless>>
        PROVE  views' = views /\ lengths' = lengths
    <3>1. /\ Outstanding(d) # <<>>
          /\ Outstanding(d)' = Tail(Outstanding(d))
          /\ SessionView(d)' = Effect(SessionView(d), Head(Outstanding(d)))
          /\ \A e \in Device \ {d} : /\ Outstanding(e)' = Outstanding(e)
                                     /\ SessionView(e)' = SessionView(e)
      BY <1>1, <2>1, <2>4, TakeView
    <3>2. View(d)' = View(d)
      <4>1. Outstanding(d) \in Seq(UplinkMessage)
        BY <1>1, OutstandingType
      <4>2. View(d)' = After(SessionView(d)', Outstanding(d)')
        BY DEF View, After
      <4> QED
        BY <3>1, <4>1, <4>2, AfterHead, OutstandingIs
    <3>3. \A e \in Device \ {d} : View(e)' = View(e)
      BY <3>1, SameView
    <3> QED
      BY <2>4, <3>2, <3>3 DEF clients, client
  <2>5. ASSUME Aside PROVE views' = views /\ lengths' = lengths
    <3>1. \A e \in Device : View(e)' = View(e)
      BY <2>5, AsideKeepsViews, SameView
    <3> QED
      BY <2>5, <3>1 DEF Aside
  <2> HIDE DEF views, lengths
  <2>6. Direct!Next \/ (views' = views /\ lengths' = lengths)
    BY <1>1, <1>5, <2>2, <2>3, <2>4, <2>5, Undisturbed
  <2> QED
    BY <2>1, <2>6
<1> QED
  BY <1>3, <1>4, <1>5

(* While nothing is lost, doubled, overtaken, stopped or restarted, the    *)
(* library, the wire and the bridge together do what each accepted call    *)
(* says, in the order of the calls and once (the C API, poll and the       *)
(* uplink task).                                                           *)
THEOREM CallsAct == Spec => CallsActDirectly
<1>1. Init => Direct!Init
  BY DirectInit
<1>2. SessionInvariant /\ [Next]_vars =>
         [Direct!Next]_<<[d \in Device |-> View(d)], [d \in Device |-> Len(command_queue[d])],
                         faults > 0>>
  BY DirectNext
<1> QED
  BY <1>1, <1>2, SessionInvariantHolds, PTL DEF Spec, CallsActDirectly, Direct!Spec
=============================================================================

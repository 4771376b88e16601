---------------------------- MODULE AgentLoopProofs ----------------------------
(***************************************************************************)
(* Proofs about AgentLoop, for any bounds: its types; every message that   *)
(* was handed over is kept, in its order; what is sent to the provider is  *)
(* the transcript without the replies the run recovered from, and answers  *)
(* every call; tools settle, and results tell the truth about them.        *)
(*                                                                         *)
(* The provers have no induction over sequences.  The first section gets   *)
(* one from a fact about finite sets, and proves with it what FlattenSeq   *)
(* and Picked, which are defined by recursion, return.                     *)
(***************************************************************************)
EXTENDS AgentLoop, FiniteSetTheorems, SequenceTheorems, TLAPS

-----------------------------------------------------------------------------
(***************************************************************************)
(* Induction and sequences.                                                *)
(***************************************************************************)

(* A set of numbers that has zero and all successors is all of them: the *)
(* successor would map the part below a missing number, a finite set,    *)
(* one-to-one into itself without zero.                                  *)
LEMMA SetInduction ==
  ASSUME NEW P \in SUBSET Nat, 0 \in P, \A n \in P : n + 1 \in P
  PROVE  P = Nat
<1> SUFFICES ASSUME NEW k \in Nat, k \notin P PROVE FALSE
  OBVIOUS
<1> DEFINE T == P \cap (0 .. k)
           f == [n \in T |-> n + 1]
<1>1. IsFiniteSet(T)
  <2>1. IsFiniteSet(0 .. k)
    BY FS_Interval
  <2> QED BY <2>1, FS_Subset
<1>2. f \in [T -> T \ {0}]
  <2> SUFFICES ASSUME NEW n \in T PROVE n + 1 \in T \ {0}
    OBVIOUS
  <2>1. n \in Nat /\ n # k /\ n \in 0 .. k
    OBVIOUS
  <2> QED BY <2>1
<1>3. f \in Injection(T, T \ {0})
  BY <1>2 DEF Injection, IsInjective
<1>4. 0 \in T
  OBVIOUS
<1> HIDE DEF f, T
<1>5. IsFiniteSet(T \ {0}) /\ Cardinality(T \ {0}) = Cardinality(T) - 1
  BY <1>1, <1>4, FS_RemoveElement
<1>6. Cardinality(T) \in Nat
  BY <1>1, FS_CardinalityType
<1>7. Cardinality(T) <= Cardinality(T \ {0})
  BY <1>3, <1>5, FS_Injection
<1> QED BY <1>5, <1>6, <1>7

(* g is the function that FlattenSeq defines by recursion, up to n.      *)
Flattens(g, q, n) ==
  \A i \in 1 .. n : g[i] = IF i = 1 THEN q[i] ELSE g[i - 1] \o q[i]

(* There is such a function, and its values are sequences.               *)
LEMMA FlatteningExists ==
  ASSUME NEW S, NEW q \in Seq(Seq(S))
  PROVE  \E g \in [1 .. Len(q) -> Seq(S)] : Flattens(g, q, Len(q))
<1> DEFINE P == {n \in Nat : n <= Len(q) => \E g \in [1 .. n -> Seq(S)] : Flattens(g, q, n)}
<1>1. 0 \in P
  <2>1. [i \in 1 .. 0 |-> << >>] \in [1 .. 0 -> Seq(S)] /\ Flattens([i \in 1 .. 0 |-> << >>], q, 0)
    BY DEF Flattens
  <2> QED BY <2>1
<1>2. ASSUME NEW n \in P PROVE n + 1 \in P
  <2> SUFFICES ASSUME n + 1 <= Len(q)
               PROVE  \E g \in [1 .. n + 1 -> Seq(S)] : Flattens(g, q, n + 1)
    OBVIOUS
  <2>1. PICK g \in [1 .. n -> Seq(S)] : Flattens(g, q, n)
    OBVIOUS
  <2>2. n + 1 \in DOMAIN q /\ q[n + 1] \in Seq(S)
    OBVIOUS
  <2> DEFINE end == IF n = 0 THEN q[n + 1] ELSE g[n] \o q[n + 1]
             h == [i \in 1 .. n + 1 |-> IF i = n + 1 THEN end ELSE g[i]]
  <2>3. end \in Seq(S)
    <3>1. CASE n = 0
      BY <2>2, <3>1
    <3>2. CASE n # 0
      <4>1. g[n] \in Seq(S)
        BY <3>2
      <4> QED BY <2>2, <3>2, <4>1
    <3> QED BY <3>1, <3>2
  <2>4. h \in [1 .. n + 1 -> Seq(S)]
    <3> HIDE DEF end
    <3> QED BY <2>3
  <2>5. Flattens(h, q, n + 1)
    <3> SUFFICES ASSUME NEW i \in 1 .. n + 1
                 PROVE  h[i] = IF i = 1 THEN q[i] ELSE h[i - 1] \o q[i]
      BY DEF Flattens
    <3>1. CASE i = n + 1
      <4>1. h[i] = end /\ (i # 1 => h[i - 1] = g[n])
        BY <3>1
      <4> QED BY <3>1, <4>1
    <3>2. CASE i # n + 1
      <4>1. i \in 1 .. n /\ h[i] = g[i] /\ (i # 1 => h[i - 1] = g[i - 1])
        BY <3>2
      <4> HIDE DEF h
      <4> QED BY <2>1, <4>1 DEF Flattens
    <3> QED BY <3>1, <3>2
  <2> HIDE DEF h
  <2> QED BY <2>4, <2>5
<1> HIDE DEF P
<1>3. P = Nat
  <2>1. P \in SUBSET Nat
    BY DEF P
  <2> QED BY <1>1, <1>2, <2>1, SetInduction
<1>4. Len(q) \in P
  BY <1>3
<1> QED BY <1>4 DEF P

Agree(q, r, n) == \A i \in 1 .. n : q[i] = r[i]

(* Two such functions agree as far as their sequences do.                *)
LEMMA FlatteningUnique ==
  ASSUME NEW g, NEW h, NEW q, NEW r, NEW n \in Nat, Flattens(g, q, n), Flattens(h, r, n),
         Agree(q, r, n)
  PROVE  Agree(g, h, n)
<1> DEFINE P == {m \in Nat : \A i \in 1 .. n : i <= m => g[i] = h[i]}
<1>1. 0 \in P
  OBVIOUS
<1>2. ASSUME NEW m \in P PROVE m + 1 \in P
  <2> SUFFICES ASSUME m + 1 \in 1 .. n PROVE g[m + 1] = h[m + 1]
    OBVIOUS
  <2>1. m # 0 => g[m] = h[m]
    OBVIOUS
  <2> QED BY <2>1 DEF Flattens, Agree
<1> HIDE DEF P
<1>3. P = Nat
  <2>1. P \in SUBSET Nat
    BY DEF P
  <2> QED BY <1>1, <1>2, <2>1, SetInduction
<1> QED BY <1>3 DEF P, Agree

(* FlattenSeq is the last value of such a function.                      *)
LEMMA FlattenSeqValue ==
  ASSUME NEW S, NEW q \in Seq(Seq(S)), q # << >>
  PROVE  \E g \in [1 .. Len(q) -> Seq(S)] : Flattens(g, q, Len(q)) /\ FlattenSeq(q) = g[Len(q)]
<1> DEFINE Is(g) == g = [i \in 1 .. Len(q) |-> IF i = 1 THEN q[i] ELSE g[i - 1] \o q[i]]
           chosen == CHOOSE g : Is(g)
<1>1. PICK g \in [1 .. Len(q) -> Seq(S)] : Flattens(g, q, Len(q))
  BY FlatteningExists
<1>2. Is(g)
  BY <1>1 DEF Flattens
<1>3. Is(chosen)
  <2> HIDE DEF Is
  <2> QED BY <1>2
<1>4. Flattens(chosen, q, Len(q))
  BY <1>3 DEF Flattens
<1>5. FlattenSeq(q) = chosen[Len(q)]
  BY DEF FlattenSeq
<1> HIDE DEF chosen
<1>6. Len(q) \in Nat /\ Len(q) \in 1 .. Len(q)
  OBVIOUS
<1>7. chosen[Len(q)] = g[Len(q)]
  <2>1. Agree(q, q, Len(q))
    BY DEF Agree
  <2>2. Agree(chosen, g, Len(q))
    BY <1>1, <1>4, <1>6, <2>1, FlatteningUnique
  <2> QED BY <1>6, <2>2 DEF Agree
<1> QED BY <1>1, <1>5, <1>7

(* FlattenSeq of no sequences, and of one more sequence.                 *)
LEMMA FlattenSeqAppend ==
  /\ FlattenSeq(<< >>) = << >>
  /\ \A S : \A q \in Seq(Seq(S)), s \in Seq(S) :
       /\ FlattenSeq(q) \in Seq(S)
       /\ FlattenSeq(Append(q, s)) = FlattenSeq(q) \o s
<1>1. FlattenSeq(<< >>) = << >>
  BY DEF FlattenSeq
<1>2. ASSUME NEW S, NEW q \in Seq(Seq(S)) PROVE FlattenSeq(q) \in Seq(S)
  <2>1. CASE q = << >>
    <3>1. FlattenSeq(q) = << >>
      BY <1>1, <2>1
    <3>2. << >> \in Seq(S)
      OBVIOUS
    <3> QED BY <3>1, <3>2
  <2>2. CASE q # << >>
    <3>1. Len(q) \in 1 .. Len(q)
      BY <2>2
    <3>2. PICK g \in [1 .. Len(q) -> Seq(S)] : FlattenSeq(q) = g[Len(q)]
      BY <2>2, FlattenSeqValue
    <3> QED BY <3>1, <3>2
  <2> QED BY <2>1, <2>2
<1>3. ASSUME NEW S, NEW q \in Seq(Seq(S)), NEW s \in Seq(S)
      PROVE  FlattenSeq(Append(q, s)) = FlattenSeq(q) \o s
  <2> DEFINE r == Append(q, s)
             n == Len(q)
  <2>1. /\ r \in Seq(Seq(S)) /\ r # << >> /\ Len(r) = n + 1 /\ n \in Nat
        /\ r[n + 1] = s /\ \A i \in 1 .. n : r[i] = q[i]
    <3> DEFINE T == Seq(S)
    <3> HIDE DEF T
    <3>1. q \in Seq(T) /\ s \in T
      BY DEF T
    <3>2. /\ r \in Seq(T) /\ Len(r) = n + 1 /\ n \in Nat
          /\ r[n + 1] = s /\ \A i \in 1 .. n : r[i] = q[i]
      BY <3>1, AppendProperties
    <3>3. r # << >>
      BY <3>2
    <3> QED BY <3>2, <3>3 DEF T
  <2> HIDE DEF r, n
  <2>2. PICK h \in [1 .. Len(r) -> Seq(S)] : Flattens(h, r, Len(r)) /\ FlattenSeq(r) = h[Len(r)]
    BY <2>1, FlattenSeqValue
  <2>3. FlattenSeq(r) = IF n = 0 THEN s ELSE h[n] \o s
    <3> DEFINE m == n + 1
    <3>1. m \in 1 .. Len(r) /\ (m = 1 <=> n = 0) /\ m - 1 = n /\ r[m] = s /\ m = Len(r)
      BY <2>1
    <3> HIDE DEF m
    <3>2. \A i \in 1 .. Len(r) : h[i] = IF i = 1 THEN r[i] ELSE h[i - 1] \o r[i]
      BY <2>2 DEF Flattens
    <3>3. h[m] = IF m = 1 THEN r[m] ELSE h[m - 1] \o r[m]
      BY <3>1, <3>2
    <3> QED BY <2>2, <3>1, <3>3
  <2>4. CASE n = 0
    <3>1. q = << >>
      BY <2>4 DEF n
    <3>2. << >> \o s = s
      OBVIOUS
    <3> QED BY <1>1, <2>3, <2>4, <3>1, <3>2 DEF r
  <2>5. CASE n # 0
    <3>1. q # << >> /\ Len(q) = n
      BY <2>5 DEF n
    <3>2. PICK g \in [1 .. n -> Seq(S)] : Flattens(g, q, n) /\ FlattenSeq(q) = g[n]
      BY <3>1, FlattenSeqValue
    <3>3. Flattens(h, r, n)
      <4>1. \A i \in 1 .. n : i \in 1 .. Len(r)
        BY <2>1
      <4> QED BY <2>2, <4>1 DEF Flattens
    <3>4. Agree(h, g, n)
      <4>1. n \in Nat /\ Flattens(g, q, n) /\ Agree(r, q, n)
        BY <2>1, <3>2 DEF Agree
      <4> QED BY <3>3, <4>1, FlatteningUnique
    <3>5. n \in 1 .. n
      BY <2>1, <2>5
    <3>6. h[n] = FlattenSeq(q)
      BY <3>2, <3>4, <3>5 DEF Agree
    <3> QED BY <2>3, <2>5, <3>6 DEF r
  <2> QED BY <2>4, <2>5
<1> QED BY <1>1, <1>2, <1>3

(* The elements of F are those of q's sequences: the k-th one stands at  *)
(* b[k] in the sequence a[k], and they keep their order.                 *)
Lists(F, q, a, b) ==
  /\ \A k \in 1 .. Len(F) :
       a[k] \in 1 .. Len(q) /\ b[k] \in 1 .. Len(q[a[k]]) /\ F[k] = q[a[k]][b[k]]
  /\ \A k, l \in 1 .. Len(F) : k < l => a[k] < a[l] \/ (a[k] = a[l] /\ b[k] < b[l])
  /\ \A n \in 1 .. Len(q) : \A i \in 1 .. Len(q[n]) :
       \E k \in 1 .. Len(F) : a[k] = n /\ b[k] = i

(* One more sequence puts its elements behind.                           *)
LEMMA ListsAppend ==
  ASSUME NEW S, NEW q \in Seq(Seq(S)), NEW s \in Seq(S), NEW F \in Seq(S),
         NEW a, NEW b, Lists(F, q, a, b)
  PROVE  \E c, d : Lists(F \o s, Append(q, s), c, d)
<1> DEFINE T == Seq(S)
           r == Append(q, s)
           m == Len(q) + 1
           f == Len(F)
           G == F \o s
           c == [k \in 1 .. f + Len(s) |-> IF k <= f THEN a[k] ELSE m]
           d == [k \in 1 .. f + Len(s) |-> IF k <= f THEN b[k] ELSE k - f]
<1>1. /\ Len(q) \in Nat /\ m \in Nat /\ Len(r) = m /\ r[m] = s
      /\ \A n \in 1 .. Len(q) : r[n] = q[n]
      /\ \A n \in 1 .. m : n = m \/ n \in 1 .. Len(q)
      /\ m \in 1 .. Len(r) /\ \A n \in 1 .. Len(q) : n \in 1 .. Len(r)
  <2>1. q \in Seq(T) /\ s \in T
    OBVIOUS
  <2> HIDE DEF T
  <2>2. /\ Len(r) = Len(q) + 1 /\ r[Len(q) + 1] = s /\ \A n \in 1 .. Len(q) : r[n] = q[n]
    BY <2>1, AppendProperties
  <2>3. Len(q) \in Nat
    BY <2>1, LenProperties
  <2> QED BY <2>2, <2>3
<1>2. /\ f \in Nat /\ Len(s) \in Nat /\ Len(G) = f + Len(s)
      /\ \A k \in 1 .. f : G[k] = F[k]
      /\ \A k \in 1 .. Len(s) : G[f + k] = s[k]
  BY ConcatProperties
<1>3. /\ \A k \in 1 .. Len(G) : IF k <= f THEN c[k] = a[k] /\ d[k] = b[k] /\ k \in 1 .. f
                                ELSE c[k] = m /\ d[k] = k - f /\ k - f \in 1 .. Len(s)
  BY <1>2
<1>4. \A k \in 1 .. f : a[k] \in 1 .. Len(q) /\ a[k] < m
  BY <1>1 DEF Lists
<1> HIDE DEF T, r, m, f, G, c, d
<1>5. ASSUME NEW k \in 1 .. Len(G)
      PROVE  c[k] \in 1 .. Len(r) /\ d[k] \in 1 .. Len(r[c[k]]) /\ G[k] = r[c[k]][d[k]]
  <2>1. CASE k <= f
    <3>1. k \in 1 .. Len(F) /\ c[k] = a[k] /\ d[k] = b[k] /\ G[k] = F[k]
      BY <1>2, <1>3, <2>1 DEF f
    <3>2. a[k] \in 1 .. Len(q) /\ b[k] \in 1 .. Len(q[a[k]]) /\ F[k] = q[a[k]][b[k]]
      BY <3>1 DEF Lists
    <3>3. a[k] \in 1 .. Len(r) /\ r[a[k]] = q[a[k]]
      BY <1>1, <3>2
    <3> QED BY <3>1, <3>2, <3>3
  <2>2. CASE ~(k <= f)
    <3>1. c[k] = m /\ d[k] = k - f /\ k - f \in 1 .. Len(s)
      BY <1>3, <2>2
    <3>2. G[k] = s[k - f]
      <4>1. G[f + (k - f)] = s[k - f] /\ f + (k - f) = k
        BY <1>2, <3>1
      <4> QED BY <4>1
    <3>3. c[k] \in 1 .. Len(r) /\ r[c[k]] = s
      BY <1>1, <3>1
    <3> QED BY <3>1, <3>2, <3>3
  <2> QED BY <2>1, <2>2
<1>6. ASSUME NEW k \in 1 .. Len(G), NEW l \in 1 .. Len(G), k < l
      PROVE  c[k] < c[l] \/ (c[k] = c[l] /\ d[k] < d[l])
  <2>1. CASE l <= f
    <3>1. k <= f
      BY <1>2, <2>1, <1>6
    <3> QED BY <1>3, <1>6, <2>1, <3>1 DEF Lists, f
  <2>2. CASE ~(l <= f)
    <3>1. CASE k <= f
      BY <1>3, <1>4, <2>2, <3>1
    <3>2. CASE ~(k <= f)
      BY <1>2, <1>3, <1>6, <2>2, <3>2
    <3> QED BY <3>1, <3>2
  <2> QED BY <2>1, <2>2
<1>7. ASSUME NEW n \in 1 .. Len(r), NEW i \in 1 .. Len(r[n])
      PROVE  \E k \in 1 .. Len(G) : c[k] = n /\ d[k] = i
  <2>1. CASE n = m
    <3>0. i \in 1 .. Len(s)
      BY <1>1, <2>1
    <3> DEFINE k == f + i
    <3>1. k \in 1 .. Len(G) /\ ~(k <= f) /\ k - f = i
      BY <1>2, <3>0
    <3> HIDE DEF k
    <3> QED BY <1>3, <2>1, <3>1
  <2>2. CASE n # m
    <3>1. n \in 1 .. Len(q) /\ i \in 1 .. Len(q[n])
      BY <1>1, <1>7, <2>2
    <3>2. PICK k \in 1 .. f : a[k] = n /\ b[k] = i
      BY <3>1 DEF Lists, f
    <3>3. k \in 1 .. Len(G) /\ k <= f
      BY <1>2
    <3> QED BY <1>3, <3>2, <3>3
  <2> QED BY <2>1, <2>2
<1>8. Lists(G, r, c, d)
  BY <1>5, <1>6, <1>7 DEF Lists
<1> QED BY <1>8 DEF G, r

(* FlattenSeq lists the elements of its sequences.                       *)
LEMMA FlattenSeqLists ==
  \A S : \A q \in Seq(Seq(S)) : \E a, b : Lists(FlattenSeq(q), q, a, b)
<1> SUFFICES ASSUME NEW S, NEW u \in Seq(Seq(S))
             PROVE  \E a, b : Lists(FlattenSeq(u), u, a, b)
  OBVIOUS
<1> DEFINE T == Seq(S)
           P == {n \in Nat : \A q \in Seq(T) :
                               Len(q) = n => \E a, b : Lists(FlattenSeq(q), q, a, b)}
<1>0. u \in Seq(T)
  OBVIOUS
<1>1. 0 \in P
  <2> SUFFICES ASSUME NEW q \in Seq(T), Len(q) = 0
               PROVE  \E a, b : Lists(FlattenSeq(q), q, a, b)
    OBVIOUS
  <2>1. q = << >>
    BY EmptySeq
  <2>2. FlattenSeq(q) = << >> /\ Len(<< >>) = 0
    BY <2>1, FlattenSeqAppend
  <2>3. Lists(<< >>, << >>, << >>, << >>)
    BY <2>2 DEF Lists
  <2> QED BY <2>1, <2>2, <2>3
<1>2. ASSUME NEW n \in P PROVE n + 1 \in P
  <2> SUFFICES ASSUME NEW q \in Seq(T), Len(q) = n + 1
               PROVE  \E a, b : Lists(FlattenSeq(q), q, a, b)
    OBVIOUS
  <2> HIDE DEF T
  <2>1. q # << >>
    BY EmptySeq
  <2>2. PICK r \in Seq(T), s \in T : q = Append(r, s)
    BY <2>1, SequenceEmptyOrAppend
  <2>3. Len(q) = Len(r) + 1 /\ Len(r) \in Nat
    BY <2>2, AppendProperties, LenProperties
  <2>4. Len(r) = n
    BY <2>3
  <2>5. PICK a, b : Lists(FlattenSeq(r), r, a, b)
    BY <2>4
  <2>6. FlattenSeq(r) \in Seq(S) /\ FlattenSeq(q) = FlattenSeq(r) \o s /\ s \in Seq(S)
        /\ r \in Seq(Seq(S))
    BY <2>2, FlattenSeqAppend DEF T
  <2> HIDE DEF P
  <2>7. \E c, d : Lists(FlattenSeq(r) \o s, Append(r, s), c, d)
    BY <2>5, <2>6, ListsAppend
  <2> QED BY <2>2, <2>6, <2>7
<1> HIDE DEF P
<1>3. P = Nat
  <2>1. P \in SUBSET Nat
    BY DEF P
  <2> QED BY <1>1, <1>2, <2>1, SetInduction
<1>4. Len(u) \in P
  BY <1>0, <1>3, LenProperties
<1> QED BY <1>0, <1>4 DEF P

(* What Picked flattens: a sequence for every place of s.                *)
Ones(s, T) == [i \in DOMAIN s |-> IF i \in T THEN << s[i] >> ELSE << >>]

(* The sequences of one message or none that Picked flattens.            *)
LEMMA OnesSeq ==
  ASSUME NEW S, NEW s \in Seq(S), NEW T
  PROVE  /\ Ones(s, T) \in Seq(Seq(S)) /\ Len(Ones(s, T)) = Len(s)
         /\ \A i \in 1 .. Len(s) : Ones(s, T)[i] = IF i \in T THEN << s[i] >> ELSE << >>
<1> DEFINE D == Seq(S)
           u == Ones(s, T)
           n == Len(s)
<1>1. n \in Nat /\ DOMAIN s = 1 .. n
  BY LenProperties
<1>2. ASSUME NEW i \in 1 .. n PROVE (IF i \in T THEN << s[i] >> ELSE << >>) \in D
  BY <1>2, ElementOfSeq
<1> HIDE DEF D, n
<1>3. u \in [1 .. n -> D] /\ \A i \in 1 .. n : u[i] = IF i \in T THEN << s[i] >> ELSE << >>
  BY <1>1, <1>2 DEF Ones
<1> HIDE DEF u
<1>4. u \in Seq(D) /\ Len(u) = n
  BY <1>1, <1>3, IsASeq
<1> QED BY <1>3, <1>4 DEF D, u, n

(* The elements of s at the positions of T, in their order, stand at     *)
(* those positions in s.                                                 *)
At(F, s, T, p) ==
  /\ \A k \in 1 .. Len(F) : p[k] \in 1 .. Len(s) /\ p[k] \in T /\ F[k] = s[p[k]]
  /\ \A k, l \in 1 .. Len(F) : k < l => p[k] < p[l]
  /\ \A i \in 1 .. Len(s) : i \in T => \E k \in 1 .. Len(F) : p[k] = i

(* What is picked stands in s at the places p, in their order.           *)
LEMMA PickedPlaces ==
  ASSUME NEW S, NEW s \in Seq(S), NEW T
  PROVE  Picked(s, T) \in Seq(S) /\ \E p : At(Picked(s, T), s, T, p)
<1> DEFINE u == Ones(s, T)
           F == Picked(s, T)
<1>1. u \in Seq(Seq(S)) /\ Len(u) = Len(s) /\ F = FlattenSeq(u)
  BY OnesSeq DEF Picked, Ones
<1>2. F \in Seq(S)
  BY <1>1, FlattenSeqAppend
<1>3. PICK a, b : Lists(F, u, a, b)
  BY <1>1, FlattenSeqLists
<1>4. \A i \in 1 .. Len(s) :
        /\ i \in T => Len(u[i]) = 1 /\ u[i][1] = s[i] /\ 1 \in 1 .. Len(u[i])
        /\ i \notin T => Len(u[i]) = 0 /\ 1 .. Len(u[i]) = {}
  <2> SUFFICES ASSUME NEW i \in 1 .. Len(s)
               PROVE  /\ i \in T => Len(u[i]) = 1 /\ u[i][1] = s[i] /\ 1 \in 1 .. Len(u[i])
                      /\ i \notin T => Len(u[i]) = 0 /\ 1 .. Len(u[i]) = {}
    OBVIOUS
  <2>1. u[i] = IF i \in T THEN << s[i] >> ELSE << >>
    BY OnesSeq
  <2> HIDE DEF u
  <2> QED BY <2>1
<1> HIDE DEF u, F
<1>5. ASSUME NEW k \in 1 .. Len(F)
      PROVE  a[k] \in 1 .. Len(s) /\ a[k] \in T /\ F[k] = s[a[k]] /\ b[k] = 1
  <2>1. a[k] \in 1 .. Len(s) /\ b[k] \in 1 .. Len(u[a[k]]) /\ F[k] = u[a[k]][b[k]]
    BY <1>1, <1>3 DEF Lists
  <2>2. a[k] \in T
    BY <1>4, <2>1
  <2>3. b[k] = 1
    BY <1>4, <2>1, <2>2
  <2> QED BY <1>4, <2>1, <2>2, <2>3
<1>6. ASSUME NEW k \in 1 .. Len(F), NEW l \in 1 .. Len(F), k < l PROVE a[k] < a[l]
  <2>1. b[k] = 1 /\ b[l] = 1
    BY <1>5
  <2> QED BY <1>3, <1>6, <2>1 DEF Lists
<1>7. ASSUME NEW i \in 1 .. Len(s), i \in T PROVE \E k \in 1 .. Len(F) : a[k] = i
  <2>1. i \in 1 .. Len(u) /\ 1 \in 1 .. Len(u[i])
    BY <1>1, <1>4, <1>7
  <2> QED BY <1>3, <2>1 DEF Lists
<1>8. At(F, s, T, a)
  BY <1>5, <1>6, <1>7 DEF At
<1> QED BY <1>2, <1>8 DEF F

(* Picked of nothing, and of one more element.                           *)
LEMMA PickedAppend ==
  /\ \A T : Picked(<< >>, T) = << >>
  /\ \A S, T, U : \A s \in Seq(S), x \in S :
       (\A i \in 1 .. Len(s) : i \in T <=> i \in U)
         => Picked(Append(s, x), U) =
              IF Len(s) + 1 \in U THEN Append(Picked(s, T), x) ELSE Picked(s, T)
<1>1. ASSUME NEW T PROVE Picked(<< >>, T) = << >>
  <2>1. << >> \in Seq({}) /\ Len(<< >>) = 0
    OBVIOUS
  <2>2. Ones(<< >>, T) = << >>
    <3>1. Ones(<< >>, T) \in Seq(Seq({})) /\ Len(Ones(<< >>, T)) = 0
      BY <2>1, OnesSeq
    <3> QED BY <3>1, EmptySeq
  <2> QED BY <2>2, FlattenSeqAppend DEF Picked, Ones
<1>2. ASSUME NEW S, NEW T, NEW U, NEW s \in Seq(S), NEW x \in S,
             \A i \in 1 .. Len(s) : i \in T <=> i \in U
      PROVE  Picked(Append(s, x), U) =
               IF Len(s) + 1 \in U THEN Append(Picked(s, T), x) ELSE Picked(s, T)
  <2> DEFINE r == Append(s, x)
             n == Len(s) + 1
             e == IF n \in U THEN << x >> ELSE << >>
             D == Seq(S)
  <2>1. /\ r \in Seq(S) /\ n \in Nat /\ Len(s) \in Nat /\ Len(r) = n /\ r[n] = x
        /\ \A i \in 1 .. Len(s) : r[i] = s[i]
        /\ \A i \in 1 .. n : i = n \/ (i \in 1 .. Len(s) /\ i # n)
        /\ n \in 1 .. n /\ \A i \in 1 .. Len(s) : i \in 1 .. n
    BY AppendProperties
  <2>2. e \in D
    BY ElementOfSeq
  <2>3. Ones(s, T) \in Seq(D) /\ Len(Ones(s, T)) = Len(s) /\ Len(s) + 1 = n
        /\ \A i \in 1 .. Len(s) : Ones(s, T)[i] = IF i \in T THEN << s[i] >> ELSE << >>
    BY OnesSeq
  <2>4. Ones(r, U) \in Seq(D) /\ Len(Ones(r, U)) = n
        /\ \A i \in 1 .. n : Ones(r, U)[i] = IF i \in U THEN << r[i] >> ELSE << >>
    <3> HIDE DEF r, n
    <3>1. Ones(r, U) \in Seq(D) /\ Len(Ones(r, U)) = Len(r)
          /\ \A i \in 1 .. Len(r) : Ones(r, U)[i] = IF i \in U THEN << r[i] >> ELSE << >>
      BY <2>1, OnesSeq
    <3> QED BY <2>1, <3>1
  <2>5. Ones(r, U)[n] = e /\ \A i \in 1 .. Len(s) : Ones(r, U)[i] = Ones(s, T)[i]
    <3> HIDE DEF D, r, n
    <3> QED BY <1>2, <2>1, <2>3, <2>4
  <2> HIDE DEF D, r, n, e
  <2>6. Ones(r, U) = Append(Ones(s, T), e)
    <3> DEFINE v == Append(Ones(s, T), e)
    <3>1. /\ v \in Seq(D) /\ Len(v) = n /\ v[n] = e
          /\ \A i \in 1 .. Len(s) : v[i] = Ones(s, T)[i]
      BY <2>2, <2>3, AppendProperties
    <3> HIDE DEF v
    <3>2. ASSUME NEW i \in 1 .. n PROVE Ones(r, U)[i] = v[i]
      <4>1. CASE i = n
        BY <2>5, <3>1, <4>1
      <4>2. CASE i # n
        <5>1. i \in 1 .. Len(s)
          BY <2>1, <4>2
        <5> QED BY <2>5, <3>1, <5>1
      <4> QED BY <4>1, <4>2
    <3>3. \A i \in 1 .. Len(v) : Ones(r, U)[i] = v[i]
      BY <3>1, <3>2
    <3>4. Len(Ones(r, U)) = Len(v)
      BY <2>4, <3>1
    <3>5. Ones(r, U) = v
      BY <2>4, <3>1, <3>3, <3>4, SeqEqual
    <3> QED BY <3>5 DEF v
  <2>7. Picked(r, U) = FlattenSeq(Ones(s, T)) \o e
    <3>1. Ones(s, T) \in Seq(Seq(S)) /\ e \in Seq(S)
      BY <2>2, <2>3 DEF D
    <3> QED BY <2>6, <3>1, FlattenSeqAppend DEF Picked, Ones
  <2>8. FlattenSeq(Ones(s, T)) = Picked(s, T) /\ Picked(s, T) \in Seq(S)
    BY PickedPlaces DEF Picked, Ones
  <2>9. CASE n \in U
    BY <2>7, <2>8, <2>9, AppendIsConcat DEF e, r, n
  <2>10. CASE n \notin U
    BY <2>7, <2>8, <2>10, ConcatEmptySeq DEF e, r, n
  <2> QED BY <2>9, <2>10 DEF n
<1> QED BY <1>1, <1>2

(* All of it.                                                            *)
LEMMA PickedAll ==
  ASSUME NEW S, NEW t \in Seq(S), NEW T, \A i \in 1 .. Len(t) : i \in T
  PROVE  Picked(t, T) = t
<1> DEFINE P == {n \in Nat : \A s \in Seq(S) : Len(s) = n /\ (\A i \in 1 .. n : i \in T)
                                                 => Picked(s, T) = s}
<1>1. 0 \in P
  <2> SUFFICES ASSUME NEW s \in Seq(S), Len(s) = 0 PROVE Picked(s, T) = s
    OBVIOUS
  <2>1. s = << >>
    BY EmptySeq
  <2> QED BY <2>1, PickedAppend
<1>2. ASSUME NEW n \in P PROVE n + 1 \in P
  <2> SUFFICES ASSUME NEW s \in Seq(S), Len(s) = n + 1, \A i \in 1 .. n + 1 : i \in T
               PROVE  Picked(s, T) = s
    OBVIOUS
  <2>1. s # << >>
    BY EmptySeq
  <2>2. PICK r \in Seq(S), x \in S : s = Append(r, x)
    BY <2>1, SequenceEmptyOrAppend
  <2>3. Len(r) = n /\ Len(r) + 1 \in T /\ \A i \in 1 .. n : i \in T
    BY <2>2, AppendProperties, LenProperties
  <2>4. Picked(r, T) = r
    BY <2>3
  <2> HIDE DEF P
  <2>5. Picked(Append(r, x), T) =
          IF Len(r) + 1 \in T THEN Append(Picked(r, T), x) ELSE Picked(r, T)
    BY PickedAppend
  <2> QED BY <2>2, <2>3, <2>4, <2>5
<1> HIDE DEF P
<1>3. P = Nat
  <2>1. P \in SUBSET Nat
    BY DEF P
  <2> QED BY <1>1, <1>2, <2>1, SetInduction
<1>4. Len(t) \in P
  BY <1>3, LenProperties
<1> QED BY <1>4 DEF P

-----------------------------------------------------------------------------
(***************************************************************************)
(* The invariant: types.                                                   *)
(***************************************************************************)

Vias == {"prompt", "steer", "followUp", "continuation"}
Stops == {"stop", "error", "aborted", "partial"}
Outcomes == {"none", "not_started", "completed", "failed", "outcome_unknown"}
Places == {"waiting", "announced", "ready", "admitting", "running", "publishing",
           "published", "rejected", "answered"}

UserMessage == [role : {"user"}, id : Nat \ {0}, via : Vias]
Reply == [role : {"assistant"}, id : Nat \ {0}, calls : Nat, stop : Stops]
Result == [role : {"toolResult"}, id : Nat \ {0}, call : Nat, outcome : Outcomes]
Message == UserMessage \union Reply \union Result
Batch == Seq(UserMessage)
Call == [at : Places, outcome : Outcomes]

Phases == {"idle", "init", "open", "firstPoll", "turn", "inject", "build", "prepare",
           "recovering", "streaming", "answered", "calling", "preparing", "executing",
           "answering", "turnEnd", "outcome", "poll", "polled", "followPoll", "followed",
           "continuation", "ending", "failing", "closing"}

(* The phases of a batch of calls. *)
Tooling == {"calling", "preparing", "executing", "answering"}

RunTypes ==
  /\ phase \in Phases /\ aborted \in BOOLEAN /\ more \in BOOLEAN /\ skipPoll \in BOOLEAN
  /\ retry \in {"none", "reprepared", "recovered"}
  /\ runFrom \in Nat /\ assistants \in Nat /\ ends \in Nat /\ faults \in Nat
  /\ runFrom <= assistants
  /\ phase \in Tooling \union {"streaming", "answered"} => assistants > 0

TalkTypes ==
  /\ transcript \in Seq(Message) /\ inbox \in Batch
  /\ steering \in Seq(Batch) /\ followUps \in Seq(Batch) /\ handed \in Nat

ContextTypes == context \in Seq(Message) /\ results \in Seq(Result)

CallTypes ==
  /\ call \in Seq(Call)
  /\ toolStarted \subseteq Nat \X Nat /\ toolFinished \subseteq toolStarted

(* What a message is, by its role.                                       *)
LEMMA MessageKinds ==
  ASSUME NEW m \in Message
  PROVE  /\ m.role \in {"user", "assistant", "toolResult"} /\ m.id \in Nat \ {0}
         /\ m.role = "user" => m \in UserMessage
         /\ m.role = "assistant" => m \in Reply
         /\ m.role = "toolResult" => m \in Result
  BY DEF Message, UserMessage, Reply, Result

(* The messages the actions make.                                        *)
LEMMA MessagesMade ==
  /\ \A n \in Nat \ {0}, v \in Vias : User(n, v) \in UserMessage
  /\ \A n \in Nat \ {0}, c \in Nat, s \in Stops : Assistant(n, c, s) \in Reply
  /\ \A n \in Nat \ {0}, i \in Nat, o \in Outcomes : ToolResult(n, i, o) \in Result
  BY DEF User, Assistant, ToolResult, UserMessage, Reply, Result

-----------------------------------------------------------------------------
(***************************************************************************)
(* Identities.                                                             *)
(***************************************************************************)

UserIds(t) == {t[i].id : i \in {k \in DOMAIN t : t[k].role = "user"}}

(* The identities of batches that are put together or taken apart.       *)
LEMMA BatchIds ==
  /\ Ids(<< >>) = {}
  /\ \A b \in Batch : b # << >> => Ids(b) = {Head(b).id} \union Ids(Tail(b))
  /\ \A b \in Batch : Ids(b) \subseteq Nat \ {0}
<1>1. Ids(<< >>) = {}
  BY DEF Ids
<1>2. ASSUME NEW b \in Batch, b # << >> PROVE Ids(b) = {Head(b).id} \union Ids(Tail(b))
  <2> DEFINE n == Len(b)
             r == Tail(b)
  <2>1. /\ n \in Nat \ {0} /\ DOMAIN b = 1 .. n /\ DOMAIN r = 1 .. (n - 1)
        /\ Head(b) = b[1] /\ \A i \in 1 .. (n - 1) : r[i] = b[i + 1]
    BY <1>2, EmptySeq, LenProperties, HeadTailProperties DEF Batch
  <2> HIDE DEF n, r
  <2>2. ASSUME NEW x \in Ids(b) PROVE x \in {Head(b).id} \union Ids(r)
    <3>1. PICK i \in 1 .. n : x = b[i].id
      BY <2>1 DEF Ids
    <3>2. CASE i = 1
      BY <2>1, <3>1, <3>2
    <3>3. CASE i # 1
      <4>1. i - 1 \in 1 .. (n - 1) /\ (i - 1) + 1 = i
        BY <2>1, <3>3
      <4>2. r[i - 1] = b[i]
        BY <2>1, <4>1
      <4> QED BY <2>1, <3>1, <4>1, <4>2 DEF Ids
    <3> QED BY <3>2, <3>3
  <2>3. ASSUME NEW x \in {Head(b).id} \union Ids(r) PROVE x \in Ids(b)
    <3>1. CASE x = Head(b).id
      <4>1. 1 \in 1 .. n
        BY <2>1
      <4> QED BY <2>1, <3>1, <4>1 DEF Ids
    <3>2. CASE x \in Ids(r)
      <4>1. PICK i \in 1 .. (n - 1) : x = r[i].id
        BY <2>1, <3>2 DEF Ids
      <4>2. i + 1 \in 1 .. n /\ x = b[i + 1].id
        BY <2>1, <4>1
      <4> QED BY <2>1, <4>2 DEF Ids
    <3> QED BY <2>3, <3>1, <3>2
  <2> QED BY <2>2, <2>3 DEF r
<1>3. ASSUME NEW b \in Batch PROVE Ids(b) \subseteq Nat \ {0}
  <2> SUFFICES ASSUME NEW i \in DOMAIN b PROVE b[i].id \in Nat \ {0}
    BY DEF Ids
  <2>1. b[i] \in UserMessage
    BY LenProperties, ElementOfSeq DEF Batch
  <2> QED BY <2>1 DEF UserMessage
<1> QED BY <1>1, <1>2, <1>3

(* The identities of a transcript with one more message.                 *)
LEMMA UserIdsAppend ==
  ASSUME NEW t \in Seq(Message), NEW m \in Message
  PROVE  UserIds(Append(t, m)) = UserIds(t) \union (IF m.role = "user" THEN {m.id} ELSE {})
<1> DEFINE r == Append(t, m)
           n == Len(t)
<1>1. /\ n \in Nat /\ DOMAIN t = 1 .. n /\ DOMAIN r = 1 .. (n + 1)
      /\ r[n + 1] = m /\ \A i \in 1 .. n : r[i] = t[i]
  BY AppendProperties, LenProperties
<1> HIDE DEF r, n
<1>2. ASSUME NEW x \in UserIds(r)
      PROVE  x \in UserIds(t) \union (IF m.role = "user" THEN {m.id} ELSE {})
  <2>1. PICK i \in 1 .. (n + 1) : r[i].role = "user" /\ x = r[i].id
    BY <1>1, <1>2 DEF UserIds
  <2>2. CASE i = n + 1
    BY <1>1, <2>1, <2>2
  <2>3. CASE i # n + 1
    <3>1. i \in 1 .. n
      BY <1>1, <2>3
    <3> QED BY <1>1, <2>1, <3>1 DEF UserIds
  <2> QED BY <2>2, <2>3
<1>3. ASSUME NEW x \in UserIds(t) \union (IF m.role = "user" THEN {m.id} ELSE {})
      PROVE  x \in UserIds(r)
  <2>1. CASE x \in UserIds(t)
    <3>1. PICK i \in 1 .. n : t[i].role = "user" /\ x = t[i].id
      BY <1>1, <2>1 DEF UserIds
    <3>2. i \in 1 .. (n + 1)
      BY <1>1
    <3> QED BY <1>1, <3>1, <3>2 DEF UserIds
  <2>2. CASE m.role = "user" /\ x = m.id
    <3>1. n + 1 \in 1 .. (n + 1)
      BY <1>1
    <3> QED BY <1>1, <2>2, <3>1 DEF UserIds
  <2> QED BY <1>3, <2>1, <2>2
<1> QED BY <1>2, <1>3 DEF r

(* A new batch has the next identities, in order.                        *)
LEMMA NewBatchMade ==
  ASSUME TalkTypes, NEW n \in Nat, NEW v \in Vias
  PROVE  /\ NewBatch(n, v) \in Batch /\ Len(NewBatch(n, v)) = n
         /\ \A i \in 1 .. n : NewBatch(n, v)[i].id = handed + i /\ NewBatch(n, v)[i].via = v
         /\ Ids(NewBatch(n, v)) = handed + 1 .. handed + n
<1> DEFINE b == NewBatch(n, v)
<1>1. handed \in Nat
  BY DEF TalkTypes
<1>2. \A i \in 1 .. n : User(handed + i, v) \in UserMessage
  BY <1>1, MessagesMade
<1>3. b \in [1 .. n -> UserMessage] /\ \A i \in 1 .. n : b[i] = User(handed + i, v)
  BY <1>2 DEF NewBatch
<1> HIDE DEF b
<1>4. b \in Batch /\ Len(b) = n /\ DOMAIN b = 1 .. n
  BY <1>3, IsASeq DEF Batch
<1>5. \A i \in 1 .. n : b[i].id = handed + i /\ b[i].via = v
  BY <1>3 DEF User
<1>6. Ids(b) = handed + 1 .. handed + n
  <2>1. ASSUME NEW x \in Ids(b) PROVE x \in handed + 1 .. handed + n
    <3>1. PICK i \in 1 .. n : x = b[i].id
      BY <1>4, <2>1 DEF Ids
    <3> QED BY <1>1, <1>5, <3>1
  <2>2. ASSUME NEW x \in handed + 1 .. handed + n PROVE x \in Ids(b)
    <3>1. x - handed \in 1 .. n /\ handed + (x - handed) = x
      BY <1>1
    <3>2. b[x - handed].id = x
      BY <1>5, <3>1
    <3> QED BY <1>4, <3>1, <3>2 DEF Ids
  <2> QED BY <2>1, <2>2
<1> QED BY <1>4, <1>5, <1>6 DEF b

(* Where an identity of a queue stands.                                  *)
LEMMA QueuedAt ==
  ASSUME NEW q \in Seq(Batch), NEW x
  PROVE  x \in QueuedIds(q) <=> \E a \in 1 .. Len(q) : x \in Ids(q[a])
<1>1. DOMAIN q = 1 .. Len(q)
  BY LenProperties
<1> QED BY <1>1 DEF QueuedIds

(* A batch of a queue.                                                   *)
LEMMA BatchOfQueue ==
  ASSUME NEW q \in Seq(Batch), NEW a \in 1 .. Len(q)
  PROVE  /\ q[a] \in Batch /\ DOMAIN q[a] = 1 .. Len(q[a]) /\ Len(q[a]) \in Nat
         /\ \A i \in 1 .. Len(q[a]) : q[a][i] \in UserMessage
<1>1. q[a] \in Batch
  BY ElementOfSeq
<1> QED BY <1>1, LenProperties, ElementOfSeq DEF Batch

(* What a drain takes and what it leaves.                                *)
LEMMA DrainedIds ==
  ASSUME NEW q \in Seq(Batch), NEW d \in Drained(q)
  PROVE  /\ d[1] \in Batch /\ d[2] \in Seq(Batch)
         /\ QueuedIds(q) = Ids(d[1]) \union QueuedIds(d[2])
<1>1. CASE q = << >>
  <2>1. d = << q, q >> /\ d[1] = << >> /\ d[2] = << >>
    BY <1>1 DEF Drained
  <2>2. QueuedIds(<< >>) = {} /\ << >> \in Batch
    BY DEF QueuedIds, Batch
  <2> QED BY <1>1, <2>1, <2>2, BatchIds
<1>2. CASE q # << >> /\ d = << Head(q), Tail(q) >>
  <2> DEFINE n == Len(q)
             r == Tail(q)
  <2>1. /\ n \in Nat \ {0} /\ r \in Seq(Batch) /\ Len(r) = n - 1 /\ Head(q) = q[1]
        /\ Head(q) \in Batch /\ \A a \in 1 .. (n - 1) : r[a] = q[a + 1]
    BY <1>2, EmptySeq, LenProperties, HeadTailProperties, ElementOfSeq
  <2>2. d[1] = q[1] /\ d[2] = r
    BY <1>2, <2>1
  <2> HIDE DEF n, r
  <2>3. ASSUME NEW x \in QueuedIds(q) PROVE x \in Ids(q[1]) \union QueuedIds(r)
    <3>1. PICK a \in 1 .. n : x \in Ids(q[a])
      BY <2>3, QueuedAt DEF n
    <3>2. CASE a = 1
      BY <3>1, <3>2
    <3>3. CASE a # 1
      <4>1. a - 1 \in 1 .. (n - 1) /\ (a - 1) + 1 = a
        BY <2>1, <3>3
      <4>2. r[a - 1] = q[a] /\ a - 1 \in 1 .. Len(r)
        BY <2>1, <4>1
      <4> QED BY <2>1, <3>1, <4>2, QueuedAt
    <3> QED BY <3>2, <3>3
  <2>4. ASSUME NEW x \in Ids(q[1]) \union QueuedIds(r) PROVE x \in QueuedIds(q)
    <3>1. CASE x \in Ids(q[1])
      <4>1. 1 \in 1 .. Len(q)
        BY <2>1 DEF n
      <4> QED BY <3>1, <4>1, QueuedAt
    <3>2. CASE x \in QueuedIds(r)
      <4>1. PICK a \in 1 .. (n - 1) : x \in Ids(r[a])
        BY <2>1, <3>2, QueuedAt
      <4>2. a + 1 \in 1 .. Len(q) /\ x \in Ids(q[a + 1])
        BY <2>1, <4>1 DEF n
      <4> QED BY <4>2, QueuedAt
    <3> QED BY <2>4, <3>1, <3>2
  <2> QED BY <2>1, <2>2, <2>3, <2>4
<1>3. CASE q # << >> /\ d = << FlattenSeq(q), << >> >>
  <2> DEFINE F == FlattenSeq(q)
  <2>0. q \in Seq(Seq(UserMessage))
    BY DEF Batch
  <2>1. F \in Batch /\ d[1] = F /\ d[2] = << >> /\ << >> \in Seq(Batch) /\ QueuedIds(<< >>) = {}
    BY <1>3, <2>0, FlattenSeqAppend DEF Batch, QueuedIds
  <2>2. DOMAIN F = 1 .. Len(F)
    BY <2>1, LenProperties DEF Batch
  <2>3. PICK a, b : Lists(F, q, a, b)
    BY <2>0, FlattenSeqLists
  <2> HIDE DEF F
  <2>4. ASSUME NEW x \in Ids(F) PROVE x \in QueuedIds(q)
    <3>1. PICK k \in 1 .. Len(F) : x = F[k].id
      BY <2>2, <2>4 DEF Ids
    <3>2. a[k] \in 1 .. Len(q) /\ b[k] \in 1 .. Len(q[a[k]]) /\ F[k] = q[a[k]][b[k]]
      BY <2>3 DEF Lists
    <3>3. x \in Ids(q[a[k]])
      BY <3>1, <3>2, BatchOfQueue DEF Ids
    <3> QED BY <3>2, <3>3, QueuedAt
  <2>5. ASSUME NEW x \in QueuedIds(q) PROVE x \in Ids(F)
    <3>1. PICK n \in 1 .. Len(q) : x \in Ids(q[n])
      BY <2>5, QueuedAt
    <3>2. PICK i \in 1 .. Len(q[n]) : x = q[n][i].id
      BY <3>1, BatchOfQueue DEF Ids
    <3>3. PICK k \in 1 .. Len(F) : a[k] = n /\ b[k] = i
      BY <2>3 DEF Lists
    <3>4. F[k] = q[n][i]
      BY <2>3, <3>3 DEF Lists
    <3> QED BY <2>2, <3>2, <3>4 DEF Ids
  <2> QED BY <2>1, <2>4, <2>5
<1> QED BY <1>1, <1>2, <1>3 DEF Drained

-----------------------------------------------------------------------------
(***************************************************************************)
(* The order of messages.                                                  *)
(***************************************************************************)

(* One message of a caller comes before another of its kind.             *)
Earlier(m, n) == m.role = "user" /\ n.role = "user" /\ m.via = n.via => m.id < n.id

Sorted(s) == \A i, j \in 1 .. Len(s) : i < j => Earlier(s[i], s[j])
Under(s, m) == \A i \in 1 .. Len(s) : Earlier(s[i], m)
Over(m, s) == \A i \in 1 .. Len(s) : Earlier(m, s[i])
Before(s, r) == \A i \in 1 .. Len(s), j \in 1 .. Len(r) : Earlier(s[i], r[j])
OfKind(s, v) == \A i \in 1 .. Len(s) : s[i].via = v

(* A queue q of kind v comes in order, behind the transcript t and the   *)
(* messages b that are taken.                                            *)
QueueOrder(t, b, q, v) ==
  /\ \A a \in 1 .. Len(q) : /\ Sorted(q[a]) /\ OfKind(q[a], v)
                            /\ Before(t, q[a]) /\ Before(b, q[a])
  /\ \A a, c \in 1 .. Len(q) : a < c => Before(q[a], q[c])

(* A message that stands behind another is not before it; only messages  *)
(* of callers have an order, and only those of one kind.                 *)
LEMMA EarlierOf ==
  /\ \A m, n : m.role # "user" \/ n.role # "user" => Earlier(m, n) /\ Earlier(n, m)
  /\ \A m, n : m.via # n.via => Earlier(m, n) /\ Earlier(n, m)
  /\ \A m, n : m.id < n.id => Earlier(m, n)
  BY DEF Earlier

(* One more message at the end.                                          *)
LEMMA OrderAppend ==
  ASSUME NEW t \in Seq(Message), NEW m \in Message
  PROVE  /\ Sorted(t) /\ Under(t, m) => Sorted(Append(t, m))
         /\ \A r : Before(t, r) /\ Over(m, r) => Before(Append(t, m), r)
<1> DEFINE u == Append(t, m)
           n == Len(t)
<1>1. /\ n \in Nat /\ Len(u) = n + 1 /\ u[n + 1] = m /\ \A i \in 1 .. n : u[i] = t[i]
  BY AppendProperties, LenProperties
<1> HIDE DEF u, n
<1>2. \A i \in 1 .. (n + 1) : i \in 1 .. n \/ i = n + 1
  BY <1>1
<1>3. ASSUME Sorted(t), Under(t, m), NEW i \in 1 .. (n + 1), NEW j \in 1 .. (n + 1), i < j
      PROVE  Earlier(u[i], u[j])
  <2>1. i \in 1 .. n
    BY <1>1, <1>3
  <2>2. CASE j \in 1 .. n
    BY <1>1, <1>3, <2>1, <2>2 DEF Sorted, n
  <2>3. CASE j = n + 1
    BY <1>1, <1>3, <2>1, <2>3 DEF Under, n
  <2> QED BY <1>2, <2>2, <2>3
<1>4. ASSUME NEW r, Before(t, r), Over(m, r), NEW i \in 1 .. (n + 1), NEW j \in 1 .. Len(r)
      PROVE  Earlier(u[i], r[j])
  <2>1. CASE i \in 1 .. n
    BY <1>1, <1>4, <2>1 DEF Before, n
  <2>2. CASE i = n + 1
    BY <1>1, <1>4, <2>2 DEF Over
  <2> QED BY <1>2, <2>1, <2>2
<1>5. Sorted(t) /\ Under(t, m) => Sorted(u)
  BY <1>1, <1>3 DEF Sorted
<1>6. \A r : Before(t, r) /\ Over(m, r) => Before(u, r)
  BY <1>1, <1>4 DEF Before
<1> QED BY <1>5, <1>6 DEF u

(* The first message of a list.                                          *)
LEMMA OrderHead ==
  ASSUME NEW b \in Batch, b # << >>
  PROVE  /\ Head(b) \in UserMessage /\ Tail(b) \in Batch
         /\ Sorted(b) => Over(Head(b), Tail(b)) /\ Sorted(Tail(b))
         /\ \A t : Before(t, b) => Under(t, Head(b)) /\ Before(t, Tail(b))
         /\ \A r : Before(b, r) => Over(Head(b), r) /\ Before(Tail(b), r)
<1> DEFINE n == Len(b)
           r == Tail(b)
<1>1. /\ n \in Nat \ {0} /\ Len(r) = n - 1 /\ Head(b) = b[1] /\ r \in Batch
      /\ \A i \in 1 .. (n - 1) : r[i] = b[i + 1]
  BY EmptySeq, HeadTailProperties DEF Batch
<1>2. Head(b) \in UserMessage
  BY HeadTailProperties DEF Batch
<1> HIDE DEF n, r
<1>3. 1 \in 1 .. n /\ \A i \in 1 .. (n - 1) : i + 1 \in 1 .. n /\ 1 < i + 1
  BY <1>1
<1>4. \A i, j \in 1 .. (n - 1) : i < j => i + 1 < j + 1
  BY <1>1
<1>5. Sorted(b) => Over(Head(b), r) /\ Sorted(r)
  BY <1>1, <1>3, <1>4 DEF Sorted, Over, n
<1>6. \A t : Before(t, b) => Under(t, Head(b)) /\ Before(t, r)
  BY <1>1, <1>3 DEF Before, Under, n
<1>7. \A s : Before(b, s) => Over(Head(b), s) /\ Before(r, s)
  BY <1>1, <1>3 DEF Before, Over, n
<1> QED BY <1>1, <1>2, <1>5, <1>6, <1>7 DEF r

(* No messages.                                                          *)
LEMMA OrderEmpty ==
  /\ << >> \in Batch /\ Sorted(<< >>)
  /\ \A s : Before(s, << >>) /\ Before(<< >>, s)
  /\ \A v : OfKind(<< >>, v)
<1>1. Len(<< >>) = 0 /\ << >> \in Batch
  BY EmptySeq DEF Batch
<1> QED BY <1>1 DEF Sorted, Before, OfKind

(* Lists with identities up to a number come before those with greater.  *)
LEMMA OrderIds ==
  ASSUME NEW t \in Seq(Message), NEW b \in Batch, NEW n \in Nat,
         UserIds(t) \subseteq 1 .. n, Ids(b) \subseteq Nat, \A x \in Ids(b) : n < x
  PROVE  Before(t, b)
<1> SUFFICES ASSUME NEW i \in 1 .. Len(t), NEW j \in 1 .. Len(b), t[i].role = "user"
             PROVE  t[i].id < b[j].id
  BY DEF Before, Earlier
<1>1. DOMAIN t = 1 .. Len(t) /\ DOMAIN b = 1 .. Len(b)
  BY LenProperties DEF Batch
<1>2. t[i].id \in UserIds(t) /\ b[j].id \in Ids(b)
  BY <1>1 DEF UserIds, Ids
<1>3. t[i].id \in 1 .. n /\ b[j].id \in Nat /\ n < b[j].id
  BY <1>2
<1> QED BY <1>3

(* The messages of a batch are those of a list of messages.              *)
LEMMA BatchMessages ==
  ASSUME NEW b \in Batch
  PROVE  /\ b \in Seq(Message) /\ UserIds(b) = Ids(b) /\ DOMAIN b = 1 .. Len(b)
         /\ \A i \in 1 .. Len(b) : b[i] \in UserMessage /\ b[i].role = "user"
<1>1. b \in Seq(Message)
  BY SeqMonotonic DEF Batch, Message
<1>2. DOMAIN b = 1 .. Len(b) /\ \A i \in 1 .. Len(b) : b[i] \in UserMessage
  BY LenProperties, ElementOfSeq DEF Batch
<1>3. \A i \in 1 .. Len(b) : b[i].role = "user"
  BY <1>2 DEF UserMessage
<1> QED BY <1>1, <1>2, <1>3 DEF UserIds, Ids

(* Messages of different kinds have no order.                            *)
LEMMA OrderKinds ==
  ASSUME NEW s, NEW r, NEW v, NEW w, OfKind(s, v), OfKind(r, w), v # w
  PROVE  Before(s, r)
  BY DEF OfKind, Before, Earlier

(* The order of a queue when a message is emitted: the first that was    *)
(* taken, or one that no caller has sent.                                *)
LEMMA QueueEmit ==
  ASSUME NEW t \in Seq(Message), NEW b \in Batch, NEW q, NEW v, QueueOrder(t, b, q, v)
  PROVE  /\ b # << >> => QueueOrder(Append(t, Head(b)), Tail(b), q, v)
         /\ \A m \in Message : m.role # "user" => QueueOrder(Append(t, m), b, q, v)
<1>1. ASSUME b # << >> PROVE QueueOrder(Append(t, Head(b)), Tail(b), q, v)
  <2>1. Head(b) \in Message
    BY <1>1, OrderHead DEF Message
  <2>2. \A a \in 1 .. Len(q) : Over(Head(b), q[a]) /\ Before(Tail(b), q[a])
    BY <1>1, OrderHead DEF QueueOrder
  <2>3. \A a \in 1 .. Len(q) : Before(Append(t, Head(b)), q[a])
    BY <2>1, <2>2, OrderAppend DEF QueueOrder
  <2> QED BY <2>2, <2>3 DEF QueueOrder
<1>2. ASSUME NEW m \in Message, m.role # "user" PROVE QueueOrder(Append(t, m), b, q, v)
  <2>1. \A s : Over(m, s)
    BY <1>2 DEF Over, Earlier
  <2>2. \A a \in 1 .. Len(q) : Before(Append(t, m), q[a])
    BY <2>1, OrderAppend DEF QueueOrder
  <2> QED BY <2>2 DEF QueueOrder
<1> QED BY <1>1, <1>2

(* ... when other messages are taken.                                    *)
LEMMA QueueTaken ==
  ASSUME NEW t, NEW b, NEW c, NEW q, NEW v, QueueOrder(t, b, q, v)
  PROVE  /\ (\A a \in 1 .. Len(q) : Before(c, q[a])) => QueueOrder(t, c, q, v)
         /\ QueueOrder(t, << >>, q, v)
         /\ \A w : OfKind(c, w) /\ w # v => QueueOrder(t, c, q, v)
<1>1. (\A a \in 1 .. Len(q) : Before(c, q[a])) => QueueOrder(t, c, q, v)
  BY DEF QueueOrder
<1>2. QueueOrder(t, << >>, q, v)
  BY OrderEmpty DEF QueueOrder
<1>3. ASSUME NEW w, OfKind(c, w), w # v PROVE \A a \in 1 .. Len(q) : Before(c, q[a])
  BY <1>3, OrderKinds DEF QueueOrder
<1> QED BY <1>1, <1>2, <1>3

(* ... when a batch with greater identities joins it.                    *)
LEMMA QueueJoined ==
  ASSUME NEW t \in Seq(Message), NEW b \in Batch, NEW q \in Seq(Batch), NEW v,
         QueueOrder(t, b, q, v), NEW n \in Nat,
         UserIds(t) \subseteq 1 .. n, Ids(b) \subseteq 1 .. n, QueuedIds(q) \subseteq 1 .. n,
         NEW c \in Batch, Sorted(c), OfKind(c, v), \A x \in Ids(c) : x \in Nat /\ n < x
  PROVE  QueueOrder(t, b, Append(q, c), v)
<1> DEFINE r == Append(q, c)
           k == Len(q)
<1>1. /\ k \in Nat /\ Len(r) = k + 1 /\ r[k + 1] = c /\ \A a \in 1 .. k : r[a] = q[a]
  BY AppendProperties, LenProperties
<1>2. Before(t, c)
  BY OrderIds
<1>3. Before(b, c)
  BY BatchMessages, OrderIds
<1>4. ASSUME NEW a \in 1 .. k PROVE Before(q[a], c)
  <2>1. q[a] \in Batch
    BY <1>4, ElementOfSeq
  <2>2. Ids(q[a]) \subseteq QueuedIds(q)
    BY <1>4, QueuedAt
  <2> HIDE DEF k
  <2>3. q[a] \in Seq(Message) /\ UserIds(q[a]) \subseteq 1 .. n
    BY <2>1, <2>2, BatchMessages
  <2> QED BY <2>3, OrderIds
<1> HIDE DEF r, k
<1>5. \A a \in 1 .. (k + 1) : a \in 1 .. k \/ a = k + 1
  BY <1>1
<1>6. ASSUME NEW a \in 1 .. (k + 1)
      PROVE  Sorted(r[a]) /\ OfKind(r[a], v) /\ Before(t, r[a]) /\ Before(b, r[a])
  <2>1. CASE a \in 1 .. k
    BY <1>1, <2>1 DEF QueueOrder, k
  <2>2. CASE a = k + 1
    BY <1>1, <1>2, <1>3, <2>2
  <2> QED BY <1>5, <2>1, <2>2
<1>7. ASSUME NEW a \in 1 .. (k + 1), NEW d \in 1 .. (k + 1), a < d PROVE Before(r[a], r[d])
  <2>1. a \in 1 .. k
    BY <1>1, <1>7
  <2>2. CASE d \in 1 .. k
    BY <1>1, <1>7, <2>1, <2>2 DEF QueueOrder, k
  <2>3. CASE d = k + 1
    BY <1>1, <1>4, <2>1, <2>3
  <2> QED BY <1>5, <2>2, <2>3
<1>8. QueueOrder(t, b, r, v)
  BY <1>1, <1>6, <1>7 DEF QueueOrder
<1> QED BY <1>8 DEF r

(* ... when some of its batches go.                                      *)
LEMMA QueuePicked ==
  ASSUME NEW q \in Seq(Batch), NEW T
  PROVE  /\ Picked(q, T) \in Seq(Batch) /\ QueuedIds(Picked(q, T)) \subseteq QueuedIds(q)
         /\ \A t, b, v : QueueOrder(t, b, q, v) => QueueOrder(t, b, Picked(q, T), v)
<1> DEFINE F == Picked(q, T)
<1>1. PICK p : F \in Seq(Batch) /\ At(F, q, T, p)
  BY PickedPlaces
<1> HIDE DEF F
<1>2. \A a \in 1 .. Len(F) : p[a] \in 1 .. Len(q) /\ F[a] = q[p[a]]
  BY <1>1 DEF At
<1>3. \A a, c \in 1 .. Len(F) : a < c => p[a] < p[c]
  BY <1>1 DEF At
<1>4. QueuedIds(F) \subseteq QueuedIds(q)
  <2> SUFFICES ASSUME NEW x \in QueuedIds(F) PROVE x \in QueuedIds(q)
    OBVIOUS
  <2>1. PICK a \in 1 .. Len(F) : x \in Ids(F[a])
    BY <1>1, QueuedAt
  <2> QED BY <1>2, <2>1, QueuedAt
<1>5. \A t, b, v : QueueOrder(t, b, q, v) => QueueOrder(t, b, F, v)
  BY <1>2, <1>3 DEF QueueOrder
<1> QED BY <1>1, <1>4, <1>5 DEF F

(* What is drained of a queue comes in order, before what stays.         *)
LEMMA QueueDrained ==
  ASSUME NEW t, NEW b, NEW q \in Seq(Batch), NEW v, QueueOrder(t, b, q, v), NEW d \in Drained(q)
  PROVE  /\ Sorted(d[1]) /\ OfKind(d[1], v) /\ Before(t, d[1])
         /\ QueueOrder(t, d[1], d[2], v)
<1>1. CASE q = << >>
  <2>1. d = << q, q >>
    BY <1>1 DEF Drained
  <2>2. d[1] = << >> /\ d[2] = q
    BY <1>1, <2>1
  <2> QED BY <2>2, OrderEmpty, QueueTaken
<1>2. CASE q # << >> /\ d = << Head(q), Tail(q) >>
  <2> DEFINE n == Len(q)
             r == Tail(q)
  <2>1. /\ n \in Nat \ {0} /\ Len(r) = n - 1 /\ Head(q) = q[1]
        /\ \A a \in 1 .. (n - 1) : r[a] = q[a + 1]
    BY <1>2, EmptySeq, LenProperties, HeadTailProperties
  <2>2. d[1] = q[1] /\ d[2] = r
    BY <1>2, <2>1
  <2> HIDE DEF n, r
  <2>3. 1 \in 1 .. n /\ \A a \in 1 .. (n - 1) : a + 1 \in 1 .. n /\ 1 < a + 1
    BY <2>1
  <2>4. \A a, c \in 1 .. (n - 1) : a < c => a + 1 < c + 1
    BY <2>1
  <2>5. Sorted(q[1]) /\ OfKind(q[1], v) /\ Before(t, q[1])
    BY <2>3 DEF QueueOrder, n
  <2>6. \A a \in 1 .. (n - 1) : /\ Sorted(r[a]) /\ OfKind(r[a], v)
                                /\ Before(t, r[a]) /\ Before(q[1], r[a])
    BY <2>1, <2>3 DEF QueueOrder, n
  <2>7. \A a, c \in 1 .. (n - 1) : a < c => Before(r[a], r[c])
    BY <2>1, <2>3, <2>4 DEF QueueOrder, n
  <2>8. QueueOrder(t, q[1], r, v)
    BY <2>1, <2>6, <2>7 DEF QueueOrder
  <2> QED BY <2>2, <2>5, <2>8
<1>3. CASE q # << >> /\ d = << FlattenSeq(q), << >> >>
  <2> DEFINE F == FlattenSeq(q)
  <2>1. d[1] = F /\ d[2] = << >>
    BY <1>3
  <2>2. PICK a, b1 : Lists(F, q, a, b1)
    BY FlattenSeqLists DEF Batch
  <2> HIDE DEF F
  <2>3. \A k \in 1 .. Len(F) :
          a[k] \in 1 .. Len(q) /\ b1[k] \in 1 .. Len(q[a[k]]) /\ F[k] = q[a[k]][b1[k]]
    BY <2>2 DEF Lists
  <2>4. OfKind(F, v)
    BY <2>3 DEF QueueOrder, OfKind
  <2>5. Before(t, F)
    BY <2>3 DEF QueueOrder, Before
  <2>6. ASSUME NEW k \in 1 .. Len(F), NEW l \in 1 .. Len(F), k < l PROVE Earlier(F[k], F[l])
    <3>1. a[k] < a[l] \/ (a[k] = a[l] /\ b1[k] < b1[l])
      BY <2>2, <2>6 DEF Lists
    <3>2. CASE a[k] < a[l]
      <4>1. Before(q[a[k]], q[a[l]])
        BY <2>3, <3>2 DEF QueueOrder
      <4> QED BY <2>3, <4>1 DEF Before
    <3>3. CASE a[k] = a[l] /\ b1[k] < b1[l]
      <4>1. Sorted(q[a[k]])
        BY <2>3 DEF QueueOrder
      <4> QED BY <2>3, <3>3, <4>1 DEF Sorted
    <3> QED BY <3>1, <3>2, <3>3
  <2>7. Sorted(F)
    BY <2>6 DEF Sorted
  <2>8. QueueOrder(t, F, << >>, v)
    BY EmptySeq DEF QueueOrder
  <2> QED BY <2>1, <2>4, <2>5, <2>7, <2>8
<1> QED BY <1>1, <1>2, <1>3 DEF Drained

-----------------------------------------------------------------------------
(***************************************************************************)
(* What a step does to the messages.                                       *)
(***************************************************************************)

Types == RunTypes /\ TalkTypes /\ ContextTypes /\ CallTypes

(* What a run has taken of the queues is emitted or forgotten before the *)
(* run goes on to its next poll.                                         *)
InboxInv == phase \notin {"init", "open", "turn", "inject", "polled", "followed"} => inbox = << >>

Rests == UNCHANGED << transcript, inbox, steering, followUps, handed, dropped >>
Forgets ==
  /\ dropped' = dropped \union Ids(inbox) /\ inbox' = << >>
  /\ UNCHANGED << transcript, steering, followUps, handed >>
Speaks ==
  /\ \E m \in Reply \union Result : transcript' = Append(transcript, m)
  /\ UNCHANGED << inbox, steering, followUps, handed, dropped >>
Emits ==
  /\ inbox # << >> /\ transcript' = Append(transcript, Head(inbox)) /\ inbox' = Tail(inbox)
  /\ UNCHANGED << steering, followUps, handed, dropped >>
Hands ==
  /\ inbox = << >>
  /\ \E n \in Nat, v \in {"prompt", "continuation"} :
       inbox' = NewBatch(n, v) /\ handed' = handed + n
  /\ UNCHANGED << transcript, steering, followUps, dropped >>
Queues(q, v) == \E n \in Nat : q' = Append(q, NewBatch(n, v)) /\ handed' = handed + n
QueuesOne ==
  /\ \/ Queues(steering, "steer") /\ UNCHANGED followUps
     \/ Queues(followUps, "followUp") /\ UNCHANGED steering
  /\ UNCHANGED << transcript, inbox, dropped >>
Takes(q) == inbox = << >> /\ \E d \in Drained(q) : inbox' = d[1] /\ q' = d[2]
TakesOne ==
  /\ \/ Takes(steering) /\ UNCHANGED followUps
     \/ Takes(followUps) /\ UNCHANGED steering
  /\ UNCHANGED << transcript, handed, dropped >>
Removes ==
  /\ \E T, U : steering' = Picked(steering, T) /\ followUps' = Picked(followUps, U)
  /\ dropped' = dropped \union ((QueuedIds(steering) \union QueuedIds(followUps))
                                  \ (QueuedIds(steering') \union QueuedIds(followUps')))
  /\ UNCHANGED << transcript, inbox, handed >>

MessageStep == \/ Rests \/ Forgets \/ Speaks \/ Emits \/ Hands
               \/ QueuesOne \/ TakesOne \/ Removes

(* The steps that stay in what they do to the run, the queues or the     *)
(* batch.                                                                *)
LEMMA CallerMessages ==
  ASSUME InboxInv, Caller
  PROVE  MessageStep
<1> USE DEF talkVars, queueVars
<1>1. ASSUME NEW n \in 1 .. 2, Prompt(n) PROVE Hands
  BY <1>1 DEF Prompt, Begin, Hands, InboxInv
<1>2. ASSUME NEW n \in 1 .. 2, Steer(n) PROVE QueuesOne
  BY <1>2 DEF Steer, QueuesOne, Queues
<1>3. ASSUME NEW n \in 1 .. 2, FollowUp(n) PROVE QueuesOne
  BY <1>3 DEF FollowUp, QueuesOne, Queues
<1>4. ContinueQueued => TakesOne
  BY DEF ContinueQueued, Begin, TakesOne, Takes, InboxInv
<1>5. ContinueTranscript => Rests
  BY DEF ContinueTranscript, Begin, Rests, InboxInv
<1>6. Abort => Rests
  BY DEF Abort, Rests
<1>7. ASSUME NEW S, RemoveQueued(S) PROVE Removes
  BY <1>7 DEF RemoveQueued, Removes
<1> QED BY <1>1, <1>2, <1>3, <1>4, <1>5, <1>6, <1>7 DEF Caller, MessageStep

(* What the steps of the loop do to the messages.                        *)
LEMMA LoopMessages ==
  ASSUME Types, InboxInv, LoopStep
  PROVE  MessageStep
<1> USE DEF talkVars, queueVars
<1>1. Initialized \/ TurnStart \/ Recover \/ FinishBatch => Rests \/ Forgets
  BY DEF Initialized, TurnStart, Recover, FinishBatch, Fail, Goto, Rests, Forgets
<1>2. OpenRun => Rests \/ Emits
  BY DEF OpenRun, Rests, Emits
<1>3. PollSteering \/ PollFollowUps => Rests \/ TakesOne
  BY DEF PollSteering, PollFollowUps, Rests, TakesOne, Takes, InboxInv
<1>4. Inject => Rests \/ Emits
  BY DEF Inject, Rests, Emits
<1>5. TurnEnd \/ Polled \/ Followed => Rests \/ Forgets
  BY DEF TurnEnd, Polled, Followed, End, Goto, Rests, Forgets
<1>6. ContextBuilt \/ Launch \/ AllSettled \/ Ended \/ FinishRun => Rests
  BY DEF ContextBuilt, Launch, AllSettled, Ended, FinishRun, batchVars, Rests
<1>7. ASSUME NEW i \in DOMAIN call, Announce(i) \/ Admit(i) \/ CallAborted(i) \/ Publish(i)
      PROVE  Rests
  BY <1>7 DEF Announce, Admit, CallAborted, Publish, stillVars, batchVars, Rests
<1>8. ASSUME NEW i \in DOMAIN call, AnswerCall(i) PROVE Speaks
  <2>1. i \in Nat /\ call[i] \in Call
    BY DEF Types, CallTypes
  <2>2. assistants \in Nat \ {0}
    BY <1>8 DEF AnswerCall, Types, RunTypes, Tooling
  <2>3. ToolResult(assistants, i, call[i].outcome) \in Reply \union Result
    BY <2>1, <2>2, MessagesMade DEF Call
  <2> QED BY <1>8, <2>3 DEF AnswerCall, Speaks, stillVars, batchVars
<1>9. ASSUME NEW c \in 0 .. MaxCalls, FinishAborted(c) PROVE Speaks
  <2>1. assistants' \in Nat \ {0} /\ c \in Nat
    BY <1>9, BoundAssumption DEF FinishAborted, Types, RunTypes
  <2>2. Assistant(assistants', c, "aborted") \in Reply \union Result
    BY <2>1, MessagesMade DEF Stops
  <2> QED BY <1>9, <2>2 DEF FinishAborted, Answer, Speaks
<1>10. ASSUME HandleRunFailure PROVE Speaks
  <2>1. assistants' \in Nat \ {0}
    BY <1>10 DEF HandleRunFailure, Types, RunTypes
  <2>2. Assistant(assistants', 0, IF aborted THEN "aborted" ELSE "error") \in Reply \union Result
    BY <2>1, MessagesMade DEF Stops
  <2> QED BY <1>10, <2>2 DEF HandleRunFailure, Speaks
<1> QED BY <1>1, <1>2, <1>3, <1>4, <1>5, <1>6, <1>7, <1>8, <1>9, <1>10
        DEF LoopStep, MessageStep

(* What the hooks do to them.                                            *)
LEMMA HookMessages ==
  ASSUME InboxInv, HookStep
  PROVE  MessageStep
<1> USE DEF talkVars, queueVars
<1>1. Answered \/ Outcome => Rests \/ Forgets
  BY DEF Answered, Outcome, End, Fail, Goto, Rests, Forgets
<1>2. Continuation => Rests \/ Forgets \/ Hands
  BY DEF Continuation, End, Rests, Forgets, Hands, InboxInv
<1>3. ASSUME NEW i \in DOMAIN call, PrepareCall(i) PROVE Rests
  BY <1>3 DEF PrepareCall, stillVars, batchVars, Rests
<1> QED BY <1>1, <1>2, <1>3 DEF HookStep, MessageStep

(* What the provider, the tools and their owners do to them.             *)
LEMMA OutsideMessages ==
  ASSUME Types, Outside
  PROVE  MessageStep
<1> USE DEF talkVars, queueVars
<1>1. SendRequest \/ ProviderStarts \/ BudgetFailure => Rests
  BY DEF SendRequest, ProviderStarts, BudgetFailure, Rests
<1>2. PrepareFails \/ Throw => Rests \/ Forgets
  BY DEF PrepareFails, Throw, Fail, Goto, Rests, Forgets
<1>3. ASSUME NEW c \in 0 .. MaxCalls, NEW s \in {"stop", "error"}, ProviderAnswers(c, s)
      PROVE  Speaks
  <2>1. assistants \in Nat \ {0} /\ c \in Nat
    BY <1>3, BoundAssumption DEF ProviderAnswers, Types, RunTypes
  <2>2. Assistant(assistants, c, s) \in Reply \union Result
    BY <2>1, MessagesMade DEF Stops
  <2> QED BY <1>3, <2>2 DEF ProviderAnswers, Answer, Speaks
<1>4. ASSUME NEW t \in toolStarted, ToolFinishes(t) PROVE Rests
  BY <1>4 DEF ToolFinishes, stillVars, batchVars, Rests
<1>5. ASSUME NEW i \in DOMAIN call, CallReturns(i) PROVE Rests
  BY <1>5 DEF CallReturns, stillVars, batchVars, Rests
<1>6. ASSUME NEW i \in DOMAIN call, CallRejected(i) PROVE Rests \/ Forgets
  BY <1>6 DEF CallRejected, Fail, stillVars, batchVars, Rests, Forgets
<1> QED BY <1>1, <1>2, <1>3, <1>4, <1>5, <1>6 DEF Outside, MessageStep

(* Every step does one of these to the messages.                         *)
LEMMA MessageShape ==
  ASSUME Types, InboxInv, [Next]_vars
  PROVE  MessageStep
<1>1. CASE UNCHANGED vars
  BY <1>1 DEF vars, talkVars, queueVars, MessageStep, Rests
<1> QED BY <1>1, CallerMessages, LoopMessages, HookMessages, OutsideMessages DEF Next

-----------------------------------------------------------------------------
(***************************************************************************)
(* The messages are kept, in their order.                                  *)
(***************************************************************************)

(* Where the messages are that callers have handed over.                 *)
KeptInv ==
  1 .. handed = QueuedIds(steering) \union QueuedIds(followUps) \union Ids(inbox)
                  \union UserIds(transcript) \union dropped

(* The transcript, what a run has taken and the queues are in order.     *)
OrderInv ==
  /\ Sorted(transcript) /\ Sorted(inbox) /\ Before(transcript, inbox)
  /\ QueueOrder(transcript, inbox, steering, "steer")
  /\ QueueOrder(transcript, inbox, followUps, "followUp")

TalkInv == TalkTypes /\ KeptInv /\ OrderInv

(* What a run forgets is counted among the dropped.                      *)
LEMMA ForgetsKeeps == ASSUME TalkInv, Forgets PROVE TalkInv'
<1>1. TalkTypes'
  BY OrderEmpty DEF TalkInv, TalkTypes, Forgets
<1>2. KeptInv'
  BY BatchIds DEF TalkInv, KeptInv, Forgets
<1>3. OrderInv'
  <2>1. \A q, v : QueueOrder(transcript, inbox, q, v) => QueueOrder(transcript, << >>, q, v)
    BY QueueTaken
  <2> QED BY <2>1, OrderEmpty DEF TalkInv, OrderInv, Forgets
<1> QED BY <1>1, <1>2, <1>3 DEF TalkInv

(* Replies and results are no messages of callers.                       *)
LEMMA SpeaksKeeps == ASSUME TalkInv, Speaks PROVE TalkInv'
<1>1. PICK m \in Reply \union Result : transcript' = Append(transcript, m)
  BY DEF Speaks
<1>2. m \in Message /\ m.role # "user"
  BY DEF Message, Reply, Result
<1>3. transcript \in Seq(Message) /\ inbox \in Batch
  BY DEF TalkInv, TalkTypes
<1>4. transcript' \in Seq(Message)
  BY <1>1, <1>2, <1>3, AppendProperties
<1>5. TalkTypes'
  BY <1>4 DEF TalkInv, TalkTypes, Speaks
<1>6. UserIds(transcript') = UserIds(transcript)
  BY <1>1, <1>2, <1>3, UserIdsAppend
<1>7. KeptInv'
  BY <1>6 DEF TalkInv, KeptInv, Speaks
<1>8. Under(transcript, m) /\ \A r : Over(m, r)
  BY <1>2 DEF Under, Over, Earlier
<1>9. Sorted(transcript') /\ Before(transcript', inbox)
  BY <1>1, <1>2, <1>3, <1>8, OrderAppend DEF TalkInv, OrderInv
<1>10. \A q, v : QueueOrder(transcript, inbox, q, v) => QueueOrder(transcript', inbox, q, v)
  BY <1>1, <1>2, <1>3, QueueEmit
<1>11. OrderInv'
  BY <1>9, <1>10 DEF TalkInv, OrderInv, Speaks
<1> QED BY <1>5, <1>7, <1>11 DEF TalkInv

(* The next message that was taken stands behind the transcript.         *)
LEMMA EmitsKeeps == ASSUME TalkInv, Emits PROVE TalkInv'
<1>1. transcript \in Seq(Message) /\ inbox \in Batch /\ inbox # << >>
  BY DEF TalkInv, TalkTypes, Emits
<1>2. transcript' = Append(transcript, Head(inbox)) /\ inbox' = Tail(inbox)
  BY DEF Emits
<1>3. Head(inbox) \in UserMessage /\ Head(inbox) \in Message /\ Tail(inbox) \in Batch
  BY <1>1, OrderHead DEF Message
<1>4. transcript' \in Seq(Message)
  BY <1>1, <1>2, <1>3, AppendProperties
<1>5. TalkTypes'
  BY <1>2, <1>3, <1>4 DEF TalkInv, TalkTypes, Emits
<1>6. UserIds(transcript') = UserIds(transcript) \union {Head(inbox).id}
  BY <1>1, <1>2, <1>3, UserIdsAppend DEF UserMessage
<1>7. Ids(inbox) = {Head(inbox).id} \union Ids(inbox')
  BY <1>1, <1>2, BatchIds
<1>8. KeptInv'
  BY <1>6, <1>7 DEF TalkInv, KeptInv, Emits
<1>9. /\ Over(Head(inbox), Tail(inbox)) /\ Sorted(Tail(inbox))
      /\ Under(transcript, Head(inbox)) /\ Before(transcript, Tail(inbox))
  BY <1>1, OrderHead DEF TalkInv, OrderInv
<1>10. Sorted(transcript') /\ Sorted(inbox') /\ Before(transcript', inbox')
  BY <1>1, <1>2, <1>3, <1>9, OrderAppend DEF TalkInv, OrderInv
<1>11. \A q, v : QueueOrder(transcript, inbox, q, v) => QueueOrder(transcript', inbox', q, v)
  BY <1>1, <1>2, QueueEmit
<1>12. OrderInv'
  BY <1>10, <1>11 DEF TalkInv, OrderInv, Emits
<1> QED BY <1>5, <1>8, <1>12 DEF TalkInv

(* A new batch of a kind comes behind what was handed over before.       *)
LEMMA NewBatchOrder ==
  ASSUME TalkTypes, NEW n \in Nat, NEW v \in Vias
  PROVE  /\ Sorted(NewBatch(n, v)) /\ OfKind(NewBatch(n, v), v)
         /\ \A x \in Ids(NewBatch(n, v)) : x \in Nat /\ handed < x
         /\ 1 .. handed + n = (1 .. handed) \union Ids(NewBatch(n, v))
<1> DEFINE b == NewBatch(n, v)
<1>1. /\ handed \in Nat /\ Len(b) = n
      /\ \A i \in 1 .. n : b[i].id = handed + i /\ b[i].via = v
      /\ Ids(b) = handed + 1 .. handed + n
  BY NewBatchMade DEF TalkTypes
<1> HIDE DEF b
<1>2. Sorted(b)
  BY <1>1 DEF Sorted, Earlier
<1>3. OfKind(b, v)
  BY <1>1 DEF OfKind
<1>4. (\A x \in Ids(b) : x \in Nat /\ handed < x) /\ 1 .. handed + n = (1 .. handed) \union Ids(b)
  BY <1>1
<1> QED BY <1>2, <1>3, <1>4 DEF b

(* New messages have the highest identities.                             *)
LEMMA HandsKeeps == ASSUME TalkInv, Hands PROVE TalkInv'
<1>1. PICK n \in Nat, v \in {"prompt", "continuation"} :
        inbox' = NewBatch(n, v) /\ handed' = handed + n
  BY DEF Hands
<1>2. v \in Vias /\ v # "steer" /\ v # "followUp" /\ TalkTypes
  BY DEF Vias, TalkInv
<1>3. /\ inbox' \in Batch /\ Sorted(inbox') /\ OfKind(inbox', v)
      /\ \A x \in Ids(inbox') : x \in Nat /\ handed < x
      /\ 1 .. handed' = (1 .. handed) \union Ids(inbox')
  BY <1>1, <1>2, NewBatchMade, NewBatchOrder
<1>4. TalkTypes'
  BY <1>1, <1>2, <1>3 DEF TalkTypes, Hands
<1>5. KeptInv'
  BY <1>3, BatchIds DEF TalkInv, KeptInv, Hands
<1>6. Before(transcript, inbox')
  <2>1. UserIds(transcript) \subseteq 1 .. handed
    BY DEF TalkInv, KeptInv
  <2>2. transcript \in Seq(Message) /\ handed \in Nat /\ Ids(inbox') \subseteq Nat
    BY <1>2, <1>3 DEF TalkTypes
  <2> QED BY <1>3, <2>1, <2>2, OrderIds
<1>7. \A q, w : QueueOrder(transcript, inbox, q, w) /\ w # v => QueueOrder(transcript, inbox', q, w)
  BY <1>3, QueueTaken
<1>8. OrderInv'
  BY <1>2, <1>3, <1>6, <1>7 DEF TalkInv, OrderInv, Hands
<1> QED BY <1>4, <1>5, <1>8 DEF TalkInv

(* A queue that a batch joins.                                           *)
LEMMA QueuesJoined ==
  ASSUME TalkInv, NEW q \in Seq(Batch), NEW r, NEW v \in Vias, NEW n \in Nat,
         r = Append(q, NewBatch(n, v)),
         QueuedIds(q) \subseteq 1 .. handed, QueueOrder(transcript, inbox, q, v)
  PROVE  /\ r \in Seq(Batch) /\ QueueOrder(transcript, inbox, r, v)
         /\ QueuedIds(r) = QueuedIds(q) \union Ids(NewBatch(n, v))
<1> DEFINE b == NewBatch(n, v)
<1>1. TalkTypes
  BY DEF TalkInv
<1>2. /\ b \in Batch /\ Sorted(b) /\ OfKind(b, v)
      /\ \A x \in Ids(b) : x \in Nat /\ handed < x
  BY <1>1, NewBatchMade, NewBatchOrder
<1>3. /\ transcript \in Seq(Message) /\ inbox \in Batch /\ handed \in Nat
      /\ UserIds(transcript) \subseteq 1 .. handed /\ Ids(inbox) \subseteq 1 .. handed
  BY DEF TalkInv, TalkTypes, KeptInv
<1> HIDE DEF b
<1>4. QueueOrder(transcript, inbox, Append(q, b), v)
  BY <1>2, <1>3, QueueJoined
<1>5. /\ Append(q, b) \in Seq(Batch) /\ Len(q) \in Nat /\ Len(Append(q, b)) = Len(q) + 1
      /\ Append(q, b)[Len(q) + 1] = b /\ \A a \in 1 .. Len(q) : Append(q, b)[a] = q[a]
  BY <1>2, AppendProperties, LenProperties
<1>6. QueuedIds(Append(q, b)) = QueuedIds(q) \union Ids(b)
  <2> DEFINE s == Append(q, b)
             k == Len(q)
  <2>1. /\ k \in Nat /\ s \in Seq(Batch) /\ Len(s) = k + 1 /\ s[k + 1] = b
        /\ \A a \in 1 .. k : s[a] = q[a]
    BY <1>5
  <2>2. \A x : x \in QueuedIds(q) <=> \E a \in 1 .. k : x \in Ids(q[a])
    BY QueuedAt
  <2>3. \A x : x \in QueuedIds(s) <=> \E a \in 1 .. (k + 1) : x \in Ids(s[a])
    BY <2>1, QueuedAt
  <2> HIDE DEF s, k
  <2>4. \A a : a \in 1 .. (k + 1) <=> a \in 1 .. k \/ a = k + 1
    BY <2>1
  <2>5. \A x : x \in QueuedIds(s) <=> x \in QueuedIds(q) \/ x \in Ids(b)
    BY <2>1, <2>2, <2>3, <2>4
  <2>6. QueuedIds(s) = QueuedIds(q) \union Ids(b)
    BY <2>5
  <2> QED BY <2>6 DEF s
<1> QED BY <1>4, <1>5, <1>6 DEF b

(* Queued messages stand behind all others of their kind.                *)
LEMMA QueuesKeeps == ASSUME TalkInv, QueuesOne PROVE TalkInv'
<1> USE DEF TalkInv
<1>1. CASE Queues(steering, "steer") /\ UNCHANGED followUps
  <2>1. PICK n \in Nat : steering' = Append(steering, NewBatch(n, "steer")) /\ handed' = handed + n
    BY <1>1 DEF Queues
  <2>2. "steer" \in Vias /\ steering \in Seq(Batch) /\ QueuedIds(steering) \subseteq 1 .. handed
    BY DEF Vias, TalkTypes, KeptInv
  <2>3. /\ steering' \in Seq(Batch) /\ QueueOrder(transcript, inbox, steering', "steer")
        /\ QueuedIds(steering') = QueuedIds(steering) \union Ids(NewBatch(n, "steer"))
    BY <2>1, <2>2, QueuesJoined DEF OrderInv
  <2>4. 1 .. handed' = (1 .. handed) \union Ids(NewBatch(n, "steer"))
    BY <2>1, <2>2, NewBatchOrder
  <2>5. TalkTypes' /\ KeptInv' /\ OrderInv'
    <3>1. TalkTypes'
      BY <1>1, <2>1, <2>3 DEF QueuesOne, TalkTypes
    <3>2. KeptInv'
      BY <1>1, <2>3, <2>4 DEF QueuesOne, KeptInv
    <3>3. OrderInv'
      BY <1>1, <2>3 DEF QueuesOne, OrderInv
    <3> QED BY <3>1, <3>2, <3>3
  <2> QED BY <2>5
<1>2. CASE Queues(followUps, "followUp") /\ UNCHANGED steering
  <2>1. PICK n \in Nat : /\ followUps' = Append(followUps, NewBatch(n, "followUp"))
                         /\ handed' = handed + n
    BY <1>2 DEF Queues
  <2>2. /\ "followUp" \in Vias /\ followUps \in Seq(Batch)
        /\ QueuedIds(followUps) \subseteq 1 .. handed
    BY DEF Vias, TalkTypes, KeptInv
  <2>3. /\ followUps' \in Seq(Batch) /\ QueueOrder(transcript, inbox, followUps', "followUp")
        /\ QueuedIds(followUps') = QueuedIds(followUps) \union Ids(NewBatch(n, "followUp"))
    BY <2>1, <2>2, QueuesJoined DEF OrderInv
  <2>4. 1 .. handed' = (1 .. handed) \union Ids(NewBatch(n, "followUp"))
    BY <2>1, <2>2, NewBatchOrder
  <2>5. TalkTypes' /\ KeptInv' /\ OrderInv'
    <3>1. TalkTypes'
      BY <1>2, <2>1, <2>3 DEF QueuesOne, TalkTypes
    <3>2. KeptInv'
      BY <1>2, <2>3, <2>4 DEF QueuesOne, KeptInv
    <3>3. OrderInv'
      BY <1>2, <2>3 DEF QueuesOne, OrderInv
    <3> QED BY <3>1, <3>2, <3>3
  <2> QED BY <2>5
<1> QED BY <1>1, <1>2 DEF QueuesOne

(* What a run takes of a queue comes before what it leaves.              *)
LEMMA TakesKeeps == ASSUME TalkInv, TakesOne PROVE TalkInv'
<1> USE DEF TalkInv
<1>1. CASE Takes(steering) /\ UNCHANGED followUps
  <2>1. PICK d \in Drained(steering) : inbox' = d[1] /\ steering' = d[2]
    BY <1>1 DEF Takes
  <2>2. steering \in Seq(Batch) /\ inbox = << >>
    BY <1>1 DEF TalkTypes, Takes
  <2>3. /\ inbox' \in Batch /\ steering' \in Seq(Batch)
        /\ QueuedIds(steering) = Ids(inbox') \union QueuedIds(steering')
    BY <2>1, <2>2, DrainedIds
  <2>4. /\ Sorted(inbox') /\ OfKind(inbox', "steer") /\ Before(transcript, inbox')
        /\ QueueOrder(transcript, inbox', steering', "steer")
    BY <2>1, <2>2, QueueDrained DEF OrderInv
  <2>5. QueueOrder(transcript, inbox', followUps, "followUp")
    BY <2>4, QueueTaken DEF OrderInv
  <2>6. TalkTypes'
    BY <1>1, <2>3 DEF TakesOne, TalkTypes
  <2>7. KeptInv'
    BY <1>1, <2>2, <2>3, BatchIds DEF TakesOne, KeptInv
  <2>8. OrderInv'
    BY <1>1, <2>4, <2>5 DEF TakesOne, OrderInv
  <2> QED BY <2>6, <2>7, <2>8
<1>2. CASE Takes(followUps) /\ UNCHANGED steering
  <2>1. PICK d \in Drained(followUps) : inbox' = d[1] /\ followUps' = d[2]
    BY <1>2 DEF Takes
  <2>2. followUps \in Seq(Batch) /\ inbox = << >>
    BY <1>2 DEF TalkTypes, Takes
  <2>3. /\ inbox' \in Batch /\ followUps' \in Seq(Batch)
        /\ QueuedIds(followUps) = Ids(inbox') \union QueuedIds(followUps')
    BY <2>1, <2>2, DrainedIds
  <2>4. /\ Sorted(inbox') /\ OfKind(inbox', "followUp") /\ Before(transcript, inbox')
        /\ QueueOrder(transcript, inbox', followUps', "followUp")
    BY <2>1, <2>2, QueueDrained DEF OrderInv
  <2>5. QueueOrder(transcript, inbox', steering, "steer")
    BY <2>4, QueueTaken DEF OrderInv
  <2>6. TalkTypes'
    BY <1>2, <2>3 DEF TakesOne, TalkTypes
  <2>7. KeptInv'
    BY <1>2, <2>2, <2>3, BatchIds DEF TakesOne, KeptInv
  <2>8. OrderInv'
    BY <1>2, <2>4, <2>5 DEF TakesOne, OrderInv
  <2> QED BY <2>6, <2>7, <2>8
<1> QED BY <1>1, <1>2 DEF TakesOne

(* Batches that are removed are counted among the dropped.               *)
LEMMA RemovesKeeps == ASSUME TalkInv, Removes PROVE TalkInv'
<1> USE DEF TalkInv
<1>1. PICK T, U : steering' = Picked(steering, T) /\ followUps' = Picked(followUps, U)
  BY DEF Removes
<1>2. steering \in Seq(Batch) /\ followUps \in Seq(Batch)
  BY DEF TalkTypes
<1>3. /\ steering' \in Seq(Batch) /\ QueuedIds(steering') \subseteq QueuedIds(steering)
      /\ followUps' \in Seq(Batch) /\ QueuedIds(followUps') \subseteq QueuedIds(followUps)
  BY <1>1, <1>2, QueuePicked
<1>4. /\ QueueOrder(transcript, inbox, steering', "steer")
      /\ QueueOrder(transcript, inbox, followUps', "followUp")
  BY <1>1, <1>2, QueuePicked DEF OrderInv
<1>5. TalkTypes'
  BY <1>3 DEF TalkTypes, Removes
<1>6. KeptInv'
  BY <1>3 DEF KeptInv, Removes
<1>7. OrderInv'
  BY <1>4 DEF OrderInv, Removes
<1> QED BY <1>5, <1>6, <1>7

(* No step loses a message or brings one out of its order.               *)
LEMMA TalkKept ==
  ASSUME TalkInv, MessageStep
  PROVE  TalkInv'
<1>1. CASE Rests
  BY <1>1 DEF Rests, TalkInv, TalkTypes, KeptInv, OrderInv
<1> QED BY <1>1, ForgetsKeeps, SpeaksKeeps, EmitsKeeps, HandsKeeps, QueuesKeeps, TakesKeeps,
           RemovesKeeps DEF MessageStep

-----------------------------------------------------------------------------
(***************************************************************************)
(* What a run sends of the transcript.                                     *)
(***************************************************************************)

(* The transcript t without the replies in R.                            *)
Sent(t, R) == {i \in DOMAIN t : t[i].role = "user" \/ t[i].id \notin R}
View(t, R) == Picked(t, Sent(t, R))

(* The replies and results of t have numbers below n.                    *)
Older(t, n) == \A k \in 1 .. Len(t) : t[k].role # "user" => t[k].id < n

(* The last of a sequence that something was appended to.                *)
LEMMA LastFront ==
  ASSUME NEW S, NEW s \in Seq(S), NEW m \in S
  PROVE  /\ Append(s, m) # << >> /\ Last(Append(s, m)) = m /\ Front(Append(s, m)) = s
<1> DEFINE u == Append(s, m)
           n == Len(s)
<1>1. /\ u \in Seq(S) /\ u # << >> /\ n \in Nat /\ Len(u) = n + 1 /\ u[n + 1] = m
      /\ \A i \in 1 .. n : u[i] = s[i]
  BY AppendProperties, LenProperties
<1> HIDE DEF u, n
<1>2. Last(u) = m
  BY <1>1 DEF Last
<1>3. Front(u) = s
  <2>1. Front(u) = SubSeq(u, 1, n)
    BY <1>1 DEF Front
  <2>2. \A i \in 1 .. n : u[i] \in S
    BY <1>1, ElementOfSeq DEF n
  <2>3. /\ SubSeq(u, 1, n) \in Seq(S) /\ Len(SubSeq(u, 1, n)) = IF 1 <= n THEN n - 1 + 1 ELSE 0
        /\ \A i \in 1 .. n - 1 + 1 : SubSeq(u, 1, n)[i] = u[1 + i - 1]
    BY <1>1, <2>2, SubSeqProperties
  <2>4. Len(SubSeq(u, 1, n)) = n /\ \A i \in 1 .. n : SubSeq(u, 1, n)[i] = s[i]
    BY <1>1, <2>3
  <2>5. SubSeq(u, 1, n) = s
    BY <2>3, <2>4, SeqEqual DEF n
  <2> QED BY <2>1, <2>5
<1> QED BY <1>1, <1>2, <1>3 DEF u

(* What is sent is in the transcript, and all of it when nothing was     *)
(* recovered from.                                                       *)
LEMMA ViewOf ==
  ASSUME NEW t \in Seq(Message)
  PROVE  /\ View(t, {}) = t
         /\ \A R : /\ View(t, R) \in Seq(Message)
                   /\ \A k \in 1 .. Len(View(t, R)) : \E i \in 1 .. Len(t) : View(t, R)[k] = t[i]
<1>1. DOMAIN t = 1 .. Len(t)
  BY LenProperties
<1>2. View(t, {}) = t
  <2>1. \A i \in 1 .. Len(t) : i \in Sent(t, {})
    BY <1>1 DEF Sent
  <2> QED BY <2>1, PickedAll DEF View
<1>3. ASSUME NEW R
      PROVE  /\ View(t, R) \in Seq(Message)
             /\ \A k \in 1 .. Len(View(t, R)) : \E i \in 1 .. Len(t) : View(t, R)[k] = t[i]
  <2>1. PICK p : View(t, R) \in Seq(Message) /\ At(View(t, R), t, Sent(t, R), p)
    BY PickedPlaces DEF View
  <2> QED BY <2>1 DEF At
<1> QED BY <1>2, <1>3

(* One more message is sent, unless it is a reply to recover from.       *)
LEMMA ViewAppend ==
  ASSUME NEW t \in Seq(Message), NEW m \in Message, NEW R
  PROVE  /\ m.role = "user" \/ m.id \notin R => View(Append(t, m), R) = Append(View(t, R), m)
         /\ m.role # "user" /\ Older(t, m.id) /\ m.id \in Nat =>
              View(Append(t, m), R \union {m.id}) = View(t, R)
<1> DEFINE u == Append(t, m)
           n == Len(t)
<1>1. /\ n \in Nat /\ DOMAIN t = 1 .. n /\ DOMAIN u = 1 .. (n + 1)
      /\ u[n + 1] = m /\ \A i \in 1 .. n : u[i] = t[i]
  BY AppendProperties, LenProperties
<1>2. ASSUME NEW U, \A i \in 1 .. n : i \in Sent(t, R) <=> i \in U
      PROVE  Picked(u, U) = IF n + 1 \in U THEN Append(View(t, R), m) ELSE View(t, R)
  <2> DEFINE T == Sent(t, R)
  <2> HIDE DEF T
  <2>1. \A i \in 1 .. Len(t) : i \in T <=> i \in U
    BY <1>2 DEF T
  <2>2. Picked(Append(t, m), U) =
          IF Len(t) + 1 \in U THEN Append(Picked(t, T), m) ELSE Picked(t, T)
    BY <2>1, PickedAppend
  <2> QED BY <2>2 DEF View, T
<1> HIDE DEF u, n
<1>3. \A i \in 1 .. n : i \in 1 .. (n + 1) /\ i # n + 1
  BY <1>1
<1>4. n + 1 \in 1 .. (n + 1)
  BY <1>1
<1>5. ASSUME m.role = "user" \/ m.id \notin R PROVE View(u, R) = Append(View(t, R), m)
  <2>1. \A i \in 1 .. n : i \in Sent(t, R) <=> i \in Sent(u, R)
    BY <1>1, <1>3 DEF Sent
  <2>2. n + 1 \in Sent(u, R)
    BY <1>1, <1>4, <1>5 DEF Sent
  <2> QED BY <1>2, <2>1, <2>2 DEF View
<1>6. ASSUME m.role # "user", Older(t, m.id), m.id \in Nat
      PROVE  View(u, R \union {m.id}) = View(t, R)
  <2>1. \A i \in 1 .. n : t[i].role = "user" \/ t[i].id # m.id
    BY <1>6 DEF Older, n
  <2>2. \A i \in 1 .. n : i \in Sent(t, R) <=> i \in Sent(u, R \union {m.id})
    BY <1>1, <1>3, <2>1 DEF Sent
  <2>3. n + 1 \notin Sent(u, R \union {m.id})
    BY <1>1, <1>6 DEF Sent
  <2> QED BY <1>2, <2>2, <2>3 DEF View
<1> QED BY <1>5, <1>6 DEF u

-----------------------------------------------------------------------------
(***************************************************************************)
(* Replies and the results of their calls.                                 *)
(***************************************************************************)

(* In s the replies after the number f have their results directly       *)
(* behind them.                                                          *)
RepliesAnswered(s, f) ==
  \A j \in 1 .. Len(s) :
    s[j].role = "assistant" /\ s[j].id > f =>
      \A i \in 1 .. s[j].calls :
        /\ j + i \in 1 .. Len(s) /\ s[j + i].role = "toolResult"
        /\ s[j + i].id = s[j].id /\ s[j + i].call = i
ResultsAsked(s, f) ==
  \A j \in 1 .. Len(s) :
    s[j].role = "toolResult" /\ s[j].id > f =>
      \E k \in 1 .. (j - 1) : /\ s[k].role = "assistant" /\ s[k].id = s[j].id
                              /\ j = k + s[j].call
Complete(s, f) == RepliesAnswered(s, f) /\ ResultsAsked(s, f)

(* Nothing is asked before the run.                                      *)
LEMMA CompleteBefore ==
  ASSUME NEW s \in Seq(Message), NEW f \in Nat, Older(s, f + 1)
  PROVE  Complete(s, f)
<1>1. \A k \in 1 .. Len(s) : s[k].role # "user" => ~(s[k].id > f)
  <2> SUFFICES ASSUME NEW k \in 1 .. Len(s), s[k].role # "user" PROVE ~(s[k].id > f)
    OBVIOUS
  <2>1. s[k].id \in Nat
    BY ElementOfSeq, MessageKinds
  <2> QED BY <2>1 DEF Older
<1>2. "assistant" # "user" /\ "toolResult" # "user"
  OBVIOUS
<1> QED BY <1>1, <1>2 DEF Complete, RepliesAnswered, ResultsAsked

(* A caller's message asks for nothing.                                  *)
LEMMA CompleteUser ==
  ASSUME NEW s \in Seq(Message), NEW f, Complete(s, f), NEW m \in UserMessage
  PROVE  Complete(Append(s, m), f)
<1> DEFINE u == Append(s, m)
           n == Len(s)
<1>1. /\ n \in Nat /\ Len(u) = n + 1 /\ u[n + 1] = m /\ \A i \in 1 .. n : u[i] = s[i]
  BY AppendProperties, LenProperties DEF Message
<1>2. m.role = "user"
  BY DEF UserMessage
<1>2a. Len(u) = n + 1
  BY <1>1
<1> HIDE DEF u, n
<1>3. \A j \in 1 .. (n + 1) : u[j].role # "user" => j \in 1 .. n /\ u[j] = s[j]
  BY <1>1, <1>2
<1>4. RepliesAnswered(u, f)
  <2> SUFFICES ASSUME NEW j \in 1 .. (n + 1), u[j].role = "assistant", u[j].id > f,
                      NEW i \in 1 .. u[j].calls
               PROVE  /\ j + i \in 1 .. (n + 1) /\ u[j + i].role = "toolResult"
                      /\ u[j + i].id = u[j].id /\ u[j + i].call = i
    BY <1>2a DEF RepliesAnswered
  <2>1. j \in 1 .. n /\ u[j] = s[j]
    BY <1>3
  <2>2. /\ j + i \in 1 .. n /\ s[j + i].role = "toolResult"
        /\ s[j + i].id = s[j].id /\ s[j + i].call = i
    BY <2>1 DEF Complete, RepliesAnswered, n
  <2>3. u[j + i] = s[j + i] /\ j + i \in 1 .. (n + 1)
    BY <1>1, <2>2
  <2> QED BY <2>1, <2>2, <2>3
<1>5. ResultsAsked(u, f)
  <2> SUFFICES ASSUME NEW j \in 1 .. (n + 1), u[j].role = "toolResult", u[j].id > f
               PROVE  \E k \in 1 .. (j - 1) : /\ u[k].role = "assistant" /\ u[k].id = u[j].id
                                              /\ j = k + u[j].call
    BY <1>2a DEF ResultsAsked
  <2>1. j \in 1 .. n /\ u[j] = s[j]
    BY <1>3
  <2>2. PICK k \in 1 .. (j - 1) : s[k].role = "assistant" /\ s[k].id = s[j].id /\ j = k + s[j].call
    BY <2>1 DEF Complete, ResultsAsked, n
  <2>3. u[k] = s[k]
    BY <1>1, <2>1
  <2> QED BY <2>1, <2>2, <2>3
<1> QED BY <1>4, <1>5 DEF Complete, u

(* A reply with the results of all its calls.                            *)
LEMMA CompleteReply ==
  ASSUME NEW c \in Seq(Message), NEW f, Complete(c, f), NEW m \in Reply, NEW r \in Seq(Result),
         Len(r) = m.calls, \A k \in 1 .. Len(r) : r[k].id = m.id /\ r[k].call = k
  PROVE  Complete(Append(c, m) \o r, f)
<1> DEFINE n == Len(c)
           l == Len(r)
           s == Append(c, m) \o r
<1>1. /\ n \in Nat /\ l \in Nat /\ Len(s) = n + 1 + l
      /\ \A i \in 1 .. n : s[i] = c[i]
      /\ s[n + 1] = m
      /\ \A k \in 1 .. l : s[n + 1 + k] = r[k]
  <2> DEFINE u == Append(c, m)
  <2>1. /\ u \in Seq(Message) /\ n \in Nat /\ Len(u) = n + 1 /\ u[n + 1] = m
        /\ \A i \in 1 .. n : u[i] = c[i]
    BY AppendProperties, LenProperties DEF Message
  <2>2. r \in Seq(Message) /\ l \in Nat
    BY SeqMonotonic, LenProperties DEF Message
  <2> HIDE DEF u
  <2>3. /\ Len(u \o r) = Len(u) + Len(r)
        /\ \A i \in 1 .. Len(u) + Len(r) :
             (u \o r)[i] = IF i <= Len(u) THEN u[i] ELSE r[i - Len(u)]
    BY <2>1, <2>2, ConcatProperties
  <2> HIDE DEF n
  <2>4. \A i \in 1 .. n : (u \o r)[i] = c[i]
    BY <2>1, <2>2, <2>3
  <2>5. (u \o r)[n + 1] = m
    BY <2>1, <2>2, <2>3
  <2>6. \A k \in 1 .. l : (u \o r)[n + 1 + k] = r[k]
    <3> SUFFICES ASSUME NEW k \in 1 .. l PROVE (u \o r)[n + 1 + k] = r[k]
      OBVIOUS
    <3> DEFINE p == n + 1 + k
    <3>1. p \in 1 .. Len(u) + Len(r) /\ ~(p <= Len(u)) /\ p - Len(u) = k
      BY <2>1, <2>2
    <3> HIDE DEF p
    <3>2. (u \o r)[p] = r[k]
      BY <2>3, <3>1
    <3> QED BY <3>2 DEF p
  <2> QED BY <2>1, <2>2, <2>3, <2>4, <2>5, <2>6 DEF u
<1>2. m.role = "assistant" /\ \A k \in 1 .. l : r[k].role = "toolResult"
  <2>1. \A k \in 1 .. l : r[k] \in Result
    BY ElementOfSeq
  <2> QED BY <2>1 DEF Reply, Result
<1>3. m.calls = l /\ \A k \in 1 .. l : r[k].id = m.id /\ r[k].call = k
  OBVIOUS
<1>0. Len(s) = n + 1 + l
  BY <1>1
<1> HIDE DEF n, l, s
<1>4. ASSUME NEW j \in 1 .. (n + 1 + l)
      PROVE  \/ j \in 1 .. n
             \/ j = n + 1
             \/ j - (n + 1) \in 1 .. l /\ j = n + 1 + (j - (n + 1))
  BY <1>1
<1>5. RepliesAnswered(s, f)
  <2> SUFFICES ASSUME NEW j \in 1 .. (n + 1 + l), s[j].role = "assistant", s[j].id > f,
                      NEW i \in 1 .. s[j].calls
               PROVE  /\ j + i \in 1 .. (n + 1 + l) /\ s[j + i].role = "toolResult"
                      /\ s[j + i].id = s[j].id /\ s[j + i].call = i
    BY <1>0 DEF RepliesAnswered
  <2>1. CASE j \in 1 .. n
    <3>1. /\ j + i \in 1 .. n /\ c[j + i].role = "toolResult"
          /\ c[j + i].id = c[j].id /\ c[j + i].call = i
      BY <1>1, <2>1 DEF Complete, RepliesAnswered, n
    <3>2. j + i \in 1 .. (n + 1 + l)
      BY <1>1, <3>1
    <3> QED BY <1>1, <2>1, <3>1, <3>2
  <2>2. CASE j = n + 1
    <3>1. i \in 1 .. l
      BY <1>1, <1>3, <2>2
    <3>2. s[n + 1 + i] = r[i] /\ n + 1 + i \in 1 .. (n + 1 + l)
      BY <1>1, <3>1
    <3> QED BY <1>1, <1>2, <1>3, <2>2, <3>1, <3>2
  <2>3. CASE j - (n + 1) \in 1 .. l /\ j = n + 1 + (j - (n + 1))
    <3>1. s[j] = r[j - (n + 1)]
      BY <1>1, <2>3
    <3> QED BY <1>2, <2>3, <3>1
  <2> QED BY <1>4, <2>1, <2>2, <2>3
<1>6. ResultsAsked(s, f)
  <2> SUFFICES ASSUME NEW j \in 1 .. (n + 1 + l), s[j].role = "toolResult", s[j].id > f
               PROVE  \E k \in 1 .. (j - 1) : /\ s[k].role = "assistant" /\ s[k].id = s[j].id
                                              /\ j = k + s[j].call
    BY <1>0 DEF ResultsAsked
  <2>1. CASE j \in 1 .. n
    <3>1. PICK k \in 1 .. (j - 1) : /\ c[k].role = "assistant" /\ c[k].id = c[j].id
                                    /\ j = k + c[j].call
      BY <1>1, <2>1 DEF Complete, ResultsAsked, n
    <3>2. s[k] = c[k] /\ s[j] = c[j]
      BY <1>1, <2>1
    <3> QED BY <3>1, <3>2
  <2>2. CASE j = n + 1
    BY <1>1, <1>2, <2>2
  <2>3. CASE j - (n + 1) \in 1 .. l /\ j = n + 1 + (j - (n + 1))
    <3>1. s[j] = r[j - (n + 1)]
      BY <1>1, <2>3
    <3>2. s[j].id = m.id /\ s[j].call = j - (n + 1)
      BY <1>3, <2>3, <3>1
    <3>3. n + 1 \in 1 .. (j - 1) /\ j = n + 1 + s[j].call
      BY <1>1, <2>3, <3>2
    <3> QED BY <1>1, <1>2, <3>2, <3>3
  <2> QED BY <1>4, <2>1, <2>2, <2>3
<1> QED BY <1>5, <1>6 DEF Complete, s

-----------------------------------------------------------------------------
(***************************************************************************)
(* The phases of a run.                                                    *)
(***************************************************************************)

RunInv == RunTypes /\ InboxInv

(* A run begins.                                                         *)
LEMMA BeginRun ==
  ASSUME Types, NEW m, NEW skip \in BOOLEAN, Begin(m, skip)
  PROVE  RunInv'
<1>1. /\ phase' = "init" /\ aborted' = FALSE /\ more' = more /\ skipPoll' = skip /\ retry' = retry
      /\ runFrom' = assistants /\ assistants' = assistants /\ ends' = 0 /\ faults' = faults
  BY DEF Begin
<1>2. "init" \in Phases /\ "init" \notin Tooling \union {"streaming", "answered"}
  BY DEF Phases, Tooling
<1>3. aborted' \in BOOLEAN /\ more' \in BOOLEAN /\ skipPoll' \in BOOLEAN
  BY <1>1 DEF Types, RunTypes
<1> QED BY <1>1, <1>2, <1>3 DEF Types, RunTypes, RunInv, InboxInv

(* What callers do to the phases.                                        *)
LEMMA CallerRun ==
  ASSUME Types, InboxInv, Caller
  PROVE  RunInv'
<1> USE DEF Types, RunTypes, RunInv, InboxInv, Phases, Tooling, talkVars, queueVars, toolVars,
            turnVars, runVars
<1>1. ASSUME NEW n \in 1 .. 2, Prompt(n) PROVE RunInv'
  BY <1>1, BeginRun DEF Prompt
<1>2. ASSUME NEW n \in 1 .. 2, Steer(n) \/ FollowUp(n) PROVE RunInv'
  BY <1>2 DEF Steer, FollowUp
<1>3. ASSUME ContinueQueued PROVE RunInv'
  BY <1>3, BeginRun DEF ContinueQueued
<1>4. ASSUME ContinueTranscript PROVE RunInv'
  BY <1>4, BeginRun DEF ContinueTranscript
<1>5. ASSUME Abort PROVE RunInv'
  BY <1>5 DEF Abort
<1>6. ASSUME NEW S, RemoveQueued(S) PROVE RunInv'
  BY <1>6 DEF RemoveQueued
<1> QED BY <1>1, <1>2, <1>3, <1>4, <1>5, <1>6 DEF Caller

(* What the steps of the loop do to them.                                *)
LEMMA LoopRun ==
  ASSUME Types, InboxInv, LoopStep
  PROVE  RunInv'
<1> USE DEF Types, RunTypes, RunInv, InboxInv, Phases, Tooling, talkVars, queueVars, toolVars,
            turnVars, runVars
<1>1. ASSUME Initialized PROVE RunInv'
  BY <1>1 DEF Initialized, Fail, Goto
<1>2. ASSUME OpenRun PROVE RunInv'
  BY <1>2 DEF OpenRun
<1>3. ASSUME PollSteering PROVE RunInv'
  BY <1>3 DEF PollSteering
<1>4. ASSUME TurnStart PROVE RunInv'
  BY <1>4 DEF TurnStart, Fail, Goto
<1>5. ASSUME Inject PROVE RunInv'
  BY <1>5 DEF Inject
<1>6. ASSUME ContextBuilt \/ Ended \/ FinishRun PROVE RunInv'
  BY <1>6 DEF ContextBuilt, Ended, FinishRun
<1>7. ASSUME Recover PROVE RunInv'
  BY <1>7 DEF Recover, Fail, Goto
<1>8. ASSUME TurnEnd PROVE RunInv'
  BY <1>8 DEF TurnEnd, End, Goto
<1>9. ASSUME Polled PROVE RunInv'
  BY <1>9 DEF Polled, End, Goto
<1>10. ASSUME PollFollowUps PROVE RunInv'
  BY <1>10 DEF PollFollowUps
<1>11. ASSUME Followed PROVE RunInv'
  BY <1>11 DEF Followed, End, Goto
<1>12. ASSUME Launch \/ AllSettled PROVE RunInv'
  BY <1>12 DEF Launch, AllSettled, batchVars
<1>13. ASSUME FinishBatch PROVE RunInv'
  BY <1>13 DEF FinishBatch, Fail, Goto
<1>14. ASSUME NEW i \in DOMAIN call,
              Announce(i) \/ Admit(i) \/ CallAborted(i) \/ Publish(i) \/ AnswerCall(i)
       PROVE  RunInv'
  BY <1>14 DEF Announce, Admit, CallAborted, Publish, AnswerCall, stillVars, batchVars
<1>15. ASSUME NEW c \in 0 .. MaxCalls, FinishAborted(c) PROVE RunInv'
  BY <1>15 DEF FinishAborted, Answer
<1>16. ASSUME HandleRunFailure PROVE RunInv'
  BY <1>16 DEF HandleRunFailure
<1> QED BY <1>1, <1>2, <1>3, <1>4, <1>5, <1>6, <1>7, <1>8, <1>9, <1>10, <1>11, <1>12,
           <1>13, <1>14, <1>15, <1>16 DEF LoopStep

(* A reply that is in the context answers the latest request.            *)
LEMMA HookRun ==
  ASSUME Types, InboxInv, HookStep, phase = "answered" => assistants > 0
  PROVE  RunInv'
<1> USE DEF Types, RunTypes, RunInv, InboxInv, Phases, Tooling, talkVars, queueVars, toolVars,
            turnVars, runVars
<1>1. ASSUME Answered PROVE RunInv'
  <2>1. phase = "answered" /\ inbox = << >>
    BY <1>1 DEF Answered
  <2>2. phase' \in {"turnEnd", "calling", "preparing", "turn", "ending", "failing"}
    BY <1>1 DEF Answered, Goto, End, Fail
  <2>3. inbox' = << >> \/ UNCHANGED inbox
    BY <1>1 DEF Answered, Goto, End, Fail
  <2>4. more' = FALSE \/ UNCHANGED more
    BY <1>1 DEF Answered
  <2>5. UNCHANGED ends \/ ends' = ends + 1
    BY <1>1 DEF Answered, Goto, End
  <2>6. UNCHANGED << aborted, skipPoll, retry, runFrom, assistants, faults >>
    BY <1>1 DEF Answered
  <2>7. more' \in BOOLEAN
    BY <2>4
  <2>8. ends' \in Nat
    BY <2>5
  <2>9. InboxInv'
    BY <2>1, <2>3
  <2>10. phase' \in Phases /\ assistants > 0
    BY <2>1, <2>2
  <2>11. RunTypes'
    BY <2>6, <2>7, <2>8, <2>10
  <2> QED BY <2>9, <2>11
<1>2. ASSUME Outcome PROVE RunInv'
  BY <1>2 DEF Outcome, End, Goto
<1>3. ASSUME Continuation PROVE RunInv'
  BY <1>3 DEF Continuation, End
<1>4. ASSUME NEW i \in DOMAIN call, PrepareCall(i) PROVE RunInv'
  BY <1>4 DEF PrepareCall, stillVars, batchVars
<1> QED BY <1>1, <1>2, <1>3, <1>4 DEF HookStep

(* What the provider, the tools and their owners do to them.             *)
LEMMA OutsideRun ==
  ASSUME Types, InboxInv, Outside
  PROVE  RunInv'
<1> USE DEF Types, RunTypes, RunInv, InboxInv, Phases, Tooling, talkVars, queueVars, toolVars,
            turnVars, runVars
<1>1. ASSUME SendRequest \/ ProviderStarts \/ BudgetFailure PROVE RunInv'
  BY <1>1 DEF SendRequest, ProviderStarts, BudgetFailure
<1>2. ASSUME PrepareFails PROVE RunInv'
  BY <1>2 DEF PrepareFails, Fail, Goto
<1>3. ASSUME Throw PROVE RunInv'
  BY <1>3 DEF Throw, Fail
<1>4. ASSUME NEW c \in 0 .. MaxCalls, NEW s \in {"stop", "error"}, ProviderAnswers(c, s)
      PROVE  RunInv'
  BY <1>4 DEF ProviderAnswers, Answer
<1>5. ASSUME NEW t \in toolStarted, ToolFinishes(t) PROVE RunInv'
  BY <1>5 DEF ToolFinishes, stillVars, batchVars
<1>6. ASSUME NEW i \in DOMAIN call, CallReturns(i) \/ CallRejected(i) PROVE RunInv'
  BY <1>6 DEF CallReturns, CallRejected, Fail, stillVars, batchVars
<1> QED BY <1>1, <1>2, <1>3, <1>4, <1>5, <1>6 DEF Outside

(* The run goes from phase to phase.                                     *)
LEMMA RunKept ==
  ASSUME Types, InboxInv, [Next]_vars
  PROVE  RunInv'
<1>1. CASE UNCHANGED vars
  BY <1>1 DEF vars, talkVars, turnVars, runVars, Types, RunTypes, RunInv, InboxInv
<1>2. phase = "answered" => assistants > 0
  BY DEF Types, RunTypes
<1> QED BY <1>1, <1>2, CallerRun, LoopRun, HookRun, OutsideRun DEF Next

-----------------------------------------------------------------------------
(***************************************************************************)
(* What a step does to the context of the run.                             *)
(***************************************************************************)

(* Phases of a run that goes on and has neither a request under way nor  *)
(* a reply to settle; phases of a run that is over.                      *)
Going == {"firstPoll", "turn", "inject", "build", "prepare", "recovering", "outcome", "poll",
          "polled", "followPoll", "followed", "continuation"}
Spent == {"ending", "failing", "closing"}

ctl == << transcript, context, results, recovered, assistants, runFrom >>

Stays == UNCHANGED << ctl, phase, call, inbox >> /\ (aborted => aborted')
Proceeds == UNCHANGED << ctl, aborted >> /\ phase \in Going /\ phase' \in Going
Halts == UNCHANGED ctl /\ phase' \in Spent
(* Calls of a batch move, and none is answered. *)
Moves ==
  /\ phase \in Tooling /\ phase' \in Tooling /\ UNCHANGED << ctl, aborted >>
  /\ call' \in Seq(Call) /\ Len(call') = Len(call)
  /\ \A i \in 1 .. Len(call) : /\ call'[i].at = "answered" <=> call[i].at = "answered"
                               /\ call[i].at = "rejected" => call'[i].at = "rejected"
Begins ==
  /\ phase = "idle" /\ phase' = "init" /\ runFrom' = assistants
  /\ UNCHANGED << transcript, context, results, recovered, assistants >>
Replies(m) ==
  /\ phase \in {"build", "prepare", "streaming"} /\ phase' = "answered"
  /\ assistants' = (IF phase = "streaming" THEN assistants ELSE assistants + 1)
  /\ m.id = assistants'
  /\ context' = Place(m) /\ transcript' = Append(transcript, m)
  /\ UNCHANGED << results, recovered, runFrom >>
FinalReply == {m \in Reply : m.stop # "partial"}

ContextStep ==
  \/ Stays \/ Proceeds \/ Halts \/ Moves \/ Begins
  \/ Initialized \/ OpenRun \/ Inject \/ TurnEnd \/ SendRequest \/ ProviderStarts
  \/ \E m \in FinalReply : Replies(m)
  \/ Answered \/ (\E i \in DOMAIN call : AnswerCall(i)) \/ FinishBatch
  \/ HandleRunFailure \/ FinishRun

(* What callers do to the context.                                       *)
LEMMA CallerContext ==
  ASSUME Caller
  PROVE  ContextStep
<1> USE DEF ctl, talkVars, queueVars, toolVars, runVars
<1>1. ASSUME NEW n \in 1 .. 2, Prompt(n) PROVE Begins
  BY <1>1 DEF Prompt, Begin, Begins
<1>2. ASSUME NEW n \in 1 .. 2, Steer(n) \/ FollowUp(n) PROVE Stays
  BY <1>2 DEF Steer, FollowUp, Stays
<1>3. ASSUME ContinueQueued \/ ContinueTranscript PROVE Begins
  BY <1>3 DEF ContinueQueued, ContinueTranscript, Begin, Begins
<1>4. ASSUME Abort PROVE Stays
  BY <1>4 DEF Abort, Stays
<1>5. ASSUME NEW S, RemoveQueued(S) PROVE Stays
  BY <1>5 DEF RemoveQueued, Stays
<1> QED BY <1>1, <1>2, <1>3, <1>4, <1>5 DEF Caller, ContextStep

(* One call moves to another place.                                      *)
LEMMA MovesOne ==
  ASSUME Types, NEW i \in DOMAIN call, NEW c \in Call, call' = [call EXCEPT ![i] = c]
  PROVE  /\ call' \in Seq(Call) /\ Len(call') = Len(call) /\ i \in 1 .. Len(call)
         /\ \A j \in 1 .. Len(call) : call'[j] = IF j = i THEN c ELSE call[j]
<1>1. call \in Seq(Call) /\ i \in 1 .. Len(call)
  BY LenProperties DEF Types, CallTypes
<1> QED BY <1>1, ExceptSeq

(* A call moves and keeps its outcome.                                   *)
LEMMA MovedCall ==
  ASSUME Types, NEW i \in DOMAIN call, NEW p \in Places, call' = [call EXCEPT ![i].at = p]
  PROVE  /\ call' \in Seq(Call) /\ Len(call') = Len(call) /\ i \in 1 .. Len(call)
         /\ \A j \in 1 .. Len(call) : j # i => call'[j] = call[j]
         /\ call'[i] = [at |-> p, outcome |-> call[i].outcome]
<1>1. call \in Seq(Call) /\ call[i] \in Call
  BY DEF Types, CallTypes
<1>2. [call[i] EXCEPT !.at = p] = [at |-> p, outcome |-> call[i].outcome]
  BY <1>1 DEF Call
<1>3. [at |-> p, outcome |-> call[i].outcome] \in Call
  BY <1>1 DEF Call
<1>4. call' = [call EXCEPT ![i] = [at |-> p, outcome |-> call[i].outcome]]
  BY <1>2
<1> DEFINE c == [at |-> p, outcome |-> call[i].outcome]
<1>5. c \in Call /\ call' = [call EXCEPT ![i] = c]
  BY <1>3, <1>4
<1> HIDE DEF c
<1>6. /\ call' \in Seq(Call) /\ Len(call') = Len(call) /\ i \in 1 .. Len(call)
      /\ \A j \in 1 .. Len(call) : call'[j] = IF j = i THEN c ELSE call[j]
  BY <1>5, MovesOne
<1> QED BY <1>6 DEF c

(* A call gets its outcome.                                              *)
LEMMA SettledCall ==
  ASSUME Types, NEW i \in DOMAIN call, NEW o \in Outcomes, Settled(i, o)
  PROVE  /\ call' \in Seq(Call) /\ Len(call') = Len(call) /\ i \in 1 .. Len(call)
         /\ \A j \in 1 .. Len(call) : j # i => call'[j] = call[j]
         /\ call'[i] = [at |-> "publishing", outcome |-> o]
<1>1. [at |-> "publishing", outcome |-> o] \in Call
  BY DEF Call, Places
<1> QED BY <1>1, MovesOne DEF Settled

(* A call that is neither answered nor rejected and does not become      *)
(* answered moves.                                                       *)
LEMMA MovesWithin ==
  ASSUME Types, phase \in Tooling, UNCHANGED << phase, ctl, aborted >>,
         NEW i \in DOMAIN call, call[i].at \notin {"answered", "rejected"},
         \/ \E p \in Places \ {"answered"} : Moved(i, p)
         \/ \E o \in Outcomes : Settled(i, o)
  PROVE  Moves
<1>1. /\ call' \in Seq(Call) /\ Len(call') = Len(call) /\ i \in 1 .. Len(call)
      /\ \A j \in 1 .. Len(call) : j # i => call'[j] = call[j]
      /\ call'[i].at # "answered"
  <2>1. CASE \E p \in Places \ {"answered"} : Moved(i, p)
    BY <2>1, MovedCall DEF Moved
  <2>2. CASE \E o \in Outcomes : Settled(i, o)
    <3>1. PICK o \in Outcomes : Settled(i, o)
      BY <2>2
    <3>2. /\ call' \in Seq(Call) /\ Len(call') = Len(call) /\ i \in 1 .. Len(call)
          /\ \A j \in 1 .. Len(call) : j # i => call'[j] = call[j]
          /\ call'[i] = [at |-> "publishing", outcome |-> o]
      BY <3>1, SettledCall
    <3>3. call'[i].at # "answered"
      BY <3>2
    <3> QED BY <3>2, <3>3
  <2> QED BY <2>1, <2>2
<1> QED BY <1>1 DEF Moves

(* All calls of a parallel batch begin together, or one of a sequential  *)
(* batch; after an abort they do not.                                    *)
LEMMA LaunchMoves ==
  ASSUME Types, Launch
  PROVE  Moves
<1> DEFINE moved(i) == IF call[i].at # "ready" THEN call[i]
                       ELSE IF aborted THEN [at |-> "publishing", outcome |-> "not_started"]
                       ELSE [at |-> "admitting", outcome |-> "none"]
<1>1. call \in Seq(Call) /\ DOMAIN call = 1 .. Len(call) /\ Len(call) \in Nat
  BY LenProperties DEF Types, CallTypes
<1>2. \A i \in 1 .. Len(call) : call[i] \in Call
  BY <1>1, ElementOfSeq
<1>3. \A i \in 1 .. Len(call) : moved(i) \in Call
  BY <1>2 DEF Call, Places, Outcomes
<1>4. \A i \in 1 .. Len(call) : /\ moved(i).at = "answered" <=> call[i].at = "answered"
                                /\ call[i].at = "rejected" => moved(i).at = "rejected"
  OBVIOUS
<1>5. call' = [i \in 1 .. Len(call) |-> moved(i)]
  BY <1>1 DEF Launch
<1> HIDE DEF moved
<1>6. call' \in [1 .. Len(call) -> Call] /\ \A i \in 1 .. Len(call) : call'[i] = moved(i)
  BY <1>3, <1>5
<1>7. call' \in Seq(Call) /\ Len(call') = Len(call)
  BY <1>1, <1>6, IsASeq
<1>8. phase \in Tooling /\ phase' \in Tooling /\ UNCHANGED << ctl, aborted >>
  BY DEF Launch, Tooling, ctl, batchVars
<1> QED BY <1>4, <1>6, <1>7, <1>8 DEF Moves

(* What the steps of the loop do to the context.                         *)
LEMMA LoopContext ==
  ASSUME Types, LoopStep
  PROVE  ContextStep
<1> USE DEF ctl, talkVars, queueVars, toolVars, runVars
<1>1. ASSUME PollSteering \/ PollFollowUps \/ ContextBuilt PROVE Proceeds
  BY <1>1 DEF PollSteering, PollFollowUps, ContextBuilt, Proceeds, Going
<1>2. ASSUME TurnStart \/ Recover \/ Polled \/ Followed PROVE Proceeds \/ Halts
  BY <1>2 DEF TurnStart, Recover, Polled, Followed, Fail, Goto, End, Proceeds, Halts, Going, Spent
<1>3. ASSUME Launch PROVE Moves
  BY <1>3, LaunchMoves
<1>4. ASSUME AllSettled PROVE Moves
  BY <1>4 DEF AllSettled, Moves, Tooling, batchVars, Types, CallTypes
<1>5. ASSUME NEW i \in DOMAIN call, Announce(i) \/ Admit(i) \/ CallAborted(i) \/ Publish(i)
      PROVE  Moves
  <2>1. /\ phase \in Tooling /\ UNCHANGED << phase, ctl, aborted >>
        /\ call[i].at \notin {"answered", "rejected"}
    BY <1>5 DEF Announce, Admit, CallAborted, Publish, ToolPhase, Tooling, stillVars, batchVars
  <2>2. \/ \E p \in Places \ {"answered"} : Moved(i, p)
        \/ \E o \in Outcomes : Settled(i, o)
    BY <1>5 DEF Announce, Admit, CallAborted, Publish, Places, Outcomes
  <2> QED BY <2>1, <2>2, MovesWithin
<1>6. ASSUME NEW c \in 0 .. MaxCalls, FinishAborted(c) PROVE \E m \in FinalReply : Replies(m)
  <2> DEFINE m == Assistant(assistants', c, "aborted")
  <2>1. assistants' \in Nat \ {0} /\ c \in Nat
    BY <1>6, BoundAssumption DEF FinishAborted, Types, RunTypes
  <2>2. m \in FinalReply
    BY <2>1, MessagesMade DEF Stops, FinalReply, Assistant
  <2>3. m.id = assistants'
    BY DEF Assistant
  <2>4. /\ phase \in {"build", "prepare", "streaming"} /\ phase' = "answered"
        /\ assistants' = (IF phase = "streaming" THEN assistants ELSE assistants + 1)
        /\ context' = Place(m) /\ transcript' = Append(transcript, m)
        /\ UNCHANGED << results, recovered, runFrom >>
    BY <1>6 DEF FinishAborted, Answer
  <2> HIDE DEF m
  <2> QED BY <2>2, <2>3, <2>4 DEF Replies
<1>7. ASSUME Ended PROVE Halts
  BY <1>7 DEF Ended, Halts, Spent
<1> QED BY <1>1, <1>2, <1>3, <1>4, <1>5, <1>6, <1>7 DEF LoopStep, ContextStep

(* What the hooks do to it.                                              *)
LEMMA HookContext ==
  ASSUME Types, HookStep
  PROVE  ContextStep
<1> USE DEF ctl, talkVars, queueVars, toolVars, runVars
<1>1. ASSUME Outcome PROVE Proceeds \/ Halts
  BY <1>1 DEF Outcome, Goto, End, Proceeds, Halts, Going, Spent
<1>2. ASSUME Continuation PROVE Proceeds \/ Halts
  BY <1>2 DEF Continuation, End, Proceeds, Halts, Going, Spent
<1>3. ASSUME NEW i \in DOMAIN call, PrepareCall(i) PROVE Moves
  <2>1. /\ phase \in Tooling /\ UNCHANGED << phase, ctl, aborted >>
        /\ call[i].at \notin {"answered", "rejected"}
    BY <1>3 DEF PrepareCall, Tooling, stillVars, batchVars
  <2>2. \/ \E p \in Places \ {"answered"} : Moved(i, p)
        \/ \E o \in Outcomes : Settled(i, o)
    BY <1>3 DEF PrepareCall, Places, Outcomes
  <2> QED BY <2>1, <2>2, MovesWithin
<1> QED BY <1>1, <1>2, <1>3 DEF HookStep, ContextStep

(* What the provider, the tools and their owners do to it.               *)
LEMMA OutsideContext ==
  ASSUME Types, Outside
  PROVE  ContextStep
<1> USE DEF ctl, talkVars, queueVars, toolVars, runVars
<1>1. ASSUME PrepareFails PROVE Proceeds \/ Halts
  BY <1>1 DEF PrepareFails, Goto, Fail, Proceeds, Halts, Going, Spent
<1>2. ASSUME BudgetFailure \/ Throw PROVE Halts
  BY <1>2 DEF BudgetFailure, Throw, Fail, Halts, Spent
<1>3. ASSUME NEW c \in 0 .. MaxCalls, NEW s \in {"stop", "error"}, ProviderAnswers(c, s)
      PROVE  \E m \in FinalReply : Replies(m)
  <2> DEFINE m == Assistant(assistants, c, s)
  <2>1. assistants \in Nat \ {0} /\ c \in Nat
    BY <1>3, BoundAssumption DEF ProviderAnswers, Types, RunTypes
  <2>2. m \in FinalReply
    BY <2>1, MessagesMade DEF Stops, FinalReply, Assistant
  <2>3. m.id = assistants
    BY DEF Assistant
  <2>4. /\ phase = "streaming" /\ phase' = "answered" /\ assistants' = assistants
        /\ context' = Place(m) /\ transcript' = Append(transcript, m)
        /\ UNCHANGED << results, recovered, runFrom >>
    BY <1>3 DEF ProviderAnswers, Answer
  <2> HIDE DEF m
  <2> QED BY <2>2, <2>3, <2>4 DEF Replies
<1>4. ASSUME NEW t \in toolStarted, ToolFinishes(t) PROVE Stays
  BY <1>4 DEF ToolFinishes, Stays, stillVars, batchVars
<1>5. ASSUME NEW i \in DOMAIN call, CallReturns(i) PROVE Moves
  <2>1. /\ phase \in Tooling /\ UNCHANGED << phase, ctl, aborted >>
        /\ call[i].at \notin {"answered", "rejected"}
    BY <1>5 DEF CallReturns, ToolPhase, Tooling, stillVars, batchVars
  <2>2. \E o \in Outcomes : Settled(i, o)
    BY <1>5 DEF CallReturns, Outcomes
  <2> QED BY <2>1, <2>2, MovesWithin
<1>6. ASSUME NEW i \in DOMAIN call, CallRejected(i) PROVE Moves \/ Halts
  <2>1. CASE phase = "executing"
    <3>1. /\ phase \in Tooling /\ UNCHANGED << phase, ctl, aborted >>
          /\ call[i].at \notin {"answered", "rejected"}
      BY <1>6, <2>1 DEF CallRejected, Tooling, stillVars, batchVars
    <3>2. \E p \in Places \ {"answered"} : Moved(i, p)
      BY <1>6, <2>1 DEF CallRejected, Places
    <3> QED BY <3>1, <3>2, MovesWithin
  <2>2. CASE phase # "executing"
    BY <1>6, <2>2 DEF CallRejected, Fail, Halts, Spent, batchVars
  <2> QED BY <2>1, <2>2
<1> QED BY <1>1, <1>2, <1>3, <1>4, <1>5, <1>6 DEF Outside, ContextStep

(* Every step does one of these to the context.                          *)
LEMMA ContextShape ==
  ASSUME Types, [Next]_vars
  PROVE  ContextStep
<1>1. CASE UNCHANGED vars
  BY <1>1 DEF vars, talkVars, toolVars, runVars, ctl, ContextStep, Stays
<1> QED BY <1>1, CallerContext, LoopContext, HookContext, OutsideContext DEF Next

-----------------------------------------------------------------------------
(***************************************************************************)
(* The context of a run, and what it asks.                                 *)
(***************************************************************************)

(* No reply of t is partial.                                             *)
Whole(t) == \A k \in 1 .. Len(t) : t[k].role = "assistant" => t[k].stop # "partial"

(* The numbers of replies and results; what has been recovered from.     *)
IdInv ==
  /\ recovered \subseteq 1 .. assistants
  /\ Older(transcript, assistants + 1)
  /\ phase \in {"init", "open"} => runFrom = assistants
  /\ phase \in {"idle", "init", "open"} => recovered = {}
  /\ phase = "streaming" => Older(transcript, assistants) /\ assistants \notin recovered
  /\ Whole(transcript)

(* The context is what is sent of the transcript, with the partial reply *)
(* of a request under way, or without the results of the present batch.  *)
ViewInv ==
  LET W == View(transcript, recovered)
  IN  /\ phase = "open" => context = transcript \o inbox
      /\ phase \in Going => context = W
      /\ phase = "streaming" =>
           context = W \/ context = Append(W, Assistant(assistants, 0, "partial"))
      /\ phase \in Tooling \union {"turnEnd"} => context \o results = W
      /\ phase \in Tooling => assistants \notin recovered

(* The reply m ends the transcript and the context.                      *)
AnsweredWith(u, m) ==
  /\ u \in Seq(Message) /\ m \in FinalReply
  /\ transcript = Append(u, m) /\ context = Append(View(u, recovered), m)
  /\ m.id = assistants /\ Older(u, assistants) /\ assistants \notin recovered
  /\ Complete(View(u, recovered), runFrom)

(* The batch are the calls of the reply m, the last of the context.      *)
AskedBy(c, m) ==
  /\ c \in Seq(Message) /\ m \in Reply /\ context = Append(c, m)
  /\ m.id = assistants /\ m.calls = Len(call) /\ Complete(c, runFrom)

(* Without a rejected call, the answered ones are the first of the batch *)
(* and their results stand in their order.                               *)
ResultsInOrder ==
  (\A i \in 1 .. Len(call) : call[i].at # "rejected") =>
    /\ Len(results) <= Len(call)
    /\ \A i \in 1 .. Len(call) : call[i].at = "answered" <=> i <= Len(results)
    /\ \A r \in 1 .. Len(results) : results[r].id = assistants /\ results[r].call = r

(* Every reply of the run is complete before the run goes on.            *)
AskedInv ==
  /\ phase \in Going \union {"streaming"} => Complete(View(transcript, recovered), runFrom)
  /\ phase = "answered" => \E u, m : AnsweredWith(u, m)
  /\ phase \in Tooling => (\E c, m : AskedBy(c, m)) /\ ResultsInOrder
  /\ phase = "turnEnd" => aborted \/ Complete(View(transcript, recovered), runFrom)

ContextInv == ContextTypes /\ IdInv /\ ViewInv /\ AskedInv

(* Where the phases stand that the invariant tells apart.                *)
LEMMA PhaseSets ==
  /\ \A p \in Going :
       p \notin Tooling \union {"open", "init", "idle", "streaming", "answered", "turnEnd"}
  /\ \A p \in Spent \union {"idle", "init"} :
       p \notin Going \union Tooling \union {"open", "streaming", "answered", "turnEnd"}
  /\ \A p \in Tooling : p \notin {"open", "init", "idle", "streaming", "answered", "turnEnd"}
  /\ \A p \in Spent : p \notin {"open", "init", "idle"}
  BY DEF Going, Spent, Tooling

(* A run that is over keeps no promise about its context.                *)
LEMMA ContextOver ==
  ASSUME phase' \in Spent \union {"idle", "init"}
  PROVE  ViewInv' /\ AskedInv'
  BY PhaseSets DEF ViewInv, AskedInv

(* A run that goes on.                                                   *)
LEMMA ContextOn ==
  ASSUME phase' \in Going, context' = View(transcript, recovered)',
         Complete(View(transcript, recovered), runFrom)'
  PROVE  ViewInv' /\ AskedInv'
  BY PhaseSets DEF ViewInv, AskedInv

(* More messages have numbers below a higher bound.                      *)
LEMMA OlderMore ==
  ASSUME NEW t \in Seq(Message), NEW n \in Nat, Older(t, n)
  PROVE  /\ Older(t, n + 1)
         /\ \A m \in Message : m.role = "user" => Older(Append(t, m), n)
         /\ \A m \in Message : m.id = n => Older(Append(t, m), n + 1)
<1> DEFINE l == Len(t)
<1>1. ASSUME NEW m \in Message
      PROVE  /\ l \in Nat /\ Len(Append(t, m)) = l + 1 /\ Append(t, m)[l + 1] = m
             /\ \A k \in 1 .. l : Append(t, m)[k] = t[k]
  BY AppendProperties, LenProperties
<1>2. \A k \in 1 .. l : t[k].id \in Nat /\ (t[k].role # "user" => t[k].id < n)
  BY ElementOfSeq, MessageKinds DEF Older
<1>3. l \in Nat
  BY LenProperties
<1> HIDE DEF l
<1>4. Older(t, n + 1)
  <2>1. \A k \in 1 .. l : t[k].role # "user" => t[k].id < n + 1
    BY <1>2
  <2> QED BY <2>1 DEF Older, l
<1>5. ASSUME NEW m \in Message, m.role = "user" PROVE Older(Append(t, m), n)
  <2>1. \A k \in 1 .. l + 1 : k \in 1 .. l \/ k = l + 1
    BY <1>3
  <2> QED BY <1>1, <1>2, <1>5, <2>1 DEF Older
<1>6. ASSUME NEW m \in Message, m.id = n PROVE Older(Append(t, m), n + 1)
  <2>1. \A k \in 1 .. l + 1 : k \in 1 .. l \/ k = l + 1
    BY <1>3
  <2>2. ASSUME NEW k \in 1 .. l + 1, Append(t, m)[k].role # "user"
        PROVE  Append(t, m)[k].id < n + 1
    <3>1. CASE k \in 1 .. l
      BY <1>1, <1>2, <2>2, <3>1
    <3>2. CASE k = l + 1
      BY <1>1, <1>6, <3>2
    <3> QED BY <2>1, <3>1, <3>2
  <2> QED BY <1>1, <2>2 DEF Older
<1> QED BY <1>4, <1>5, <1>6

(* It stays so when what is appended is no partial reply.                *)
LEMMA WholeMore ==
  ASSUME NEW t \in Seq(Message), Whole(t), NEW m \in Message,
         m.role = "assistant" => m.stop # "partial"
  PROVE  Whole(Append(t, m))
<1> DEFINE l == Len(t)
<1>1. /\ l \in Nat /\ Len(Append(t, m)) = l + 1 /\ Append(t, m)[l + 1] = m
      /\ \A k \in 1 .. l : Append(t, m)[k] = t[k]
  BY AppendProperties, LenProperties
<1>2. \A k \in 1 .. l + 1 : k \in 1 .. l \/ k = l + 1
  BY <1>1
<1> QED BY <1>1, <1>2 DEF Whole

(* Taking the first of r to the end of s changes nothing of both.        *)
LEMMA HeadOver ==
  ASSUME NEW S, NEW s \in Seq(S), NEW r \in Seq(S)
  PROVE  /\ r # << >> => Append(s, Head(r)) \o Tail(r) = s \o r
         /\ s \o << >> = s
         /\ \A m \in S : s \o Append(r, m) = Append(s \o r, m)
<1>1. ASSUME r # << >> PROVE Append(s, Head(r)) \o Tail(r) = s \o r
  <2> DEFINE h == << Head(r) >>
             t == Tail(r)
             n == Len(r)
  <2>1. /\ Head(r) \in S /\ t \in Seq(S) /\ Len(t) = n - 1 /\ n \in Nat \ {0}
        /\ \A i \in 1 .. n - 1 : t[i] = r[i + 1]
    BY <1>1, HeadTailProperties, LenProperties, EmptySeq
  <2>2. h \in Seq(S) /\ Len(h) = 1 /\ h[1] = r[1] /\ Append(s, Head(r)) = s \o h
    BY <1>1, <2>1, AppendIsConcat
  <2> HIDE DEF h, t
  <2>3. /\ h \o t \in Seq(S) /\ Len(h \o t) = Len(h) + Len(t)
        /\ \A i \in 1 .. Len(h) + Len(t) : (h \o t)[i] = IF i <= Len(h) THEN h[i] ELSE t[i - Len(h)]
    BY <2>1, <2>2, ConcatProperties
  <2> HIDE DEF n
  <2>4. Len(h \o t) = n
    BY <2>1, <2>2, <2>3
  <2>5. ASSUME NEW i \in 1 .. n PROVE (h \o t)[i] = r[i]
    <3>1. CASE i = 1
      BY <2>1, <2>2, <2>3, <3>1
    <3>2. CASE i # 1
      <4>1. i - 1 \in 1 .. n - 1 /\ ~(i <= 1) /\ (i - 1) + 1 = i
        BY <2>1, <3>2
      <4>2. (h \o t)[i] = t[i - 1] /\ t[i - 1] = r[i]
        BY <2>1, <2>2, <2>3, <2>4, <4>1
      <4> QED BY <4>2
    <3> QED BY <3>1, <3>2
  <2>6. h \o t = r
    BY <2>3, <2>4, <2>5, SeqEqual DEF n
  <2>7. (s \o h) \o t = s \o (h \o t)
    BY <2>1, <2>2, ConcatAssociative
  <2> QED BY <2>2, <2>6, <2>7 DEF t
<1>2. s \o << >> = s
  BY ConcatEmptySeq
<1>3. ASSUME NEW m \in S PROVE s \o Append(r, m) = Append(s \o r, m)
  <2>1. << m >> \in Seq(S) /\ s \o r \in Seq(S)
    BY ConcatProperties
  <2>2. Append(r, m) = r \o << m >> /\ Append(s \o r, m) = (s \o r) \o << m >>
    BY <2>1, AppendIsConcat
  <2> QED BY <2>1, <2>2, ConcatAssociative
<1> QED BY <1>1, <1>2, <1>3

-----------------------------------------------------------------------------
(***************************************************************************)
(* Each of these steps keeps the invariant of the context.                 *)
(***************************************************************************)

(* A step beside the run, of a caller or of a tool it has given up.      *)
LEMMA StaysContext ==
  ASSUME ContextInv, Stays
  PROVE  ContextInv'
<1>1. UNCHANGED << transcript, context, results, recovered, assistants, runFrom, phase, call,
                   inbox >>
  BY DEF Stays, ctl
<1>2. ContextTypes' /\ IdInv' /\ ViewInv'
  BY <1>1 DEF ContextInv, ContextTypes, IdInv, ViewInv
<1>3. AskedInv'
  BY <1>1 DEF ContextInv, AskedInv, AnsweredWith, AskedBy, ResultsInOrder, Stays
<1> QED BY <1>2, <1>3 DEF ContextInv

(* The run goes on, or it is over, and its context stays.                *)
LEMMA ProceedsContext ==
  ASSUME ContextInv, Proceeds \/ Halts
  PROVE  ContextInv'
<1>1. UNCHANGED << transcript, context, results, recovered, assistants, runFrom >>
  BY DEF Proceeds, Halts, ctl
<1>2. phase' \notin {"open", "init", "idle", "streaming"}
  BY PhaseSets DEF Proceeds, Halts
<1>3. ContextTypes' /\ IdInv'
  BY <1>1, <1>2 DEF ContextInv, ContextTypes, IdInv
<1>4. CASE Proceeds
  <2>1. phase \in Going /\ phase' \in Going
    BY <1>4 DEF Proceeds
  <2>2. context = View(transcript, recovered) /\ Complete(View(transcript, recovered), runFrom)
    BY <2>1 DEF ContextInv, ViewInv, AskedInv
  <2>3. context' = View(transcript, recovered)' /\ Complete(View(transcript, recovered), runFrom)'
    BY <1>1, <2>2
  <2> QED BY <1>3, <2>1, <2>3, ContextOn DEF ContextInv
<1>5. CASE Halts
  BY <1>3, <1>5, ContextOver DEF Halts, ContextInv
<1> QED BY <1>4, <1>5

(* A run begins.                                                         *)
LEMMA BeginsContext ==
  ASSUME ContextInv, Begins
  PROVE  ContextInv'
<1>1. /\ UNCHANGED << transcript, context, results, recovered, assistants >>
      /\ runFrom' = assistants /\ phase' = "init" /\ phase = "idle"
  BY DEF Begins
<1>2. ContextTypes' /\ IdInv'
  BY <1>1 DEF ContextInv, ContextTypes, IdInv
<1> QED BY <1>1, <1>2, ContextOver DEF ContextInv

(* Its context is the transcript with the prompts.                       *)
LEMMA InitializedContext ==
  ASSUME Types, ContextInv, Initialized
  PROVE  ContextInv'
<1>1. UNCHANGED << transcript, results, recovered, assistants, runFrom >> /\ phase = "init"
  BY DEF Initialized, toolVars
<1>2. CASE aborted
  <2>1. phase' = "failing" /\ UNCHANGED context
    BY <1>2 DEF Initialized, Fail
  <2>2. phase' \in Spent
    BY <2>1 DEF Spent
  <2>3. ContextTypes' /\ IdInv'
    BY <1>1, <2>1 DEF ContextInv, ContextTypes, IdInv
  <2> QED BY <2>2, <2>3, ContextOver DEF ContextInv
<1>3. CASE ~aborted
  <2>1. phase' = "open" /\ context' = transcript \o inbox /\ UNCHANGED inbox
    BY <1>3 DEF Initialized, Goto
  <2>2. inbox \in Seq(Message) /\ transcript \in Seq(Message)
    BY SeqMonotonic DEF Types, TalkTypes, Batch, Message
  <2>3. ContextTypes'
    BY <1>1, <2>1, <2>2, ConcatProperties DEF ContextInv, ContextTypes
  <2>4. IdInv'
    BY <1>1, <2>1 DEF ContextInv, IdInv
  <2>5. ViewInv' /\ AskedInv'
    BY <1>1, <2>1 DEF ViewInv, AskedInv, Going, Tooling
  <2> QED BY <2>3, <2>4, <2>5 DEF ContextInv
<1> QED BY <1>2, <1>3

(* A message of a caller is emitted: the transcript takes it.            *)
LEMMA EmittedIds ==
  ASSUME Types, IdInv, inbox # << >>, transcript' = Append(transcript, Head(inbox)),
         inbox' = Tail(inbox), UNCHANGED << phase, recovered, assistants, runFrom >>
  PROVE  /\ IdInv' /\ Head(inbox) \in UserMessage /\ Head(inbox) \in Message
         /\ transcript \in Seq(Message) /\ transcript' \in Seq(Message)
         /\ inbox \in Seq(Message) /\ inbox' \in Seq(Message)
<1> DEFINE m == Head(inbox)
<1>1. /\ m \in UserMessage /\ m \in Message /\ m.role = "user"
      /\ transcript \in Seq(Message) /\ inbox \in Seq(Message) /\ inbox' \in Seq(Message)
  <2>1. m \in UserMessage /\ inbox \in Seq(UserMessage) /\ inbox' \in Seq(UserMessage)
    BY HeadTailProperties DEF Types, TalkTypes, Batch
  <2>2. m.role = "user"
    BY <2>1 DEF UserMessage
  <2> QED BY <2>1, <2>2, SeqMonotonic DEF Types, TalkTypes, Message
<1>2. transcript' = Append(transcript, m)
  OBVIOUS
<1> HIDE DEF m
<1>3. assistants + 1 \in Nat /\ assistants \in Nat
  BY DEF Types, RunTypes
<1>4. /\ Older(transcript, assistants + 1) => Older(transcript', assistants + 1)
      /\ Older(transcript, assistants) => Older(transcript', assistants)
  BY <1>1, <1>2, <1>3, OlderMore
<1>5. Whole(transcript')
  BY <1>1, <1>2, WholeMore DEF IdInv
<1>6. IdInv'
  BY <1>4, <1>5 DEF IdInv
<1>7. transcript' \in Seq(Message)
  BY <1>1, <1>2, AppendProperties
<1> QED BY <1>1, <1>6, <1>7 DEF m

(* The prompts are emitted; they are in the context already.             *)
LEMMA OpenRunContext ==
  ASSUME Types, ContextInv, OpenRun
  PROVE  ContextInv'
<1>1. /\ phase = "open" /\ context = transcript \o inbox
      /\ UNCHANGED << context, results, recovered, assistants, runFrom >>
  BY DEF OpenRun, toolVars, runVars, ContextInv, ViewInv
<1>2. ContextTypes'
  BY <1>1 DEF ContextInv, ContextTypes
<1>3. CASE inbox = << >>
  <2>1. phase' = "firstPoll" /\ UNCHANGED transcript
    BY <1>3 DEF OpenRun
  <2>2. transcript \in Seq(Message) /\ runFrom \in Nat
    BY DEF Types, TalkTypes, RunTypes
  <2>3. recovered = {} /\ runFrom = assistants /\ Older(transcript, runFrom + 1)
    BY <1>1 DEF ContextInv, IdInv
  <2>4. View(transcript, recovered) = transcript /\ context = transcript
    BY <1>1, <1>3, <2>2, <2>3, ViewOf, HeadOver
  <2>5. Complete(View(transcript, recovered), runFrom)
    BY <2>2, <2>3, <2>4, CompleteBefore
  <2>6. /\ context' = View(transcript, recovered)'
        /\ Complete(View(transcript, recovered), runFrom)'
    BY <1>1, <2>1, <2>4, <2>5
  <2>7. IdInv'
    BY <1>1, <2>1 DEF ContextInv, IdInv
  <2>8. phase' \in Going
    BY <2>1 DEF Going
  <2> QED BY <1>2, <2>6, <2>7, <2>8, ContextOn DEF ContextInv
<1>4. CASE inbox # << >>
  <2>1. /\ transcript' = Append(transcript, Head(inbox)) /\ inbox' = Tail(inbox)
        /\ UNCHANGED << phase, recovered, assistants, runFrom >>
    BY <1>1, <1>4 DEF OpenRun
  <2>2. IdInv' /\ transcript \in Seq(Message) /\ inbox \in Seq(Message)
    BY <1>4, <2>1, EmittedIds DEF ContextInv
  <2>3. Append(transcript, Head(inbox)) \o Tail(inbox) = transcript \o inbox
    BY <1>4, <2>2, HeadOver
  <2>4. context' = transcript' \o inbox' /\ phase' = "open"
    BY <1>1, <2>1, <2>3
  <2>5. ViewInv' /\ AskedInv'
    BY <2>4 DEF ViewInv, AskedInv, Going, Tooling
  <2> QED BY <1>2, <2>2, <2>5 DEF ContextInv
<1> QED BY <1>3, <1>4

(* What a poll took is emitted, and the context takes it as well.        *)
LEMMA InjectContext ==
  ASSUME Types, ContextInv, Inject
  PROVE  ContextInv'
<1>1. /\ phase = "inject" /\ phase \in Going
      /\ UNCHANGED << results, recovered, assistants, runFrom >>
  BY DEF Inject, toolVars, runVars, Going
<1>2. context = View(transcript, recovered) /\ Complete(View(transcript, recovered), runFrom)
  BY <1>1 DEF ContextInv, ViewInv, AskedInv
<1>3. CASE inbox = << >>
  <2>1. phase' = "build" /\ phase' \in Going /\ UNCHANGED << transcript, context, inbox >>
    BY <1>3 DEF Inject, talkVars, Going
  <2>2. ContextTypes' /\ IdInv'
    BY <1>1, <2>1 DEF ContextInv, ContextTypes, IdInv
  <2>3. /\ context' = View(transcript, recovered)'
        /\ Complete(View(transcript, recovered), runFrom)'
    BY <1>1, <1>2, <2>1
  <2> QED BY <2>1, <2>2, <2>3, ContextOn DEF ContextInv
<1>4. CASE inbox # << >>
  <2> DEFINE m == Head(inbox)
             W == View(transcript, recovered)
  <2>1. /\ transcript' = Append(transcript, m) /\ context' = Append(context, m)
        /\ inbox' = Tail(inbox) /\ UNCHANGED << phase, recovered, assistants, runFrom, results >>
    BY <1>1, <1>4 DEF Inject
  <2>2. IdInv' /\ m \in UserMessage /\ m \in Message /\ transcript \in Seq(Message)
    BY <1>4, <2>1, EmittedIds DEF ContextInv
  <2>3. m.role = "user"
    BY <2>2 DEF UserMessage
  <2> HIDE DEF m
  <2>4. View(transcript, recovered)' = Append(W, m) /\ W \in Seq(Message)
    <3>1. W \in Seq(Message)
      BY <2>2, ViewOf
    <3>2. View(Append(transcript, m), recovered) = Append(W, m)
      BY <2>2, <2>3, ViewAppend
    <3> QED BY <2>1, <3>1, <3>2
  <2> HIDE DEF W
  <2>5. Complete(Append(W, m), runFrom)
    BY <1>2, <2>2, <2>4, CompleteUser DEF W
  <2>6. context' = View(transcript, recovered)' /\ Complete(View(transcript, recovered), runFrom)'
    BY <1>2, <2>1, <2>4, <2>5 DEF W
  <2>7. ContextTypes'
    BY <2>1, <2>2, AppendProperties DEF ContextInv, ContextTypes
  <2>8. phase' \in Going
    BY <1>1, <2>1
  <2> QED BY <2>2, <2>6, <2>7, <2>8, ContextOn DEF ContextInv
<1> QED BY <1>3, <1>4

(* After a turn its results are in the context.                          *)
LEMMA TurnEndContext ==
  ASSUME Types, ContextInv, TurnEnd
  PROVE  ContextInv'
<1>1. /\ phase = "turnEnd" /\ context' = context \o results /\ results' = << >>
      /\ UNCHANGED << transcript, recovered, assistants, runFrom >>
  BY DEF TurnEnd
<1>2. results \in Seq(Message) /\ context \in Seq(Message)
  BY SeqMonotonic DEF ContextInv, ContextTypes, Message
<1>3. ContextTypes'
  BY <1>1, <1>2, ConcatProperties DEF ContextTypes
<1>4. context' = View(transcript, recovered)'
  BY <1>1 DEF ContextInv, ViewInv
<1>5. \/ aborted /\ phase' = "ending"
      \/ ~aborted /\ phase' = "outcome"
  BY DEF TurnEnd, End, Goto
<1>6. IdInv'
  BY <1>1, <1>5 DEF ContextInv, IdInv
<1>7. CASE phase' = "ending"
  BY <1>3, <1>6, <1>7, ContextOver DEF Spent, ContextInv
<1>8. CASE ~aborted /\ phase' = "outcome"
  <2>1. Complete(View(transcript, recovered), runFrom)'
    BY <1>1, <1>8 DEF ContextInv, AskedInv
  <2>2. phase' \in Going
    BY <1>8 DEF Going
  <2> QED BY <1>3, <1>4, <1>6, <2>1, <2>2, ContextOn DEF ContextInv
<1> QED BY <1>5, <1>7, <1>8

(* A request is sent: the context has what is sent of the transcript.    *)
LEMMA SendContext ==
  ASSUME Types, ContextInv, SendRequest
  PROVE  ContextInv'
<1>1. /\ phase = "prepare" /\ phase' = "streaming" /\ assistants' = assistants + 1
      /\ UNCHANGED << transcript, context, results, recovered, runFrom >>
  BY DEF SendRequest, talkVars, toolVars
<1>2. phase \in Going /\ assistants \in Nat /\ transcript \in Seq(Message)
  BY <1>1 DEF Going, Types, RunTypes, TalkTypes
<1>3. /\ context = View(transcript, recovered) /\ Complete(View(transcript, recovered), runFrom)
      /\ recovered \subseteq 1 .. assistants /\ Older(transcript, assistants + 1)
      /\ Whole(transcript)
  BY <1>2 DEF ContextInv, ViewInv, AskedInv, IdInv
<1>4. ContextTypes'
  BY <1>1 DEF ContextInv, ContextTypes
<1>5. /\ recovered \subseteq 1 .. assistants + 1 /\ assistants + 1 \notin recovered
      /\ assistants + 1 \in Nat
  BY <1>2, <1>3
<1>6. Older(transcript, assistants + 1 + 1)
  BY <1>2, <1>3, <1>5, OlderMore
<1>7. IdInv'
  BY <1>1, <1>3, <1>5, <1>6 DEF IdInv
<1>8. ViewInv' /\ AskedInv'
  BY <1>1, <1>3 DEF ViewInv, AskedInv, Going, Tooling
<1> QED BY <1>4, <1>7, <1>8 DEF ContextInv

(* The last message of what is sent is no partial reply: it is one of    *)
(* the transcript.                                                       *)
LEMMA ViewIsWhole ==
  ASSUME NEW t \in Seq(Message), Whole(t), NEW R, View(t, R) # << >>,
         Last(View(t, R)).role = "assistant"
  PROVE  Last(View(t, R)).stop # "partial"
<1> DEFINE W == View(t, R)
<1>1. /\ W \in Seq(Message)
      /\ \A k \in 1 .. Len(W) : \E i \in 1 .. Len(t) : W[k] = t[i]
  BY ViewOf
<1> HIDE DEF W
<1>2. W # << >> /\ Len(W) \in 1 .. Len(W) /\ Last(W) = W[Len(W)]
  BY <1>1, EmptySeq, LenProperties DEF W, Last
<1>3. PICK i \in 1 .. Len(t) : Last(W) = t[i]
  BY <1>1, <1>2
<1> QED BY <1>3 DEF Whole, W

(* While a request is under way a partial reply is what was appended.    *)
LEMMA PartialPlaced ==
  ASSUME Types, ContextInv, phase \in {"build", "prepare", "streaming"}, NEW m \in Message
  PROVE  /\ ~HasPartial => context = View(transcript, recovered)
         /\ Place(m) = Append(View(transcript, recovered), m)
         /\ View(transcript, recovered) \in Seq(Message)
<1> DEFINE W == View(transcript, recovered)
           p == Assistant(assistants, 0, "partial")
<1>1. W \in Seq(Message) /\ transcript \in Seq(Message) /\ Whole(transcript)
  BY ViewOf DEF Types, TalkTypes, ContextInv, IdInv
<1>2. context = W \/ (context = Append(W, p) /\ phase = "streaming")
  BY DEF ContextInv, ViewInv, Going
<1>3. ASSUME context = W PROVE ~HasPartial
  BY <1>1, <1>3, ViewIsWhole DEF HasPartial
<1>4. ASSUME context = Append(W, p), phase = "streaming" PROVE HasPartial /\ Front(context) = W
  <2>1. assistants \in Nat \ {0}
    BY <1>4 DEF Types, RunTypes
  <2>2. p \in Message /\ p.role = "assistant" /\ p.stop = "partial"
    BY <2>1, MessagesMade DEF Stops, Message, Assistant
  <2> HIDE DEF W, p
  <2> QED BY <1>1, <1>4, <2>2, LastFront DEF HasPartial
<1> HIDE DEF W, p
<1>5. Place(m) = Append(W, m) /\ (~HasPartial => context = W)
  BY <1>2, <1>3, <1>4 DEF Place
<1> QED BY <1>1, <1>5 DEF W

(* The provider begins to answer.                                        *)
LEMMA ProviderContext ==
  ASSUME Types, ContextInv, ProviderStarts
  PROVE  ContextInv'
<1> DEFINE p == Assistant(assistants, 0, "partial")
<1>1. /\ phase = "streaming" /\ ~HasPartial /\ context' = Append(context, p)
      /\ UNCHANGED << phase, transcript, results, recovered, assistants, runFrom >>
  BY DEF ProviderStarts, toolVars, runVars
<1>2. p \in Message
  <2>1. assistants \in Nat \ {0}
    BY <1>1 DEF Types, RunTypes
  <2> QED BY <2>1, MessagesMade DEF Stops, Message
<1>3. context = View(transcript, recovered)
  BY <1>1, <1>2, PartialPlaced
<1>4. ContextTypes'
  BY <1>1, <1>2, AppendProperties DEF ContextInv, ContextTypes
<1>5. IdInv'
  BY <1>1 DEF ContextInv, IdInv
<1>6. AskedInv'
  BY <1>1 DEF ContextInv, AskedInv, Going, Tooling
<1>7. ViewInv'
  BY <1>1, <1>3 DEF ViewInv, Going, Tooling
<1> QED BY <1>4, <1>5, <1>6, <1>7 DEF ContextInv

(* The reply is the latest, in the transcript and in the context.        *)
LEMMA RepliesContext ==
  ASSUME Types, ContextInv, NEW m \in FinalReply, Replies(m)
  PROVE  ContextInv'
<1> DEFINE W == View(transcript, recovered)
<1>1. /\ phase \in {"build", "prepare", "streaming"} /\ phase' = "answered"
      /\ assistants' = (IF phase = "streaming" THEN assistants ELSE assistants + 1)
      /\ m.id = assistants' /\ transcript' = Append(transcript, m)
      /\ UNCHANGED << results, recovered, runFrom >>
  BY DEF Replies
<1>2. m \in Message /\ m \in Reply /\ m.stop # "partial"
  BY DEF FinalReply, Message
<1>3. context' = Append(W, m) /\ W \in Seq(Message)
  BY <1>1, <1>2, PartialPlaced DEF Replies
<1>4. /\ transcript \in Seq(Message) /\ assistants \in Nat /\ Whole(transcript)
      /\ recovered \subseteq 1 .. assistants
  BY DEF Types, TalkTypes, RunTypes, ContextInv, IdInv
<1>5. Complete(W, runFrom)
  BY <1>1 DEF ContextInv, AskedInv, Going
<1>6. /\ Older(transcript, assistants') /\ assistants' \notin recovered
      /\ assistants' \in Nat /\ recovered \subseteq 1 .. assistants'
  BY <1>1, <1>4 DEF ContextInv, IdInv
<1> HIDE DEF W
<1>7. \E u, n : AnsweredWith(u, n)'
  <2>1. PICK u : u = transcript
    OBVIOUS
  <2>2. /\ u \in Seq(Message) /\ transcript' = Append(u, m)
        /\ context' = Append(View(u, recovered'), m)
        /\ m.id = assistants' /\ Older(u, assistants') /\ assistants' \notin recovered'
        /\ Complete(View(u, recovered'), runFrom')
    BY <1>1, <1>3, <1>4, <1>5, <1>6, <2>1 DEF W
  <2>3. AnsweredWith(u, m)'
    BY <2>2 DEF AnsweredWith
  <2> QED BY <2>3
<1>8. ContextTypes'
  BY <1>1, <1>2, <1>3, AppendProperties DEF ContextInv, ContextTypes
<1>9. IdInv'
  <2>1. Older(transcript', assistants' + 1) /\ Whole(transcript')
    BY <1>1, <1>2, <1>4, <1>6, OlderMore, WholeMore
  <2> QED BY <1>1, <1>6, <2>1 DEF IdInv
<1>10. ViewInv' /\ AskedInv'
  BY <1>1, <1>7 DEF ViewInv, AskedInv, Going, Tooling
<1> QED BY <1>8, <1>9, <1>10 DEF ContextInv

(* A run that failed says so; a finished one forgets its context.        *)
LEMMA FailureContext ==
  ASSUME Types, ContextInv, HandleRunFailure \/ FinishRun
  PROVE  ContextInv'
<1>1. CASE HandleRunFailure
  <2> DEFINE m == Assistant(assistants', 0, IF aborted THEN "aborted" ELSE "error")
  <2>1. /\ assistants' = assistants + 1 /\ transcript' = Append(transcript, m)
        /\ phase' = "closing" /\ UNCHANGED << context, results, recovered, runFrom >>
    BY <1>1 DEF HandleRunFailure, toolVars
  <2>2. assistants \in Nat /\ transcript \in Seq(Message)
    BY DEF Types, RunTypes, TalkTypes
  <2>3. assistants' \in Nat \ {0} /\ assistants' = assistants + 1
    BY <2>1, <2>2
  <2>4. m \in Message /\ m.id = assistants' /\ m.stop # "partial"
    BY <2>3, MessagesMade DEF Stops, Message, Assistant
  <2> HIDE DEF m
  <2>5. Older(transcript', assistants' + 1) /\ Whole(transcript')
    BY <2>1, <2>2, <2>3, <2>4, OlderMore, WholeMore DEF ContextInv, IdInv
  <2>6. recovered' \subseteq 1 .. assistants'
    BY <2>1, <2>2 DEF ContextInv, IdInv
  <2>7. IdInv'
    BY <2>1, <2>5, <2>6 DEF IdInv
  <2>8. ContextTypes'
    BY <2>1 DEF ContextInv, ContextTypes
  <2> QED BY <2>1, <2>7, <2>8, ContextOver DEF ContextInv, Spent
<1>2. CASE FinishRun
  <2>1. /\ phase' = "idle" /\ context' = << >> /\ results' = << >> /\ recovered' = {}
        /\ UNCHANGED << transcript, assistants, runFrom >>
    BY <1>2 DEF FinishRun
  <2>2. IdInv'
    BY <2>1 DEF ContextInv, IdInv
  <2>3. ContextTypes'
    BY <2>1, EmptySeq DEF ContextTypes
  <2> QED BY <2>1, <2>2, <2>3, ContextOver DEF ContextInv
<1> QED BY <1>1, <1>2

(* The reply is settled: it ends the turn, it is recovered from, or its  *)
(* calls are a batch.                                                    *)
LEMMA AnsweredContext ==
  ASSUME Types, ContextInv, Answered
  PROVE  ContextInv'
<1>1. /\ phase = "answered" /\ results' = << >>
      /\ UNCHANGED << transcript, assistants, runFrom >>
  BY DEF Answered
<1>2. PICK u, m : AnsweredWith(u, m)
  BY <1>1 DEF ContextInv, AskedInv
<1> DEFINE V == View(u, recovered)
<1>3. /\ u \in Seq(Message) /\ m \in Message /\ m \in Reply
      /\ m.id = assistants /\ m.role = "assistant"
      /\ transcript = Append(u, m) /\ context = Append(V, m) /\ V \in Seq(Message)
      /\ Older(u, assistants) /\ assistants \notin recovered /\ Complete(V, runFrom)
      /\ assistants \in Nat \ {0} /\ m.calls \in Nat
  <2>1. m \in Reply /\ m \in Message
    BY <1>2 DEF AnsweredWith, FinalReply, Message
  <2>2. m.role = "assistant" /\ m.calls \in Nat /\ m.id \in Nat \ {0}
    BY <2>1 DEF Reply
  <2> QED BY <1>2, <2>1, <2>2, ViewOf DEF AnsweredWith
<1>4. /\ View(transcript, recovered) = Append(V, m)
      /\ View(transcript, recovered \union {m.id}) = V
  <2>1. u \in Seq(Message) /\ m \in Message /\ transcript = Append(u, m)
    BY <1>3
  <2>2. m.role # "user" /\ m.id \notin recovered /\ Older(u, m.id) /\ m.id \in Nat
    BY <1>3
  <2> QED BY <2>1, <2>2, ViewAppend
<1> HIDE DEF V
<1>5. Last(context) = m /\ Front(context) = V /\ Append(V, m) \o << >> = Append(V, m)
      /\ Append(V, m) \in Seq(Message)
  BY <1>3, LastFront, HeadOver, AppendProperties
<1>6. \/ /\ m.stop = "stop" /\ m.calls = 0 /\ phase' = "turnEnd"
         /\ UNCHANGED << call, recovered, context >>
      \/ /\ m.stop = "stop" /\ m.calls > 0 /\ phase' \in {"calling", "preparing"}
         /\ call' = [i \in 1 .. m.calls |-> [at |-> "waiting", outcome |-> "none"]]
         /\ UNCHANGED << recovered, context >>
      \/ phase' \in {"ending", "failing"} /\ UNCHANGED << recovered, context >>
      \/ /\ recovered' = recovered \union {m.id} /\ context' = Front(context) /\ phase' = "turn"
  BY <1>5 DEF Answered, Goto, End, Fail
<1>7. /\ Older(transcript, assistants + 1) /\ Whole(transcript)
      /\ recovered \subseteq 1 .. assistants /\ recovered \union {m.id} \subseteq 1 .. assistants
  BY <1>3 DEF ContextInv, IdInv
<1>8. IdInv'
  BY <1>1, <1>6, <1>7 DEF IdInv
<1>9. ContextTypes'
  <2>1. context' \in Seq(Message)
    BY <1>3, <1>5, <1>6 DEF ContextInv, ContextTypes
  <2>2. results' \in Seq(Result)
    BY <1>1, EmptySeq
  <2> QED BY <2>1, <2>2 DEF ContextTypes
<1>10. CASE /\ m.stop = "stop" /\ m.calls = 0 /\ phase' = "turnEnd"
            /\ UNCHANGED << call, recovered, context >>
  <2>1. << >> \in Seq(Result) /\ Len(<< >>) = 0 /\ 1 .. 0 = {}
    BY EmptySeq
  <2> DEFINE r == << >>
  <2>2. /\ r \in Seq(Result) /\ Len(r) = m.calls
        /\ \A k \in 1 .. Len(r) : r[k].id = m.id /\ r[k].call = k
    BY <1>10, <2>1
  <2> HIDE DEF r
  <2>3. Complete(Append(V, m) \o r, runFrom)
    BY <1>3, <2>2, CompleteReply
  <2>4. Complete(Append(V, m), runFrom)
    BY <1>5, <2>3 DEF r
  <2>5. /\ Complete(View(transcript, recovered), runFrom)'
        /\ (context \o results = View(transcript, recovered))'
    BY <1>1, <1>3, <1>4, <1>5, <1>10, <2>4
  <2>6. ViewInv' /\ AskedInv'
    BY <1>10, <2>5 DEF ViewInv, AskedInv, Going, Tooling
  <2> QED BY <1>8, <1>9, <2>6 DEF ContextInv
<1>11. CASE /\ m.stop = "stop" /\ m.calls > 0 /\ phase' \in {"calling", "preparing"}
            /\ call' = [i \in 1 .. m.calls |-> [at |-> "waiting", outcome |-> "none"]]
            /\ UNCHANGED << recovered, context >>
  <2>1. Len(call') = m.calls /\ \A i \in 1 .. m.calls : call'[i].at = "waiting"
    BY <1>3, <1>11
  <2>2. (context \o results = View(transcript, recovered))'
    BY <1>1, <1>3, <1>4, <1>5, <1>11
  <2>3. \E c, n : AskedBy(c, n)'
    <3>1. PICK c : c = V
      OBVIOUS
    <3>2. /\ c \in Seq(Message) /\ m \in Reply /\ context' = Append(c, m)
          /\ m.id = assistants' /\ m.calls = Len(call') /\ Complete(c, runFrom')
      BY <1>1, <1>3, <1>11, <2>1, <3>1
    <3>3. AskedBy(c, m)'
      BY <3>2 DEF AskedBy
    <3> QED BY <3>3
  <2>4. ResultsInOrder'
    <3>1. Len(results') = 0 /\ 1 .. 0 = {}
      BY <1>1
    <3>2. \A i \in 1 .. Len(call') : call'[i].at # "answered" /\ ~(i <= 0)
      BY <2>1
    <3> QED BY <1>3, <2>1, <3>1, <3>2 DEF ResultsInOrder
  <2>5. phase' \in Tooling
    BY <1>11 DEF Tooling
  <2>6. ViewInv' /\ AskedInv'
    BY <1>1, <1>3, <1>11, <2>2, <2>3, <2>4, <2>5, PhaseSets DEF ViewInv, AskedInv
  <2> QED BY <1>8, <1>9, <2>6 DEF ContextInv
<1>12. CASE phase' \in {"ending", "failing"} /\ UNCHANGED << recovered, context >>
  BY <1>8, <1>9, <1>12, ContextOver DEF ContextInv, Spent
<1>13. CASE recovered' = recovered \union {m.id} /\ context' = Front(context) /\ phase' = "turn"
  <2>1. context' = V /\ View(transcript, recovered)' = V
    BY <1>1, <1>4, <1>5, <1>13
  <2>2. Complete(View(transcript, recovered), runFrom)'
    BY <1>1, <1>3, <2>1
  <2>3. phase' \in Going
    BY <1>13 DEF Going
  <2> QED BY <1>8, <1>9, <2>1, <2>2, <2>3, ContextOn DEF ContextInv
<1> QED BY <1>6, <1>10, <1>11, <1>12, <1>13

(* The calls of a batch move, and none is answered.                      *)
LEMMA MovesContext ==
  ASSUME ContextInv, Moves
  PROVE  ContextInv'
<1>1. /\ phase \in Tooling /\ phase' \in Tooling /\ Len(call') = Len(call)
      /\ UNCHANGED << transcript, context, results, recovered, assistants, runFrom, aborted >>
      /\ \A i \in 1 .. Len(call) : /\ call'[i].at = "answered" <=> call[i].at = "answered"
                                   /\ call[i].at = "rejected" => call'[i].at = "rejected"
  BY DEF Moves, ctl
<1>2. /\ phase' \notin {"open", "init", "idle", "streaming", "answered", "turnEnd"}
      /\ phase' \notin Going
  BY <1>1, PhaseSets
<1>3. ContextTypes' /\ IdInv'
  BY <1>1, <1>2 DEF ContextInv, ContextTypes, IdInv
<1>4. ViewInv'
  BY <1>1, <1>2 DEF ContextInv, ViewInv
<1>5. \E c, m : AskedBy(c, m)'
  <2>1. PICK c, m : AskedBy(c, m)
    BY <1>1 DEF ContextInv, AskedInv
  <2>2. AskedBy(c, m)'
    BY <1>1, <2>1 DEF AskedBy
  <2> QED BY <2>2
<1>6. ResultsInOrder'
  <2>1. ResultsInOrder
    BY <1>1 DEF ContextInv, AskedInv
  <2> QED BY <1>1, <2>1 DEF ResultsInOrder
<1>7. AskedInv'
  BY <1>1, <1>2, <1>5, <1>6 DEF AskedInv
<1> QED BY <1>3, <1>4, <1>7 DEF ContextInv

(* Where the calls of a batch can be: one at a time in a sequential      *)
(* batch, in step in a parallel one.                                     *)
PhaseCalls ==
  /\ phase = "calling" =>
       /\ \A i \in 1 .. Len(call) : call[i].at # "rejected"
       /\ \A i, j \in 1 .. Len(call) :
            i < j /\ call[j].at # "waiting" => call[i].at = "answered"
  /\ phase = "preparing" =>
       CallsAt({"waiting", "announced", "ready", "publishing", "published"})
  /\ phase = "executing" =>
       CallsAt({"admitting", "running", "publishing", "published", "rejected"})
  /\ phase = "answering" => CallsAt({"published", "rejected", "answered"})

(* The next result is that of the first call that has none.              *)
LEMMA NextResult ==
  ASSUME Types, PhaseCalls, ResultsInOrder, NEW i \in DOMAIN call, AnswerCall(i),
         \A j \in 1 .. Len(call) : call[j].at # "rejected"
  PROVE  i = Len(results) + 1 /\ Len(results) \in Nat
<1>1. /\ i \in 1 .. Len(call) /\ Len(call) \in Nat /\ Len(results) \in Nat
      /\ DOMAIN call = 1 .. Len(call)
  BY LenProperties DEF Types, CallTypes, ContextTypes
<1>2. /\ Len(results) <= Len(call)
      /\ \A j \in 1 .. Len(call) : call[j].at = "answered" <=> j <= Len(results)
  BY DEF ResultsInOrder
<1>3. /\ call[i].at = "published" /\ phase \in {"calling", "answering"}
      /\ \A j \in 1 .. (i - 1) : call[j].at # "published"
  BY DEF AnswerCall
<1>4. ~(i <= Len(results))
  BY <1>1, <1>2, <1>3
<1>5. ASSUME NEW j \in 1 .. (i - 1) PROVE call[j].at = "answered"
  <2>1. j \in 1 .. Len(call) /\ j < i
    BY <1>1
  <2>2. CASE phase = "calling"
    BY <1>1, <1>3, <2>1, <2>2 DEF PhaseCalls
  <2>3. CASE phase = "answering"
    <3>1. call[j].at \in {"published", "rejected", "answered"}
      BY <1>1, <2>1, <2>3 DEF PhaseCalls, CallsAt
    <3> QED BY <1>3, <2>1, <3>1
  <2> QED BY <1>3, <2>2, <2>3
<1>6. CASE i = 1
  BY <1>1, <1>4, <1>6
<1>7. CASE i # 1
  <2>1. i - 1 \in 1 .. (i - 1) /\ i - 1 \in 1 .. Len(call)
    BY <1>1, <1>7
  <2>2. i - 1 <= Len(results)
    BY <1>2, <1>5, <2>1
  <2> QED BY <1>1, <1>4, <2>2
<1> QED BY <1>1, <1>6, <1>7

(* A message with a lower number.                                        *)
LEMMA OlderAppend ==
  ASSUME NEW t \in Seq(Message), NEW n, Older(t, n), NEW m \in Message, m.id < n
  PROVE  Older(Append(t, m), n)
<1> DEFINE l == Len(t)
<1>1. /\ l \in Nat /\ Len(Append(t, m)) = l + 1 /\ Append(t, m)[l + 1] = m
      /\ \A k \in 1 .. l : Append(t, m)[k] = t[k]
  BY AppendProperties, LenProperties
<1>2. \A k \in 1 .. l + 1 : k \in 1 .. l \/ k = l + 1
  BY <1>1
<1> QED BY <1>1, <1>2 DEF Older

(* The result of a call is in the transcript and among the results.      *)
LEMMA AnswerCallContext ==
  ASSUME Types, ContextInv, PhaseCalls, NEW i \in DOMAIN call, AnswerCall(i)
  PROVE  ContextInv'
<1> DEFINE m == ToolResult(assistants, i, call[i].outcome)
           W == View(transcript, recovered)
<1>1. /\ phase \in Tooling /\ phase' = phase /\ call[i].at = "published"
      /\ call' = [call EXCEPT ![i].at = "answered"]
      /\ transcript' = Append(transcript, m) /\ results' = Append(results, m)
      /\ UNCHANGED << context, recovered, assistants, runFrom >>
  BY DEF AnswerCall, Moved, Tooling, stillVars, batchVars
<1>2. /\ call' \in Seq(Call) /\ Len(call') = Len(call) /\ i \in 1 .. Len(call)
      /\ \A j \in 1 .. Len(call) : j # i => call'[j] = call[j]
      /\ call'[i].at = "answered"
  <2>1. "answered" \in Places
    BY DEF Places
  <2>2. /\ call' \in Seq(Call) /\ Len(call') = Len(call) /\ i \in 1 .. Len(call)
        /\ \A j \in 1 .. Len(call) : j # i => call'[j] = call[j]
        /\ call'[i] = [at |-> "answered", outcome |-> call[i].outcome]
    BY <1>1, <2>1, MovedCall
  <2>3. call'[i].at = "answered"
    BY <2>2
  <2> QED BY <2>2, <2>3
<1>3. /\ assistants \in Nat \ {0} /\ i \in Nat /\ call[i] \in Call
  BY <1>1, <1>2, ElementOfSeq DEF Types, RunTypes, CallTypes
<1>4. m \in Result /\ m.role = "toolResult" /\ m.id = assistants /\ m.call = i
  <2>1. call[i].outcome \in Outcomes
    BY <1>3 DEF Call
  <2>2. m \in Result
    BY <1>3, <2>1, MessagesMade
  <2> QED BY <2>2 DEF ToolResult
<1>5. m \in Message /\ transcript \in Seq(Message) /\ results \in Seq(Result)
      /\ results \in Seq(Message) /\ context \in Seq(Message) /\ W \in Seq(Message)
  BY <1>4, SeqMonotonic, ViewOf DEF Message, Types, TalkTypes, ContextTypes
<1>6. /\ context \o results = W /\ assistants \notin recovered
      /\ Older(transcript, assistants + 1) /\ Whole(transcript)
      /\ recovered \subseteq 1 .. assistants
  BY <1>1 DEF ContextInv, ViewInv, IdInv
<1> HIDE DEF m
<1>7. View(transcript, recovered)' = Append(W, m)
  <2>1. transcript' = Append(transcript, m) /\ recovered' = recovered
    BY <1>1
  <2>2. transcript \in Seq(Message) /\ m \in Message /\ m.id \notin recovered
    BY <1>4, <1>5, <1>6
  <2>3. View(Append(transcript, m), recovered) = Append(View(transcript, recovered), m)
    BY <2>2, ViewAppend
  <2> QED BY <2>1, <2>3 DEF W
<1>8. context \o Append(results, m) = Append(context \o results, m)
  BY <1>5, HeadOver
<1> HIDE DEF W
<1>9. (context \o results = View(transcript, recovered))'
  BY <1>1, <1>6, <1>7, <1>8
<1>10. /\ phase' \notin {"open", "init", "idle", "streaming", "answered", "turnEnd"}
       /\ phase' \notin Going
  BY <1>1, PhaseSets
<1>11. ContextTypes'
  BY <1>1, <1>4, <1>5, AppendProperties DEF ContextTypes
<1>12. IdInv'
  <2>1. m.id < assistants + 1
    BY <1>3, <1>4
  <2>2. Older(Append(transcript, m), assistants + 1)
    BY <1>5, <1>6, <2>1, OlderAppend
  <2>3. Whole(Append(transcript, m))
    BY <1>4, <1>5, <1>6, WholeMore
  <2> QED BY <1>1, <1>6, <1>10, <2>2, <2>3 DEF IdInv
<1>13. ViewInv'
  BY <1>1, <1>6, <1>9, <1>10 DEF ViewInv
<1>14. \E c, n : AskedBy(c, n)'
  <2>1. PICK c, n : AskedBy(c, n)
    BY <1>1 DEF ContextInv, AskedInv
  <2>2. AskedBy(c, n)'
    BY <1>1, <1>2, <2>1 DEF AskedBy
  <2> QED BY <2>2
<1>15. ResultsInOrder'
  <2>1. SUFFICES ASSUME \A j \in 1 .. Len(call) : call'[j].at # "rejected"
                 PROVE  /\ Len(results') <= Len(call)
                        /\ \A j \in 1 .. Len(call) : call'[j].at = "answered" <=> j <= Len(results')
                        /\ \A r \in 1 .. Len(results') :
                             results'[r].id = assistants /\ results'[r].call = r
    BY <1>1, <1>2 DEF ResultsInOrder
  <2>2. \A j \in 1 .. Len(call) : call[j].at # "rejected"
    BY <1>1, <1>2, <2>1
  <2>3. /\ ResultsInOrder
        /\ Len(results) <= Len(call)
        /\ \A j \in 1 .. Len(call) : call[j].at = "answered" <=> j <= Len(results)
        /\ \A r \in 1 .. Len(results) : results[r].id = assistants /\ results[r].call = r
    BY <1>1, <2>2 DEF ContextInv, AskedInv, ResultsInOrder
  <2>4. i = Len(results) + 1 /\ Len(results) \in Nat
    BY <2>2, <2>3, NextResult
  <2>5. /\ Len(results') = Len(results) + 1 /\ results'[Len(results) + 1] = m
        /\ \A r \in 1 .. Len(results) : results'[r] = results[r]
    BY <1>1, <1>4, <1>5, AppendProperties
  <2>6. Len(results') <= Len(call)
    BY <1>2, <2>4, <2>5
  <2>7. ASSUME NEW j \in 1 .. Len(call) PROVE call'[j].at = "answered" <=> j <= Len(results')
    <3>1. CASE j = i
      BY <1>2, <2>4, <2>5, <3>1
    <3>2. CASE j # i
      BY <1>2, <2>3, <2>4, <2>5, <3>2
    <3> QED BY <3>1, <3>2
  <2>8. ASSUME NEW r \in 1 .. Len(results')
        PROVE  results'[r].id = assistants /\ results'[r].call = r
    <3>1. CASE r = i
      BY <1>4, <2>4, <2>5, <3>1
    <3>2. CASE r # i
      <4>1. r \in 1 .. Len(results)
        BY <2>4, <2>5, <3>2
      <4> QED BY <2>3, <2>5, <4>1
    <3> QED BY <3>1, <3>2
  <2> QED BY <2>6, <2>7, <2>8
<1>16. AskedInv'
  BY <1>1, <1>10, <1>14, <1>15 DEF AskedInv
<1> QED BY <1>11, <1>12, <1>13, <1>16 DEF ContextInv

(* A batch that is over: every call has its result, or the run is        *)
(* aborted, or it fails.                                                 *)
LEMMA FinishBatchContext ==
  ASSUME Types, ContextInv, FinishBatch
  PROVE  ContextInv'
<1>1. /\ phase \in {"answering", "calling"} /\ phase \in Tooling
      /\ UNCHANGED << transcript, context, results, recovered, assistants, runFrom, aborted >>
  BY DEF FinishBatch, Tooling
<1>2. /\ call \in Seq(Call) /\ DOMAIN call = 1 .. Len(call) /\ Len(call) \in Nat
  BY LenProperties DEF Types, CallTypes
<1>3. ContextTypes'
  BY <1>1 DEF ContextInv, ContextTypes
<1>4. CASE \E i \in DOMAIN call : call[i].at = "rejected"
  <2>1. phase' = "failing"
    BY <1>4 DEF FinishBatch, Fail
  <2>2. IdInv'
    BY <1>1, <2>1 DEF ContextInv, IdInv
  <2> QED BY <1>3, <2>1, <2>2, ContextOver DEF ContextInv, Spent
<1>5. CASE \A i \in DOMAIN call : call[i].at # "rejected"
  <2>1. phase' = "turnEnd"
    BY <1>5 DEF FinishBatch, Goto
  <2>2. IdInv'
    BY <1>1, <2>1 DEF ContextInv, IdInv
  <2>3. context \o results = View(transcript, recovered)
    BY <1>1 DEF ContextInv, ViewInv
  <2>4. ViewInv'
    BY <1>1, <2>1, <2>3 DEF ViewInv, Going, Tooling
  <2>5. CASE aborted
    BY <1>1, <1>3, <2>1, <2>2, <2>4, <2>5 DEF ContextInv, AskedInv, Going, Tooling
  <2>6. CASE ~aborted
    <3>1. \A i \in 1 .. Len(call) : call[i].at = "answered"
      BY <1>2, <1>5, <2>6 DEF FinishBatch, CallsAt
    <3>2. ResultsInOrder
      BY <1>1 DEF ContextInv, AskedInv
    <3>3. /\ Len(results) <= Len(call)
          /\ \A i \in 1 .. Len(call) : i <= Len(results)
          /\ \A r \in 1 .. Len(results) : results[r].id = assistants /\ results[r].call = r
      BY <1>2, <1>5, <3>1, <3>2 DEF ResultsInOrder
    <3>4. Len(results) = Len(call)
      <4>1. Len(results) \in Nat
        BY LenProperties DEF Types, ContextTypes
      <4>2. Len(call) # 0 => Len(call) \in 1 .. Len(call)
        BY <1>2
      <4> QED BY <1>2, <3>3, <4>1, <4>2
    <3>5. PICK c, m : AskedBy(c, m)
      BY <1>1 DEF ContextInv, AskedInv
    <3>6. /\ c \in Seq(Message) /\ m \in Reply /\ context = Append(c, m)
          /\ m.id = assistants /\ m.calls = Len(call) /\ Complete(c, runFrom)
      BY <3>5 DEF AskedBy
    <3>7. results \in Seq(Result) /\ Len(results) = m.calls
      BY <3>4, <3>6 DEF ContextInv, ContextTypes
    <3>8. \A r \in 1 .. Len(results) : results[r].id = m.id /\ results[r].call = r
      BY <3>3, <3>6
    <3>9. Complete(Append(c, m) \o results, runFrom)
      BY <3>6, <3>7, <3>8, CompleteReply
    <3>10. Complete(View(transcript, recovered), runFrom)'
      BY <1>1, <2>3, <3>6, <3>9
    <3>11. AskedInv'
      BY <2>1, <3>10 DEF AskedInv, Going, Tooling
    <3> QED BY <1>3, <2>2, <2>4, <3>11 DEF ContextInv
  <2> QED BY <2>5, <2>6
<1> QED BY <1>4, <1>5

(* Every step keeps the invariant of the context.                        *)
LEMMA ContextKept ==
  ASSUME Types, ContextInv, PhaseCalls, ContextStep
  PROVE  ContextInv'
BY StaysContext, ProceedsContext, MovesContext, BeginsContext, InitializedContext, OpenRunContext,
   InjectContext, TurnEndContext, SendContext, ProviderContext, RepliesContext, AnsweredContext,
   AnswerCallContext, FinishBatchContext, FailureContext DEF ContextStep

-----------------------------------------------------------------------------
(***************************************************************************)
(* What a step does to the tools.                                          *)
(***************************************************************************)

(* What a result says of its tool.                                       *)
Truth(o, t) ==
  /\ o = "not_started" <=> t \notin toolStarted
  /\ o \in {"completed", "failed"} => t \in toolFinished

(* What the place of a call says of its tool.                            *)
CallSays(c, t) ==
  /\ c.at \in {"waiting", "announced", "ready", "admitting"} => t \notin toolStarted
  /\ c.at = "running" => t \in toolStarted
  /\ c.at \in {"publishing", "published", "answered"} => Truth(c.outcome, t)

CallTruth ==
  phase \in Tooling => \A i \in 1 .. Len(call) : CallSays(call[i], << assistants, i >>)

(* A tool that has not settled belongs to an earlier run, or to the call *)
(* that waits for it; after an abort nothing waits.                      *)
ToolInv ==
  /\ \A t \in toolStarted : /\ t[1] <= assistants
                            /\ phase \in {"streaming", "answered"} => t[1] < assistants
  /\ ~aborted =>
       \A t \in toolStarted \ toolFinished :
         \/ t[1] <= runFrom
         \/ /\ phase \in {"calling", "executing"} /\ t[1] = assistants
            /\ t[2] \in 1 .. Len(call) /\ call[t[2]].at = "running"

(* The results of the transcript are true; those of the batch belong to  *)
(* calls that are answered.                                              *)
ResultInv ==
  \A k \in 1 .. Len(transcript) :
    transcript[k].role = "toolResult" =>
      /\ Truth(transcript[k].outcome, << transcript[k].id, transcript[k].call >>)
      /\ phase \in {"streaming", "answered"} => transcript[k].id < assistants
      /\ phase \in Tooling /\ transcript[k].id = assistants =>
           /\ transcript[k].call \in 1 .. Len(call)
           /\ call[transcript[k].call].at = "answered"

ToolsInv == CallTypes /\ PhaseCalls /\ ToolInv /\ CallTruth /\ ResultInv

tools == << toolStarted, toolFinished >>

ToolRests ==
  /\ UNCHANGED << phase, call, tools, assistants, runFrom, transcript >>
  /\ aborted => aborted'
(* No batch is executed. *)
Untooled ==
  /\ phase \notin Tooling /\ phase' \notin Tooling /\ UNCHANGED tools
  /\ call' = call \/ call' = << >>
  /\ UNCHANGED << aborted, runFrom >> \/ (runFrom' = assistants /\ assistants' = assistants)
  /\ assistants' = assistants \/ assistants' = assistants + 1
  /\ phase' \in {"streaming", "answered"} =>
       assistants' = assistants + 1 \/ (phase = "streaming" /\ assistants' = assistants)
  /\ \/ transcript' = transcript
     \/ \E m \in Message : m.role # "toolResult" /\ transcript' = Append(transcript, m)
(* A batch begins; it ends, while no tool is awaited. *)
Enters ==
  /\ phase = "answered" /\ phase' \in {"calling", "preparing"}
  /\ \E n \in Nat : call' = [i \in 1 .. n |-> [at |-> "waiting", outcome |-> "none"]]
  /\ UNCHANGED << tools, aborted, assistants, runFrom, transcript >>
Leaves ==
  /\ phase \in Tooling /\ phase' \notin Tooling \union {"streaming", "answered"}
  /\ \A i \in 1 .. Len(call) : call[i].at # "running"
  /\ call' = call \/ call' = << >>
  /\ UNCHANGED << tools, aborted, assistants, runFrom, transcript >>
CallStep(i) ==
  \/ Announce(i) \/ PrepareCall(i) \/ Admit(i) \/ CallReturns(i) \/ CallAborted(i) \/ Publish(i)
  \/ AnswerCall(i) \/ (phase = "executing" /\ CallRejected(i))

ToolStep ==
  \/ ToolRests \/ Untooled \/ Enters \/ Leaves \/ Launch \/ AllSettled
  \/ (\E t \in toolStarted : ToolFinishes(t)) \/ (\E i \in DOMAIN call : CallStep(i))

(* What callers do to the tools.                                         *)
LEMMA CallerTools ==
  ASSUME Caller
  PROVE  ToolStep
<1> USE DEF talkVars, queueVars, toolVars, runVars, tools
<1>1. ASSUME NEW n \in 1 .. 2, Prompt(n) PROVE Untooled
  BY <1>1 DEF Prompt, Begin, Untooled, Tooling
<1>2. ASSUME NEW n \in 1 .. 2, Steer(n) \/ FollowUp(n) PROVE ToolRests
  BY <1>2 DEF Steer, FollowUp, ToolRests
<1>3. ASSUME ContinueQueued \/ ContinueTranscript PROVE Untooled
  BY <1>3 DEF ContinueQueued, ContinueTranscript, Begin, Untooled, Tooling
<1>4. ASSUME Abort PROVE ToolRests
  BY <1>4 DEF Abort, ToolRests
<1>5. ASSUME NEW S, RemoveQueued(S) PROVE ToolRests
  BY <1>5 DEF RemoveQueued, ToolRests
<1> QED BY <1>1, <1>2, <1>3, <1>4, <1>5 DEF Caller, ToolStep

(* What the steps of the loop do to them.                                *)
LEMMA LoopTools ==
  ASSUME Types, IdInv, LoopStep
  PROVE  ToolStep
<1> USE DEF talkVars, queueVars, toolVars, runVars, tools
<1>1. ASSUME PollSteering \/ PollFollowUps \/ ContextBuilt \/ Ended \/ FinishRun PROVE Untooled
  BY <1>1 DEF PollSteering, PollFollowUps, ContextBuilt, Ended, FinishRun, Untooled, Tooling
<1>2. ASSUME TurnStart \/ Recover \/ Polled \/ Followed PROVE Untooled
  BY <1>2 DEF TurnStart, Recover, Polled, Followed, Fail, Goto, End, Untooled, Tooling
<1>3. ASSUME Initialized \/ TurnEnd PROVE Untooled
  BY <1>3 DEF Initialized, TurnEnd, Fail, Goto, End, Untooled, Tooling
<1>4. ASSUME OpenRun \/ Inject PROVE Untooled
  <2>1. /\ phase \notin Tooling /\ phase' \notin Tooling \union {"streaming", "answered"}
        /\ UNCHANGED << tools, call, aborted, runFrom, assistants >>
    BY <1>4 DEF OpenRun, Inject, Tooling
  <2>2. CASE inbox = << >>
    <3>1. transcript' = transcript
      BY <1>4, <2>2 DEF OpenRun, Inject
    <3> QED BY <2>1, <3>1 DEF Untooled
  <2>3. CASE inbox # << >>
    <3>1. /\ transcript' = Append(transcript, Head(inbox)) /\ inbox' = Tail(inbox)
          /\ UNCHANGED << phase, recovered, assistants, runFrom >>
      BY <1>4, <2>3 DEF OpenRun, Inject
    <3>2. Head(inbox) \in UserMessage /\ Head(inbox) \in Message
      BY <2>3, <3>1, EmittedIds
    <3>3. Head(inbox).role # "toolResult"
      BY <3>2 DEF UserMessage
    <3> QED BY <2>1, <3>1, <3>2, <3>3 DEF Untooled
  <2> QED BY <2>2, <2>3
<1>5. ASSUME NEW c \in 0 .. MaxCalls, FinishAborted(c) PROVE Untooled
  <2> DEFINE m == Assistant(assistants', c, "aborted")
  <2>1. assistants' \in Nat \ {0} /\ c \in Nat
    BY <1>5, BoundAssumption DEF FinishAborted, Types, RunTypes
  <2>2. m \in Message /\ m.role # "toolResult"
    BY <2>1, MessagesMade DEF Stops, Message, Assistant
  <2>3. /\ phase \in {"build", "prepare", "streaming"} /\ phase' = "answered"
        /\ assistants' = (IF phase = "streaming" THEN assistants ELSE assistants + 1)
        /\ transcript' = Append(transcript, m) /\ UNCHANGED << tools, call, aborted, runFrom >>
    BY <1>5 DEF FinishAborted, Answer
  <2> HIDE DEF m
  <2>4. phase \notin Tooling /\ phase' \notin Tooling
    BY <2>3 DEF Tooling
  <2> QED BY <2>2, <2>3, <2>4 DEF Untooled
<1>6. ASSUME HandleRunFailure PROVE Untooled
  <2> DEFINE m == Assistant(assistants', 0, IF aborted THEN "aborted" ELSE "error")
  <2>1. assistants' \in Nat \ {0} /\ assistants' = assistants + 1
    BY <1>6 DEF HandleRunFailure, Types, RunTypes
  <2>2. m \in Message /\ m.role # "toolResult"
    BY <2>1, MessagesMade DEF Stops, Message, Assistant
  <2>3. /\ phase = "failing" /\ phase' = "closing" /\ transcript' = Append(transcript, m)
        /\ UNCHANGED << tools, call, aborted, runFrom >>
    BY <1>6 DEF HandleRunFailure
  <2> HIDE DEF m
  <2>4. phase \notin Tooling /\ phase' \notin Tooling
    BY <2>3 DEF Tooling
  <2> QED BY <2>1, <2>2, <2>3, <2>4 DEF Untooled
<1>7. ASSUME FinishBatch PROVE Leaves
  <2>1. phase' \in {"failing", "turnEnd"} /\ phase \in Tooling
    BY <1>7 DEF FinishBatch, Fail, Goto, Tooling
  <2>2. /\ UNCHANGED << tools, aborted, assistants, runFrom, transcript >> /\ call' = << >>
        /\ \/ CallsAt({"answered", "rejected"}) \/ CallsAt({"answered"})
           \/ CallsAt({"answered", "waiting"})
    BY <1>7 DEF FinishBatch
  <2>3. \A i \in DOMAIN call : call[i].at # "running"
    BY <2>2 DEF CallsAt
  <2>4. DOMAIN call = 1 .. Len(call)
    BY LenProperties DEF Types, CallTypes
  <2>5. phase' \notin Tooling \union {"streaming", "answered"}
    BY <2>1 DEF Tooling
  <2> QED BY <2>1, <2>2, <2>3, <2>4, <2>5 DEF Leaves
<1> QED BY <1>1, <1>2, <1>3, <1>4, <1>5, <1>6, <1>7 DEF LoopStep, ToolStep, CallStep

(* What the hooks do to them.                                            *)
LEMMA HookTools ==
  ASSUME Types, ContextInv, HookStep
  PROVE  ToolStep
<1> USE DEF talkVars, queueVars, toolVars, runVars, tools
<1>1. ASSUME Outcome \/ Continuation PROVE Untooled
  BY <1>1 DEF Outcome, Continuation, Goto, End, Untooled, Tooling
<1>2. ASSUME Answered PROVE Untooled \/ Enters
  <2>1. phase = "answered" /\ UNCHANGED << tools, aborted, assistants, runFrom, transcript >>
    BY <1>2 DEF Answered
  <2>2. PICK u, m : AnsweredWith(u, m)
    BY <2>1 DEF ContextInv, AskedInv
  <2>3. Last(context) = m /\ m.calls \in Nat
    <3>1. /\ m \in Reply /\ m \in Message /\ u \in Seq(Message)
          /\ context = Append(View(u, recovered), m)
      BY <2>2 DEF AnsweredWith, FinalReply, Message
    <3>2. View(u, recovered) \in Seq(Message)
      BY <3>1, ViewOf
    <3> QED BY <3>1, <3>2, LastFront DEF Reply
  <2>4. \/ /\ phase' \in {"calling", "preparing"}
           /\ call' = [i \in 1 .. m.calls |-> [at |-> "waiting", outcome |-> "none"]]
        \/ phase' \in {"turnEnd", "ending", "failing", "turn"} /\ UNCHANGED call
    BY <1>2, <2>3 DEF Answered, Goto, End, Fail
  <2>5. phase \notin Tooling /\ \A p \in {"turnEnd", "ending", "failing", "turn"} :
          p \notin Tooling \union {"streaming", "answered"}
    BY <2>1 DEF Tooling
  <2> QED BY <2>1, <2>3, <2>4, <2>5 DEF Untooled, Enters
<1> QED BY <1>1, <1>2 DEF HookStep, ToolStep, CallStep

(* A listener or an owner throws while no tool is awaited.               *)
LEMMA ThrowTools ==
  ASSUME Types, PhaseCalls
  PROVE  /\ Throw => Untooled \/ Leaves
         /\ \A i \in DOMAIN call : CallRejected(i) /\ phase # "executing" => Leaves
<1>1. DOMAIN call = 1 .. Len(call) /\ Len(call) \in Nat
  BY LenProperties DEF Types, CallTypes
<1>2. ASSUME Throw PROVE Untooled \/ Leaves
  <2>1. /\ phase' = "failing"
        /\ UNCHANGED << tools, call, aborted, assistants, runFrom, transcript >>
    BY <1>2 DEF Throw, Fail, toolVars, runVars, tools
  <2>2. phase' \notin Tooling \union {"streaming", "answered"}
    BY <2>1 DEF Tooling
  <2>3. CASE phase \notin Tooling
    BY <2>1, <2>2, <2>3 DEF Untooled
  <2>4. CASE phase \in Tooling
    <3>1. \A i \in 1 .. Len(call) : call[i].at # "running"
      <4>1. CASE phase = "answering"
        BY <1>1, <4>1 DEF PhaseCalls, CallsAt
      <4>2. CASE phase # "answering"
        <5>1. CallsAt({"waiting", "announced", "ready", "published", "answered"})
          BY <1>2, <2>4, <4>2 DEF Throw, Tooling
        <5> QED BY <1>1, <5>1 DEF CallsAt
      <4> QED BY <4>1, <4>2
    <3> QED BY <2>1, <2>2, <2>4, <3>1 DEF Leaves
  <2> QED BY <2>3, <2>4
<1>3. ASSUME NEW i \in DOMAIN call, CallRejected(i), phase # "executing" PROVE Leaves
  <2>1. /\ phase \in Tooling /\ phase \in {"calling", "preparing"} /\ phase' = "failing"
        /\ call[i].at \in {"admitting", "publishing"}
        /\ UNCHANGED << tools, call, aborted, assistants, runFrom, transcript >>
    BY <1>3 DEF CallRejected, ToolPhase, Fail, batchVars, tools, Tooling
  <2>2. phase' \notin Tooling \union {"streaming", "answered"}
    BY <2>1 DEF Tooling
  <2>3. ASSUME NEW j \in 1 .. Len(call) PROVE call[j].at # "running"
    <3>1. CASE phase = "preparing"
      BY <1>1, <3>1 DEF PhaseCalls, CallsAt
    <3>2. CASE phase = "calling"
      <4>1. CASE j < i
        BY <1>1, <2>1, <3>2, <4>1 DEF PhaseCalls
      <4>2. CASE j = i
        BY <2>1, <4>2
      <4>3. CASE i < j
        BY <1>1, <2>1, <3>2, <4>3 DEF PhaseCalls
      <4> QED BY <1>1, <4>1, <4>2, <4>3
    <3> QED BY <2>1, <3>1, <3>2
  <2> QED BY <2>1, <2>2, <2>3 DEF Leaves
<1> QED BY <1>2, <1>3

(* What the provider and the owners do to the tools.                     *)
LEMMA OutsideTools ==
  ASSUME Types, PhaseCalls, Outside
  PROVE  ToolStep
<1> USE DEF talkVars, queueVars, toolVars, runVars, tools
<1>1. ASSUME SendRequest \/ BudgetFailure PROVE Untooled
  BY <1>1 DEF SendRequest, BudgetFailure, Untooled, Tooling
<1>2. ASSUME ProviderStarts PROVE ToolRests
  BY <1>2 DEF ProviderStarts, ToolRests
<1>3. ASSUME PrepareFails PROVE Untooled
  BY <1>3 DEF PrepareFails, Goto, Fail, Untooled, Tooling
<1>4. ASSUME NEW c \in 0 .. MaxCalls, NEW s \in {"stop", "error"}, ProviderAnswers(c, s)
      PROVE  Untooled
  <2> DEFINE m == Assistant(assistants, c, s)
  <2>1. assistants \in Nat \ {0} /\ c \in Nat
    BY <1>4, BoundAssumption DEF ProviderAnswers, Types, RunTypes
  <2>2. m \in Message /\ m.role # "toolResult"
    BY <2>1, MessagesMade DEF Stops, Message, Assistant
  <2>3. /\ phase = "streaming" /\ phase' = "answered" /\ assistants' = assistants
        /\ transcript' = Append(transcript, m) /\ UNCHANGED << tools, call, aborted, runFrom >>
    BY <1>4 DEF ProviderAnswers, Answer
  <2> HIDE DEF m
  <2>4. phase \notin Tooling /\ phase' \notin Tooling
    BY <2>3 DEF Tooling
  <2> QED BY <2>2, <2>3, <2>4 DEF Untooled
<1>5. ASSUME NEW i \in DOMAIN call, CallReturns(i) \/ CallRejected(i) PROVE CallStep(i) \/ Leaves
  BY <1>5, ThrowTools DEF CallStep
<1>6. Throw => Untooled \/ Leaves
  BY ThrowTools
<1> QED BY <1>1, <1>2, <1>3, <1>4, <1>5, <1>6 DEF Outside, ToolStep

(* Every step does one of these to the tools.                            *)
LEMMA ToolShape ==
  ASSUME Types, ContextInv, PhaseCalls, [Next]_vars
  PROVE  ToolStep
<1>1. CASE UNCHANGED vars
  BY <1>1 DEF vars, talkVars, toolVars, runVars, tools, ToolStep, ToolRests
<1> QED BY <1>1, CallerTools, LoopTools, HookTools, OutsideTools DEF Next, ContextInv

-----------------------------------------------------------------------------
(***************************************************************************)
(* Each of these steps keeps the invariant of the tools.                   *)
(***************************************************************************)

(* A step beside the batch; an abort asks nothing more.                  *)
LEMMA RestsTools ==
  ASSUME ToolsInv, ToolRests
  PROVE  ToolsInv'
<1>1. /\ UNCHANGED << phase, call, toolStarted, toolFinished, assistants, runFrom, transcript >>
      /\ aborted => aborted'
  BY DEF ToolRests, tools
<1>2. CallTypes' /\ PhaseCalls' /\ CallTruth' /\ ResultInv'
  BY <1>1 DEF ToolsInv, CallTypes, PhaseCalls, CallsAt, CallTruth, CallSays, Truth, ResultInv
<1>3. ToolInv'
  BY <1>1 DEF ToolsInv, ToolInv
<1> QED BY <1>2, <1>3 DEF ToolsInv

(* Nothing is said of calls when there is no batch.                      *)
LEMMA NoBatch ==
  ASSUME phase' \notin Tooling
  PROVE  PhaseCalls' /\ CallTruth'
  BY DEF PhaseCalls, CallTruth, Tooling

(* Results stay true while no tool starts or finishes.                   *)
LEMMA ResultsStay ==
  ASSUME Types, ResultInv, UNCHANGED tools, phase' \notin Tooling,
         phase' \in {"streaming", "answered"} =>
           \A k \in 1 .. Len(transcript) :
             transcript[k].role = "toolResult" => transcript[k].id < assistants',
         \/ transcript' = transcript
         \/ \E m \in Message : m.role # "toolResult" /\ transcript' = Append(transcript, m)
  PROVE  ResultInv'
<1>1. transcript \in Seq(Message)
  BY DEF Types, TalkTypes
<1>2. ASSUME NEW k \in 1 .. Len(transcript'), transcript'[k].role = "toolResult"
      PROVE  k \in 1 .. Len(transcript) /\ transcript'[k] = transcript[k]
  <2>1. CASE transcript' = transcript
    BY <1>2, <2>1
  <2>2. CASE \E m \in Message : m.role # "toolResult" /\ transcript' = Append(transcript, m)
    <3>1. PICK m \in Message : m.role # "toolResult" /\ transcript' = Append(transcript, m)
      BY <2>2
    <3> DEFINE l == Len(transcript)
    <3>2. /\ l \in Nat /\ Len(transcript') = l + 1 /\ transcript'[l + 1] = m
          /\ \A j \in 1 .. l : transcript'[j] = transcript[j]
      BY <1>1, <3>1, AppendProperties, LenProperties
    <3> HIDE DEF l
    <3>3. k # l + 1
      BY <1>2, <3>1, <3>2
    <3>4. k \in 1 .. l
      BY <3>2, <3>3
    <3> QED BY <3>2, <3>4 DEF l
  <2> QED BY <2>1, <2>2
<1>3. ASSUME NEW k \in 1 .. Len(transcript'), transcript'[k].role = "toolResult"
      PROVE  /\ Truth(transcript[k].outcome, << transcript[k].id, transcript[k].call >>)'
             /\ phase' \in {"streaming", "answered"} => transcript'[k].id < assistants'
  <2>1. k \in 1 .. Len(transcript) /\ transcript'[k] = transcript[k]
    BY <1>2, <1>3
  <2>2. Truth(transcript[k].outcome, << transcript[k].id, transcript[k].call >>)
    BY <1>3, <2>1 DEF ResultInv
  <2> QED BY <1>3, <2>1, <2>2 DEF Truth, tools
<1> QED BY <1>3 DEF ResultInv

(* Without a batch; a run begins with every number of a tool below.      *)
LEMMA UntooledTools ==
  ASSUME Types, IdInv, ToolsInv, Untooled
  PROVE  ToolsInv'
<1>1. /\ phase \notin Tooling /\ phase' \notin Tooling /\ UNCHANGED << toolStarted, toolFinished >>
      /\ call' = call \/ call' = << >>
  BY DEF Untooled, tools
<1>2. CallTypes'
  BY <1>1, EmptySeq DEF ToolsInv, CallTypes
<1>3. PhaseCalls' /\ CallTruth'
  BY <1>1, NoBatch
<1>4. assistants \in Nat /\ assistants' \in Nat /\ assistants <= assistants'
  BY DEF Untooled, Types, RunTypes
<1>5. \A t \in toolStarted : t[1] \in Nat /\ t[1] <= assistants
  BY DEF ToolsInv, ToolInv, CallTypes
<1>6. \A t \in toolStarted : /\ t[1] <= assistants'
                             /\ phase' \in {"streaming", "answered"} => t[1] < assistants'
  <2> SUFFICES ASSUME NEW t \in toolStarted
               PROVE  /\ t[1] <= assistants'
                      /\ phase' \in {"streaming", "answered"} => t[1] < assistants'
    OBVIOUS
  <2>1. t[1] <= assistants'
    BY <1>4, <1>5
  <2>2. ASSUME phase' \in {"streaming", "answered"} PROVE t[1] < assistants'
    <3>1. CASE assistants' = assistants + 1
      BY <1>4, <1>5, <3>1
    <3>2. CASE phase = "streaming" /\ assistants' = assistants
      BY <3>2 DEF ToolsInv, ToolInv
    <3> QED BY <2>2, <3>1, <3>2 DEF Untooled
  <2> QED BY <2>1, <2>2
<1>7. ASSUME ~aborted' PROVE \A t \in toolStarted \ toolFinished : t[1] <= runFrom'
  <2>1. CASE UNCHANGED << aborted, runFrom >>
    BY <1>1, <1>7, <2>1 DEF ToolsInv, ToolInv, Tooling
  <2>2. CASE runFrom' = assistants
    BY <1>5, <2>2
  <2> QED BY <2>1, <2>2 DEF Untooled
<1>8. ToolInv'
  BY <1>1, <1>6, <1>7 DEF ToolInv
<1>9. ASSUME phase' \in {"streaming", "answered"},
             NEW k \in 1 .. Len(transcript), transcript[k].role = "toolResult"
      PROVE  transcript[k].id < assistants'
  <2>1. transcript[k].id \in Nat
    BY ElementOfSeq, MessageKinds DEF Types, TalkTypes
  <2>2. transcript[k].id < assistants + 1
    BY <1>9 DEF IdInv, Older
  <2>3. CASE assistants' = assistants + 1
    BY <2>2, <2>3
  <2>4. CASE phase = "streaming" /\ assistants' = assistants
    BY <1>9, <2>4 DEF ToolsInv, ResultInv
  <2> QED BY <1>9, <2>3, <2>4 DEF Untooled
<1>10. ResultInv'
  BY <1>1, <1>9, ResultsStay DEF ToolsInv, Untooled
<1> QED BY <1>2, <1>3, <1>8, <1>10 DEF ToolsInv

(* A batch begins: no tool of this reply has started.                    *)
LEMMA EntersTools ==
  ASSUME Types, ToolsInv, Enters
  PROVE  ToolsInv'
<1>1. /\ phase = "answered" /\ phase' \in {"calling", "preparing"}
      /\ UNCHANGED << toolStarted, toolFinished, aborted, assistants, runFrom, transcript >>
  BY DEF Enters, tools
<1>2. PICK n \in Nat : call' = [i \in 1 .. n |-> [at |-> "waiting", outcome |-> "none"]]
  BY DEF Enters
<1> DEFINE c == [at |-> "waiting", outcome |-> "none"]
<1>3. c \in Call /\ c.at = "waiting"
  BY DEF Call, Places, Outcomes
<1> HIDE DEF c
<1>4. call' \in [1 .. n -> Call] /\ \A i \in 1 .. n : call'[i] = c
  BY <1>2, <1>3 DEF c
<1>5. call' \in Seq(Call) /\ Len(call') = n /\ DOMAIN call' = 1 .. n
  BY <1>4, IsASeq
<1>6. \A i \in 1 .. Len(call') : call'[i].at = "waiting"
  BY <1>3, <1>4, <1>5
<1>7. CallTypes'
  BY <1>1, <1>5 DEF ToolsInv, CallTypes
<1>8. PhaseCalls'
  BY <1>1, <1>5, <1>6 DEF PhaseCalls, CallsAt
<1>9. assistants \in Nat /\ \A t \in toolStarted : t[1] \in Nat /\ t[1] < assistants
  BY <1>1 DEF ToolsInv, ToolInv, CallTypes, Types, RunTypes
<1>10. ToolInv'
  BY <1>1, <1>9 DEF ToolsInv, ToolInv
<1>11. CallTruth'
  <2>1. \A i : << assistants, i >> \notin toolStarted
    BY <1>9
  <2> QED BY <1>1, <1>6, <2>1 DEF CallTruth, CallSays
<1>12. ResultInv'
  <2>1. \A k \in 1 .. Len(transcript) : transcript[k].id \in Nat
    BY ElementOfSeq, MessageKinds DEF Types, TalkTypes
  <2>2. \A k \in 1 .. Len(transcript) :
          transcript[k].role = "toolResult" =>
            /\ Truth(transcript[k].outcome, << transcript[k].id, transcript[k].call >>)
            /\ transcript[k].id < assistants
    BY <1>1 DEF ToolsInv, ResultInv
  <2>3. ASSUME NEW k \in 1 .. Len(transcript), transcript[k].role = "toolResult"
        PROVE  transcript[k].id # assistants
    <3>1. transcript[k].id \in Nat /\ transcript[k].id < assistants /\ assistants \in Nat
      BY <1>9, <2>1, <2>2, <2>3
    <3> QED BY <3>1
  <2> QED BY <1>1, <2>2, <2>3 DEF ResultInv, Truth
<1> QED BY <1>7, <1>8, <1>10, <1>11, <1>12 DEF ToolsInv

(* A batch ends while nothing runs.                                      *)
LEMMA LeavesTools ==
  ASSUME Types, ToolsInv, Leaves
  PROVE  ToolsInv'
<1>1. /\ phase \in Tooling /\ phase' \notin Tooling /\ phase' \notin {"streaming", "answered"}
      /\ \A i \in 1 .. Len(call) : call[i].at # "running"
      /\ call' = call \/ call' = << >>
      /\ UNCHANGED << toolStarted, toolFinished, aborted, assistants, runFrom, transcript >>
  BY DEF Leaves, tools
<1>2. CallTypes'
  BY <1>1, EmptySeq DEF ToolsInv, CallTypes
<1>3. ToolInv'
  BY <1>1 DEF ToolsInv, ToolInv
<1>4. ResultInv'
  BY <1>1, ResultsStay DEF ToolsInv, tools
<1> QED BY <1>1, <1>2, <1>3, <1>4, NoBatch DEF ToolsInv

(* A tool settles, perhaps one nothing waits for.                        *)
LEMMA FinishesTools ==
  ASSUME ToolsInv, NEW t \in toolStarted, ToolFinishes(t)
  PROVE  ToolsInv'
<1>1. /\ toolFinished' = toolFinished \union {t}
      /\ UNCHANGED << phase, call, toolStarted, aborted, assistants, runFrom, transcript >>
  BY DEF ToolFinishes, stillVars, batchVars
<1>2. CallTypes' /\ PhaseCalls' /\ ToolInv'
  BY <1>1 DEF ToolsInv, CallTypes, PhaseCalls, CallsAt, ToolInv
<1>3. \A o, u : Truth(o, u) => Truth(o, u)'
  BY <1>1 DEF Truth
<1>4. CallTruth'
  BY <1>1, <1>3 DEF ToolsInv, CallTruth, CallSays
<1>5. ResultInv'
  BY <1>1, <1>3 DEF ToolsInv, ResultInv
<1> QED BY <1>2, <1>4, <1>5 DEF ToolsInv

(* Call i becomes c, and the other calls stay.                           *)
Becomes(i, c) ==
  /\ call' \in Seq(Call) /\ Len(call') = Len(call) /\ i \in 1 .. Len(call)
  /\ \A j \in 1 .. Len(call) : j # i => call'[j] = call[j]
  /\ call'[i] = c

(* Call i may become c in this phase.                                    *)
Fits(i, c) ==
  /\ phase = "calling" =>
       /\ c.at # "rejected"
       /\ call[i].at # "waiting" \/ \A j \in 1 .. (i - 1) : call[j].at = "answered"
  /\ phase = "preparing" =>
       c.at \in {"waiting", "announced", "ready", "publishing", "published"}
  /\ phase = "executing" =>
       c.at \in {"admitting", "running", "publishing", "published", "rejected"}
  /\ phase = "answering" => c.at \in {"published", "rejected", "answered"}

(* The calls stay in the order of their phase.                           *)
LEMMA FittingCall ==
  ASSUME Types, PhaseCalls, phase' = phase, NEW i \in DOMAIN call, NEW c, Becomes(i, c), Fits(i, c),
         call[i].at # "answered"
  PROVE  PhaseCalls'
<1>1. DOMAIN call = 1 .. Len(call) /\ DOMAIN call' = 1 .. Len(call) /\ Len(call) \in Nat
  BY LenProperties DEF Becomes, Types, CallTypes
<1>2. \A j \in 1 .. Len(call) : call'[j] = IF j = i THEN c ELSE call[j]
  BY DEF Becomes
<1>3. Len(call') = Len(call) /\ i \in 1 .. Len(call)
  BY DEF Becomes
<1>4. ASSUME phase = "calling"
      PROVE  /\ \A j \in 1 .. Len(call) : call'[j].at # "rejected"
             /\ \A h, j \in 1 .. Len(call) :
                  h < j /\ call'[j].at # "waiting" => call'[h].at = "answered"
  <2>1. \A j \in 1 .. Len(call) : call'[j].at # "rejected"
    BY <1>2, <1>4 DEF PhaseCalls, Fits
  <2>2. ASSUME NEW h \in 1 .. Len(call), NEW j \in 1 .. Len(call), h < j, call'[j].at # "waiting"
        PROVE  call'[h].at = "answered"
    <3>1. CASE j = i
      <4>1. h # i /\ h \in 1 .. (i - 1)
        BY <1>1, <1>3, <2>2, <3>1
      <4>2. CASE call[i].at # "waiting"
        BY <1>2, <1>3, <1>4, <2>2, <3>1, <4>1, <4>2 DEF PhaseCalls
      <4>3. CASE \A k \in 1 .. (i - 1) : call[k].at = "answered"
        BY <1>2, <4>1, <4>3
      <4> QED BY <1>4, <4>2, <4>3 DEF Fits
    <3>2. CASE j # i
      <4>1. call[h].at = "answered"
        BY <1>2, <1>4, <2>2, <3>2 DEF PhaseCalls
      <4> QED BY <1>2, <4>1
    <3> QED BY <3>1, <3>2
  <2> QED BY <2>1, <2>2
<1>5. \A S : CallsAt(S) /\ c.at \in S => \A j \in DOMAIN call' : call'[j].at \in S
  BY <1>1, <1>2 DEF CallsAt
<1>6. \A j \in {"preparing", "executing", "answering"} : j # "calling"
  OBVIOUS
<1>7. phase = "preparing" =>
        \A j \in DOMAIN call' :
          call'[j].at \in {"waiting", "announced", "ready", "publishing", "published"}
  BY <1>5 DEF PhaseCalls, Fits
<1>8. phase = "executing" =>
        \A j \in DOMAIN call' :
          call'[j].at \in {"admitting", "running", "publishing", "published", "rejected"}
  BY <1>5 DEF PhaseCalls, Fits
<1>9. phase = "answering" =>
        \A j \in DOMAIN call' : call'[j].at \in {"published", "rejected", "answered"}
  BY <1>5 DEF PhaseCalls, Fits
<1> QED BY <1>3, <1>4, <1>7, <1>8, <1>9 DEF PhaseCalls, CallsAt

(* A call moves, and no tool starts.                                     *)
LEMMA CallMoves ==
  ASSUME Types, ToolsInv, phase \in Tooling,
         UNCHANGED << phase, aborted, runFrom, assistants, transcript, toolStarted, toolFinished >>,
         NEW i \in DOMAIN call, NEW c, Becomes(i, c), Fits(i, c),
         call[i].at # "answered", c.at # "running",
         call[i].at = "running" => aborted \/ << assistants, i >> \in toolFinished,
         CallSays(c, << assistants, i >>)
  PROVE  ToolsInv'
<1>1. PhaseCalls'
  BY FittingCall DEF ToolsInv
<1>2. /\ \A j \in 1 .. Len(call) : call'[j] = IF j = i THEN c ELSE call[j]
      /\ Len(call') = Len(call) /\ i \in 1 .. Len(call) /\ call' \in Seq(Call)
  BY DEF Becomes
<1>3. CallTypes'
  BY <1>2 DEF ToolsInv, CallTypes
<1>4. CallTruth'
  <2>1. \A j \in 1 .. Len(call) : CallSays(call[j], << assistants, j >>)
    BY DEF ToolsInv, CallTruth
  <2>2. \A j \in 1 .. Len(call) : CallSays(call'[j], << assistants, j >>)
    BY <1>2, <2>1
  <2> QED BY <1>2, <2>2 DEF CallTruth, CallSays, Truth
<1>5. ToolInv'
  <2>1. ASSUME ~aborted, NEW t \in toolStarted \ toolFinished
        PROVE  \/ t[1] <= runFrom
               \/ /\ phase \in {"calling", "executing"} /\ t[1] = assistants
                  /\ t[2] \in 1 .. Len(call) /\ call'[t[2]].at = "running"
    <3>1. CASE t[1] <= runFrom
      BY <3>1
    <3>2. CASE /\ phase \in {"calling", "executing"} /\ t[1] = assistants
               /\ t[2] \in 1 .. Len(call) /\ call[t[2]].at = "running"
      <4>1. t = << t[1], t[2] >>
        BY DEF ToolsInv, CallTypes
      <4>2. t[2] # i
        BY <2>1, <3>2, <4>1
      <4> QED BY <1>2, <3>2, <4>2
    <3> QED BY <2>1, <3>1, <3>2 DEF ToolsInv, ToolInv
  <2> QED BY <1>2, <2>1 DEF ToolsInv, ToolInv
<1>6. ResultInv'
  <2>1. ASSUME NEW k \in 1 .. Len(transcript), transcript[k].role = "toolResult",
               transcript[k].id = assistants
        PROVE  /\ transcript[k].call \in 1 .. Len(call)
               /\ call'[transcript[k].call].at = "answered"
    <3>1. transcript[k].call \in 1 .. Len(call) /\ call[transcript[k].call].at = "answered"
      BY <2>1 DEF ToolsInv, ResultInv
    <3> QED BY <1>2, <3>1
  <2>2. phase \notin {"streaming", "answered"}
    BY DEF Tooling
  <2>3. \A k \in 1 .. Len(transcript) :
          transcript[k].role = "toolResult" =>
            Truth(transcript[k].outcome, << transcript[k].id, transcript[k].call >>)
    BY DEF ToolsInv, ResultInv
  <2> QED BY <1>2, <2>1, <2>2, <2>3 DEF ResultInv, Truth
<1> QED BY <1>1, <1>3, <1>4, <1>5, <1>6 DEF ToolsInv

(* How a call moves.                                                     *)
LEMMA MovedTo ==
  ASSUME Types, NEW i \in DOMAIN call
  PROVE  /\ \A p \in Places : Moved(i, p) => Becomes(i, [at |-> p, outcome |-> call[i].outcome])
         /\ \A o \in Outcomes : Settled(i, o) => Becomes(i, [at |-> "publishing", outcome |-> o])
  BY MovedCall, SettledCall DEF Moved, Becomes

(* The steps of one call in which no tool starts and none is answered.   *)
LEMMA CallTools ==
  ASSUME Types, ToolsInv, NEW i \in DOMAIN call,
         \/ Announce(i) \/ PrepareCall(i) \/ (Admit(i) /\ aborted) \/ CallReturns(i)
         \/ CallAborted(i) \/ Publish(i) \/ (phase = "executing" /\ CallRejected(i))
  PROVE  ToolsInv'
<1> DEFINE moved(p) == [at |-> p, outcome |-> call[i].outcome]
           settled(o) == [at |-> "publishing", outcome |-> o]
           t == << assistants, i >>
<1>1. /\ phase \in Tooling
      /\ UNCHANGED << phase, aborted, runFrom, assistants, transcript, toolStarted, toolFinished >>
  BY DEF Announce, PrepareCall, Admit, CallReturns, CallAborted, Publish, CallRejected, ToolPhase,
         Tooling, stillVars, batchVars
<1>2. CallSays(call[i], t)
  <2>1. i \in 1 .. Len(call)
    BY LenProperties DEF Types, CallTypes
  <2> QED BY <1>1, <2>1 DEF ToolsInv, CallTruth
<1>3. /\ \A p : moved(p).at = p /\ moved(p).outcome = call[i].outcome
      /\ \A o : settled(o).at = "publishing" /\ settled(o).outcome = o
  OBVIOUS
<1>4. /\ \A p \in Places : Moved(i, p) => Becomes(i, moved(p))
      /\ \A o \in Outcomes : Settled(i, o) => Becomes(i, settled(o))
  BY MovedTo
<1> HIDE DEF moved, settled, t
<1>5. ASSUME NEW c, Becomes(i, c), Fits(i, c), call[i].at # "answered", c.at # "running",
             call[i].at = "running" => aborted \/ t \in toolFinished, CallSays(c, t)
      PROVE  ToolsInv'
  BY <1>1, <1>5, CallMoves DEF t
<1>6. CASE Announce(i)
  <2>1. Becomes(i, moved("announced")) /\ call[i].at = "waiting"
    BY <1>4, <1>6 DEF Announce, Places
  <2>2. Fits(i, moved("announced"))
    BY <1>3, <1>6 DEF Announce, Fits
  <2>3. CallSays(moved("announced"), t)
    BY <1>2, <1>3, <2>1 DEF CallSays
  <2> QED BY <1>3, <1>5, <2>1, <2>2, <2>3
<1>7. CASE PrepareCall(i)
  <2>1. call[i].at = "announced" /\ phase \in {"calling", "preparing"}
    BY <1>7 DEF PrepareCall
  <2>2. PICK c \in {moved("ready"), settled("not_started")} : Becomes(i, c)
    BY <1>4, <1>7 DEF PrepareCall, Places, Outcomes
  <2>3. c.at \in {"ready", "publishing"} /\ (c.at = "publishing" => c.outcome = "not_started")
    BY <1>3, <2>2
  <2>4. Fits(i, c)
    BY <2>1, <2>3 DEF Fits
  <2>5. CallSays(c, t)
    BY <1>2, <2>1, <2>3 DEF CallSays, Truth
  <2> QED BY <1>5, <2>1, <2>2, <2>3, <2>4, <2>5
<1>8. CASE Admit(i) /\ aborted
  <2>1. Becomes(i, settled("not_started")) /\ call[i].at = "admitting" /\ ToolPhase
    BY <1>4, <1>8 DEF Admit, Outcomes
  <2>2. Fits(i, settled("not_started"))
    BY <1>3, <2>1 DEF Fits, ToolPhase
  <2>3. CallSays(settled("not_started"), t)
    BY <1>2, <1>3, <2>1 DEF CallSays, Truth
  <2> QED BY <1>3, <1>5, <2>1, <2>2, <2>3
<1>9. CASE CallReturns(i)
  <2>1. call[i].at = "running" /\ ToolPhase /\ t \in toolFinished
    BY <1>9 DEF CallReturns, t
  <2>2. PICK o \in {"completed", "failed"} : Becomes(i, settled(o))
    BY <1>4, <1>9 DEF CallReturns, Outcomes
  <2>3. Fits(i, settled(o))
    BY <1>3, <2>1 DEF Fits, ToolPhase
  <2>4. CallSays(settled(o), t)
    BY <1>2, <1>3, <2>1, <2>2 DEF CallSays, Truth
  <2> QED BY <1>3, <1>5, <2>1, <2>2, <2>3, <2>4
<1>10. CASE CallAborted(i)
  <2>1. Becomes(i, settled("outcome_unknown")) /\ call[i].at = "running" /\ ToolPhase /\ aborted
    BY <1>4, <1>10 DEF CallAborted, Outcomes
  <2>2. Fits(i, settled("outcome_unknown"))
    BY <1>3, <2>1 DEF Fits, ToolPhase
  <2>3. CallSays(settled("outcome_unknown"), t)
    BY <1>2, <1>3, <2>1 DEF CallSays, Truth
  <2> QED BY <1>3, <1>5, <2>1, <2>2, <2>3
<1>11. CASE Publish(i)
  <2>1. Becomes(i, moved("published")) /\ call[i].at = "publishing" /\ ToolPhase
    BY <1>4, <1>11 DEF Publish, Places
  <2>2. Fits(i, moved("published"))
    BY <1>3, <2>1 DEF Fits, ToolPhase
  <2>3. CallSays(moved("published"), t)
    BY <1>2, <1>3, <2>1 DEF CallSays
  <2> QED BY <1>3, <1>5, <2>1, <2>2, <2>3
<1>12. CASE phase = "executing" /\ CallRejected(i)
  <2>1. Becomes(i, moved("rejected")) /\ call[i].at \in {"admitting", "publishing"}
    BY <1>4, <1>12 DEF CallRejected, Places
  <2>2. Fits(i, moved("rejected"))
    BY <1>3, <1>12 DEF Fits
  <2>3. CallSays(moved("rejected"), t)
    BY <1>3 DEF CallSays
  <2> QED BY <1>3, <1>5, <2>1, <2>2, <2>3
<1> QED BY <1>6, <1>7, <1>8, <1>9, <1>10, <1>11, <1>12

(* A tool starts; no result has spoken of it.                            *)
LEMMA AdmitTools ==
  ASSUME Types, ToolsInv, NEW i \in DOMAIN call, Admit(i), ~aborted
  PROVE  ToolsInv'
<1> DEFINE c == [at |-> "running", outcome |-> call[i].outcome]
           t == << assistants, i >>
<1>1. /\ ToolPhase /\ phase \in Tooling /\ call[i].at = "admitting"
      /\ toolStarted' = toolStarted \union {t}
      /\ UNCHANGED << phase, aborted, runFrom, assistants, transcript, toolFinished >>
  BY DEF Admit, ToolPhase, Tooling, stillVars, batchVars
<1>2. i \in 1 .. Len(call) /\ i \in Nat /\ assistants \in Nat
  BY LenProperties DEF Types, CallTypes, RunTypes
<1>3. Becomes(i, c) /\ c.at = "running"
  BY MovedTo DEF Admit, Places
<1>4. t \notin toolStarted /\ t[1] = assistants /\ t[2] = i /\ t \in Nat \X Nat
  BY <1>1, <1>2 DEF ToolsInv, CallTruth, CallSays
<1> HIDE DEF c
<1>5. phase \in {"calling", "executing"}
  BY <1>1 DEF ToolsInv, PhaseCalls, CallsAt, ToolPhase
<1>6. PhaseCalls'
  <2>1. Fits(i, c)
    BY <1>1, <1>3, <1>5 DEF Fits
  <2> QED BY <1>1, <1>3, <2>1, FittingCall DEF ToolsInv
<1>7. /\ \A j \in 1 .. Len(call) : j # i => call'[j] = call[j]
      /\ call'[i].at = "running" /\ Len(call') = Len(call) /\ call' \in Seq(Call)
  BY <1>3 DEF Becomes
<1>8. CallTypes'
  BY <1>1, <1>4, <1>7 DEF ToolsInv, CallTypes
<1>9. \A u : u # t => (u \in toolStarted' <=> u \in toolStarted)
  BY <1>1
<1>10. CallTruth'
  <2>1. ASSUME NEW j \in 1 .. Len(call) PROVE CallSays(call[j], << assistants, j >>)'
    <3>1. CASE j = i
      BY <1>1, <1>7, <3>1 DEF CallSays
    <3>2. CASE j # i
      <4>1. call'[j] = call[j] /\ << assistants, j >> # t
        BY <1>7, <3>2
      <4>2. CallSays(call[j], << assistants, j >>)
        BY <1>1 DEF ToolsInv, CallTruth
      <4> QED BY <1>1, <1>9, <4>1, <4>2 DEF CallSays, Truth
    <3> QED BY <3>1, <3>2
  <2> QED BY <1>7, <2>1 DEF CallTruth
<1>11. ToolInv'
  <2>1. \A u \in toolStarted' : u[1] <= assistants
    BY <1>1, <1>2, <1>4 DEF ToolsInv, ToolInv
  <2>2. phase \notin {"streaming", "answered"}
    BY <1>5
  <2>3. ASSUME NEW u \in toolStarted' \ toolFinished
        PROVE  \/ u[1] <= runFrom
               \/ /\ phase \in {"calling", "executing"} /\ u[1] = assistants
                  /\ u[2] \in 1 .. Len(call) /\ call'[u[2]].at = "running"
    <3>1. CASE u = t
      BY <1>2, <1>4, <1>5, <1>7, <3>1
    <3>2. CASE u # t
      <4>1. u \in toolStarted \ toolFinished
        BY <1>9, <3>2
      <4>2. CASE u[1] <= runFrom
        BY <4>2
      <4>3. CASE /\ phase \in {"calling", "executing"} /\ u[1] = assistants
                 /\ u[2] \in 1 .. Len(call) /\ call[u[2]].at = "running"
        <5>1. u[2] # i
          BY <1>1, <4>3
        <5> QED BY <1>7, <4>3, <5>1
      <4> QED BY <4>1, <4>2, <4>3 DEF ToolsInv, ToolInv
    <3> QED BY <3>1, <3>2
  <2> QED BY <1>1, <1>7, <2>1, <2>2, <2>3 DEF ToolInv
<1>12. ResultInv'
  <2>1. ASSUME NEW k \in 1 .. Len(transcript), transcript[k].role = "toolResult"
        PROVE  /\ Truth(transcript[k].outcome, << transcript[k].id, transcript[k].call >>)'
               /\ transcript[k].id = assistants =>
                    /\ transcript[k].call \in 1 .. Len(call)
                    /\ call'[transcript[k].call].at = "answered"
    <3> DEFINE u == << transcript[k].id, transcript[k].call >>
    <3>1. /\ Truth(transcript[k].outcome, u)
          /\ transcript[k].id = assistants =>
               /\ transcript[k].call \in 1 .. Len(call)
               /\ call[transcript[k].call].at = "answered"
      BY <1>1, <2>1 DEF ToolsInv, ResultInv
    <3>2. transcript[k].id = assistants => transcript[k].call # i
      BY <1>1, <3>1
    <3>3. u # t
      BY <3>2
    <3>4. Truth(transcript[k].outcome, u)'
      BY <1>1, <1>9, <3>1, <3>3 DEF Truth
    <3> QED BY <1>7, <3>1, <3>2, <3>4
  <2>2. phase \notin {"streaming", "answered"}
    BY <1>5
  <2> QED BY <1>1, <1>7, <2>1, <2>2 DEF ResultInv
<1> QED BY <1>6, <1>8, <1>10, <1>11, <1>12 DEF ToolsInv

(* The result of a call says what its place says.                        *)
LEMMA AnswerTools ==
  ASSUME Types, ToolsInv, NEW i \in DOMAIN call, AnswerCall(i)
  PROVE  ToolsInv'
<1> DEFINE m == ToolResult(assistants, i, call[i].outcome)
           c == [at |-> "answered", outcome |-> call[i].outcome]
           l == Len(transcript)
<1>1. /\ phase \in {"calling", "answering"} /\ phase \in Tooling /\ call[i].at = "published"
      /\ transcript' = Append(transcript, m)
      /\ UNCHANGED << phase, aborted, runFrom, assistants, toolStarted, toolFinished >>
  BY DEF AnswerCall, Tooling, stillVars, batchVars
<1>2. i \in 1 .. Len(call) /\ i \in Nat /\ call[i] \in Call /\ assistants \in Nat \ {0}
  BY <1>1, LenProperties, ElementOfSeq DEF Types, CallTypes, RunTypes
<1>3. Becomes(i, c) /\ c.at = "answered" /\ c.outcome = call[i].outcome
  BY MovedTo DEF AnswerCall, Places
<1>4. CallSays(call[i], << assistants, i >>)
  BY <1>1, <1>2 DEF ToolsInv, CallTruth
<1>5. m \in Message /\ m.id = assistants /\ m.call = i /\ m.outcome = call[i].outcome
  <2>1. call[i].outcome \in Outcomes
    BY <1>2 DEF Call
  <2> QED BY <1>2, <2>1, MessagesMade DEF ToolResult, Message
<1>6. /\ l \in Nat /\ Len(transcript') = l + 1 /\ transcript'[l + 1] = m
      /\ \A k \in 1 .. l : transcript'[k] = transcript[k]
  BY <1>1, <1>5, AppendProperties, LenProperties DEF Types, TalkTypes
<1> HIDE DEF m, c
<1>7. PhaseCalls'
  <2>1. Fits(i, c)
    BY <1>1, <1>3 DEF Fits
  <2> QED BY <1>1, <1>3, <2>1, FittingCall DEF ToolsInv
<1>8. /\ \A j \in 1 .. Len(call) : j # i => call'[j] = call[j]
      /\ call'[i].at = "answered" /\ call'[i].outcome = call[i].outcome
      /\ Len(call') = Len(call) /\ call' \in Seq(Call)
  BY <1>3 DEF Becomes
<1>9. CallTypes'
  BY <1>1, <1>8 DEF ToolsInv, CallTypes
<1>10. CallTruth'
  <2>1. ASSUME NEW j \in 1 .. Len(call) PROVE CallSays(call[j], << assistants, j >>)'
    <3>1. CASE j = i
      BY <1>1, <1>4, <1>8, <3>1 DEF CallSays, Truth
    <3>2. CASE j # i
      BY <1>1, <1>8, <3>2 DEF ToolsInv, CallTruth, CallSays, Truth
    <3> QED BY <3>1, <3>2
  <2> QED BY <1>8, <2>1 DEF CallTruth
<1>11. ToolInv'
  <2>1. \A j \in 1 .. Len(call) : call[j].at = "running" => call'[j].at = "running"
    BY <1>1, <1>8
  <2> QED BY <1>1, <1>8, <2>1 DEF ToolsInv, ToolInv
<1>12. ResultInv'
  <2>1. \A j \in 1 .. Len(call) : call[j].at = "answered" => call'[j].at = "answered"
    BY <1>8
  <2>2. phase \notin {"streaming", "answered"}
    BY <1>1
  <2>3. ASSUME NEW k \in 1 .. l + 1, transcript'[k].role = "toolResult"
        PROVE  /\ Truth(transcript[k].outcome, << transcript[k].id, transcript[k].call >>)'
               /\ transcript'[k].id = assistants =>
                    /\ transcript'[k].call \in 1 .. Len(call)
                    /\ call'[transcript'[k].call].at = "answered"
    <3>1. CASE k = l + 1
      <4>1. transcript'[k] = m
        BY <1>6, <3>1
      <4>2. Truth(m.outcome, << m.id, m.call >>)
        BY <1>1, <1>4, <1>5 DEF CallSays
      <4> QED BY <1>1, <1>2, <1>5, <1>8, <4>1, <4>2 DEF Truth
    <3>2. CASE k # l + 1
      <4>1. k \in 1 .. Len(transcript) /\ transcript'[k] = transcript[k]
        BY <1>6, <3>2
      <4>2. /\ Truth(transcript[k].outcome, << transcript[k].id, transcript[k].call >>)
            /\ transcript[k].id = assistants =>
                 /\ transcript[k].call \in 1 .. Len(call)
                 /\ call[transcript[k].call].at = "answered"
        BY <1>1, <2>3, <4>1 DEF ToolsInv, ResultInv
      <4> QED BY <1>1, <2>1, <4>1, <4>2 DEF Truth
    <3> QED BY <3>1, <3>2
  <2> QED BY <1>1, <1>6, <1>8, <2>2, <2>3 DEF ResultInv
<1> QED BY <1>7, <1>9, <1>10, <1>11, <1>12 DEF ToolsInv

(* What is ready begins, or gets the result that it did not.             *)
LEMMA LaunchTools ==
  ASSUME Types, ToolsInv, Launch
  PROVE  ToolsInv'
<1>1. /\ phase \in Tooling /\ phase' \in Tooling
      /\ UNCHANGED << aborted, runFrom, assistants, transcript, toolStarted, toolFinished >>
      /\ \/ phase = "calling" /\ phase' = "calling"
         \/ /\ phase = "preparing" /\ phase' = "executing" /\ CallsAt({"ready", "published"})
  BY DEF Launch, Tooling, batchVars
<1>2. /\ DOMAIN call = 1 .. Len(call) /\ Len(call) \in Nat
      /\ call' \in Seq(Call) /\ Len(call') = Len(call) /\ DOMAIN call' = 1 .. Len(call)
  BY LaunchMoves, LenProperties DEF Moves, Types, CallTypes
<1>3. ASSUME NEW j \in 1 .. Len(call)
      PROVE  \/ call[j].at # "ready" /\ call'[j] = call[j]
             \/ /\ call[j].at = "ready"
                /\ \/ call'[j].at = "publishing" /\ call'[j].outcome = "not_started"
                   \/ call'[j].at = "admitting"
  <2>1. call' = [k \in 1 .. Len(call) |->
                   IF call[k].at # "ready" THEN call[k]
                   ELSE IF aborted THEN [at |-> "publishing", outcome |-> "not_started"]
                   ELSE [at |-> "admitting", outcome |-> "none"]]
    BY <1>2 DEF Launch
  <2>2. call'[j] = IF call[j].at # "ready" THEN call[j]
                   ELSE IF aborted THEN [at |-> "publishing", outcome |-> "not_started"]
                   ELSE [at |-> "admitting", outcome |-> "none"]
    BY <2>1
  <2> QED BY <2>2
<1>4. CallTypes'
  BY <1>1, <1>2 DEF ToolsInv, CallTypes
<1>5. PhaseCalls'
  <2>1. CASE phase = "calling" /\ phase' = "calling"
    <3>1. \A j \in 1 .. Len(call) : call'[j].at # "rejected"
      BY <1>3, <2>1 DEF ToolsInv, PhaseCalls
    <3>2. ASSUME NEW h \in 1 .. Len(call), NEW j \in 1 .. Len(call), h < j, call'[j].at # "waiting"
          PROVE  call'[h].at = "answered"
      <4>1. call[j].at # "waiting"
        BY <1>3, <3>2
      <4>2. call[h].at = "answered"
        BY <2>1, <3>2, <4>1 DEF ToolsInv, PhaseCalls
      <4> QED BY <1>3, <4>2
    <3> QED BY <1>2, <2>1, <3>1, <3>2 DEF PhaseCalls
  <2>2. CASE phase = "preparing" /\ phase' = "executing" /\ CallsAt({"ready", "published"})
    <3>1. \A j \in 1 .. Len(call) : call[j].at \in {"ready", "published"}
      BY <1>2, <2>2 DEF CallsAt
    <3>2. \A j \in 1 .. Len(call) : call'[j].at \in {"publishing", "admitting", "published"}
      BY <1>3, <3>1
    <3> QED BY <1>2, <2>2, <3>2 DEF PhaseCalls, CallsAt
  <2> QED BY <1>1, <2>1, <2>2
<1>6. CallTruth'
  <2>1. ASSUME NEW j \in 1 .. Len(call) PROVE CallSays(call[j], << assistants, j >>)'
    <3>1. CallSays(call[j], << assistants, j >>)
      BY <1>1 DEF ToolsInv, CallTruth
    <3> QED BY <1>1, <1>3, <3>1 DEF CallSays, Truth
  <2> QED BY <1>2, <2>1 DEF CallTruth
<1>7. ToolInv'
  <2>1. \A j \in 1 .. Len(call) : call[j].at = "running" => call'[j].at = "running"
    BY <1>3
  <2>2. phase \in {"calling", "executing"} => phase' \in {"calling", "executing"}
    BY <1>1
  <2>3. phase' \notin {"streaming", "answered"}
    BY <1>1
  <2> QED BY <1>1, <1>2, <2>1, <2>2, <2>3 DEF ToolsInv, ToolInv
<1>8. ResultInv'
  <2>1. \A j \in 1 .. Len(call) : call[j].at = "answered" => call'[j].at = "answered"
    BY <1>3
  <2>2. phase' \notin {"streaming", "answered"}
    BY <1>1
  <2> QED BY <1>1, <1>2, <2>1, <2>2 DEF ToolsInv, ResultInv, Truth
<1> QED BY <1>4, <1>5, <1>6, <1>7, <1>8 DEF ToolsInv

(* All calls of a parallel batch have settled: nothing runs.             *)
LEMMA AllSettledTools ==
  ASSUME Types, ToolsInv, AllSettled
  PROVE  ToolsInv'
<1>1. /\ phase \in Tooling /\ phase' = "answering" /\ phase' \in Tooling
      /\ CallsAt({"published", "rejected"}) \/ CallsAt({"published"})
      /\ UNCHANGED << call, aborted, runFrom, assistants, transcript, toolStarted, toolFinished >>
  BY DEF AllSettled, Tooling, batchVars, toolVars
<1>2. DOMAIN call = 1 .. Len(call)
  BY LenProperties DEF Types, CallTypes
<1>3. \A i \in 1 .. Len(call) : call[i].at \in {"published", "rejected"}
  BY <1>1, <1>2 DEF CallsAt
<1>4. CallTypes' /\ CallTruth'
  BY <1>1 DEF ToolsInv, CallTypes, CallTruth, CallSays, Truth
<1>5. PhaseCalls'
  BY <1>1, <1>2, <1>3 DEF PhaseCalls, CallsAt
<1>6. ToolInv'
  BY <1>1, <1>3 DEF ToolsInv, ToolInv
<1>7. ResultInv'
  BY <1>1 DEF ToolsInv, ResultInv, Truth
<1> QED BY <1>4, <1>5, <1>6, <1>7 DEF ToolsInv

(* Every step keeps the invariant of the tools.                          *)
LEMMA ToolsKept ==
  ASSUME Types, IdInv, ToolsInv, ToolStep
  PROVE  ToolsInv'
<1>1. ASSUME NEW i \in DOMAIN call, CallStep(i) PROVE ToolsInv'
  <2>1. CASE Admit(i)
    BY <2>1, AdmitTools, CallTools
  <2>2. CASE AnswerCall(i)
    BY <2>2, AnswerTools
  <2> QED BY <1>1, <2>1, <2>2, CallTools DEF CallStep
<1>2. ASSUME NEW t \in toolStarted, ToolFinishes(t) PROVE ToolsInv'
  BY <1>2, FinishesTools
<1> QED BY <1>1, <1>2, RestsTools, UntooledTools, EntersTools, LeavesTools, LaunchTools,
           AllSettledTools DEF ToolStep

-----------------------------------------------------------------------------
(***************************************************************************)
(* The theorems.                                                           *)
(***************************************************************************)

(* What every reachable state satisfies.                                 *)
IInv == RunInv /\ TalkInv /\ ContextInv /\ ToolsInv

(* The parts of the invariant give the types.                            *)
LEMMA IInvTypes == IInv => Types
  BY DEF IInv, RunInv, TalkInv, ContextInv, ToolsInv, Types

(* It holds in the beginning.                                            *)
LEMMA InitIInv == Init => IInv
<1> SUFFICES ASSUME Init PROVE IInv
  OBVIOUS
<1>1. /\ phase = "idle" /\ phase \notin Tooling /\ phase \notin Going
      /\ phase \notin {"open", "init", "streaming", "answered", "turnEnd"}
  BY DEF Init, Going, Tooling
<1>2. RunInv
  <2>1. aborted \in BOOLEAN /\ more \in BOOLEAN /\ skipPoll \in BOOLEAN
    BY DEF Init
  <2>2. /\ phase \in Phases /\ retry \in {"none", "reprepared", "recovered"} /\ inbox = << >>
        /\ runFrom = 0 /\ assistants = 0 /\ ends = 0 /\ faults = 0
    BY DEF Init, Phases
  <2>3. /\ runFrom \in Nat /\ assistants \in Nat /\ ends \in Nat /\ faults \in Nat
        /\ runFrom <= assistants
    BY <2>2
  <2> QED BY <1>1, <2>1, <2>2, <2>3 DEF RunInv, RunTypes, InboxInv
<1>3. Len(<< >>) = 0 /\ 1 .. 0 = {} /\ \A S : << >> \in Seq(S)
  BY EmptySeq
<1>4. TalkInv
  <2>1. TalkTypes
    BY <1>3 DEF Init, TalkTypes, Batch
  <2>2. KeptInv
    BY <1>3 DEF Init, KeptInv, QueuedIds, Ids, UserIds
  <2>3. OrderInv
    BY <1>3 DEF Init, OrderInv, Sorted, Before, QueueOrder
  <2> QED BY <2>1, <2>2, <2>3 DEF TalkInv
<1>5. ContextInv
  <2>1. ContextTypes
    BY <1>3 DEF Init, ContextTypes
  <2>2. IdInv
    BY <1>1, <1>3 DEF Init, IdInv, Older, Whole
  <2>3. ViewInv /\ AskedInv
    BY <1>1 DEF ViewInv, AskedInv
  <2> QED BY <2>1, <2>2, <2>3 DEF ContextInv
<1>6. ToolsInv
  <2>1. CallTypes
    BY <1>3 DEF Init, CallTypes
  <2>2. PhaseCalls /\ CallTruth
    BY <1>1 DEF PhaseCalls, CallTruth, Tooling
  <2>3. ToolInv
    BY DEF Init, ToolInv
  <2>4. ResultInv
    BY <1>3 DEF Init, ResultInv
  <2> QED BY <2>1, <2>2, <2>3, <2>4 DEF ToolsInv
<1> QED BY <1>2, <1>4, <1>5, <1>6 DEF IInv

(* No step breaks it.                                                    *)
LEMMA NextIInv == IInv /\ [Next]_vars => IInv'
<1> SUFFICES ASSUME IInv, [Next]_vars PROVE IInv'
  OBVIOUS
<1>1. Types /\ InboxInv /\ TalkInv /\ ContextInv /\ ToolsInv /\ PhaseCalls /\ IdInv
  BY IInvTypes DEF IInv, RunInv, ContextInv, ToolsInv
<1>2. RunInv'
  BY <1>1, RunKept
<1>3. TalkInv'
  BY <1>1, MessageShape, TalkKept
<1>4. ContextInv'
  BY <1>1, ContextShape, ContextKept
<1>5. ToolsInv'
  BY <1>1, ToolShape, ToolsKept
<1> QED BY <1>2, <1>3, <1>4, <1>5 DEF IInv

(* The invariant holds in every state of every behaviour.                *)
THEOREM Invariance == Spec => []IInv
  BY InitIInv, NextIInv, PTL DEF Spec

(* The state has its types. *)
THEOREM LoopTypes == Spec => []TypeOK
<1>1. IInv => TypeOK
  <2> SUFFICES ASSUME IInv PROVE TypeOK
    OBVIOUS
  <2>1. RunTypes /\ TalkTypes /\ ContextTypes /\ CallTypes /\ IdInv /\ KeptInv
    BY DEF IInv, RunInv, TalkInv, ContextInv, ToolsInv
  <2>2. /\ DOMAIN transcript = 1 .. Len(transcript) /\ DOMAIN context = 1 .. Len(context)
        /\ DOMAIN inbox = 1 .. Len(inbox) /\ DOMAIN results = 1 .. Len(results)
        /\ DOMAIN call = 1 .. Len(call)
    BY <2>1, LenProperties DEF TalkTypes, ContextTypes, CallTypes, Batch
  <2>3. \A m \in Message : m.role \in {"user", "assistant", "toolResult"}
    BY MessageKinds
  <2>4. /\ \A i \in DOMAIN transcript : transcript[i].role \in {"user", "assistant", "toolResult"}
        /\ \A i \in DOMAIN context : context[i].role \in {"user", "assistant", "toolResult"}
    BY <2>1, <2>2, <2>3, ElementOfSeq DEF TalkTypes, ContextTypes
  <2>5. \A i \in DOMAIN inbox : inbox[i].role \in {"user", "assistant", "toolResult"}
    <3>1. \A i \in DOMAIN inbox : inbox[i] \in UserMessage
      BY <2>1, <2>2, ElementOfSeq DEF TalkTypes, Batch
    <3> QED BY <3>1 DEF UserMessage
  <2>6. \A i \in DOMAIN results : results[i].role \in {"user", "assistant", "toolResult"}
    <3>1. \A i \in DOMAIN results : results[i] \in Result
      BY <2>1, <2>2, ElementOfSeq DEF ContextTypes
    <3> QED BY <3>1 DEF Result
  <2>7. CallsAt({"waiting", "announced", "ready", "admitting", "running", "publishing",
                 "published", "rejected", "answered"})
    <3>1. \A i \in DOMAIN call : call[i] \in Call
      BY <2>1, <2>2, ElementOfSeq DEF CallTypes
    <3> QED BY <3>1 DEF Call, Places, CallsAt
  <2>8. recovered \subseteq 1 .. assistants /\ toolFinished \subseteq toolStarted
    BY <2>1 DEF IdInv, CallTypes
  <2>9. dropped \subseteq 1 .. handed
    BY <2>1 DEF KeptInv
  <2>10. {aborted, more, skipPoll} \subseteq BOOLEAN
    BY <2>1 DEF RunTypes
  <2>11. {handed, assistants, runFrom, ends, faults} \subseteq Nat
    BY <2>1 DEF RunTypes, TalkTypes
  <2>12. retry \in {"none", "reprepared", "recovered"} /\ phase \in Phases
    BY <2>1 DEF RunTypes
  <2> QED BY <2>4, <2>5, <2>6, <2>7, <2>8, <2>9, <2>10, <2>11, <2>12 DEF TypeOK, Phases
<1> QED BY <1>1, Invariance, PTL

(* What the loop sends to the provider answers every call of a reply of  *)
(* the run, directly behind it and in its order, and nothing else.       *)
THEOREM RequestsAreComplete == Spec => []CallsAnswered
<1>1. IInv => CallsAnswered
  <2> SUFFICES ASSUME IInv, phase = "prepare", NEW j \in DOMAIN context
               PROVE  /\ (ThisRun(context[j]) /\ context[j].role = "assistant") =>
                           \A i \in 1 .. context[j].calls :
                             /\ j + i \in DOMAIN context
                             /\ context[j + i].role = "toolResult"
                             /\ context[j + i].id = context[j].id /\ context[j + i].call = i
                      /\ (ThisRun(context[j]) /\ context[j].role = "toolResult") =>
                           \E k \in 1 .. (j - 1) : /\ context[k].role = "assistant"
                                                   /\ context[k].id = context[j].id
                                                   /\ j = k + context[j].call
    BY DEF CallsAnswered
  <2>1. phase \in Going
    BY DEF Going
  <2>2. Complete(context, runFrom) /\ context \in Seq(Message)
    BY <2>1 DEF IInv, ContextInv, ContextTypes, ViewInv, AskedInv
  <2>3. DOMAIN context = 1 .. Len(context)
    BY <2>2, LenProperties
  <2>4. ThisRun(context[j]) => context[j].id > runFrom
    BY DEF ThisRun
  <2> QED BY <2>2, <2>3, <2>4 DEF Complete, RepliesAnswered, ResultsAsked
<1> QED BY <1>1, Invariance, PTL

(* What is sent is the transcript, without the replies recovered from.   *)
THEOREM RequestsAreTheTranscript == Spec => []RequestIsTranscript
<1>1. IInv => RequestIsTranscript
  <2> SUFFICES ASSUME IInv, phase = "prepare"
               PROVE  context = View(transcript, recovered)
    BY DEF RequestIsTranscript, View, Sent
  <2> QED BY DEF IInv, ContextInv, ViewInv, Going
<1> QED BY <1>1, Invariance, PTL

(* No run that ends by itself forgets a message a caller handed over, and *)
(* none is in the transcript out of the order of its kind.                *)
THEOREM MessagesStay == Spec => []MessagesKept
<1>1. IInv => MessagesKept
  <2> SUFFICES ASSUME IInv PROVE MessagesKept
    OBVIOUS
  <2>1. KeptInv /\ Sorted(transcript) /\ InboxInv /\ transcript \in Seq(Message)
    BY DEF IInv, TalkInv, TalkTypes, OrderInv, RunInv
  <2>2. Ids(inbox) = IF phase = "idle" THEN {} ELSE Ids(inbox)
    BY <2>1, BatchIds DEF InboxInv
  <2>3. DOMAIN transcript = 1 .. Len(transcript)
    BY <2>1, LenProperties
  <2>4. \A i, j \in DOMAIN transcript :
          (/\ i < j /\ transcript[i].role = "user" /\ transcript[j].role = "user"
           /\ transcript[i].via = transcript[j].via) => transcript[i].id < transcript[j].id
    BY <2>1, <2>3 DEF Sorted, Earlier
  <2> QED BY <2>1, <2>2, <2>4 DEF MessagesKept, KeptInv, UserIds
<1> QED BY <1>1, Invariance, PTL

(* No run that goes on or ends leaves a tool of its own running, unless  *)
(* it was aborted.                                                       *)
THEOREM ToolsSettle == Spec => []StartedToolsSettle
<1>1. IInv => StartedToolsSettle
  BY DEF IInv, ToolsInv, ToolInv, StartedToolsSettle
<1> QED BY <1>1, Invariance, PTL

(* A result says of its tool what is so, and stays true.                 *)
THEOREM ResultsAreTrue == Spec => []OutcomesAreTrue
<1>1. IInv => OutcomesAreTrue
  <2> SUFFICES ASSUME IInv PROVE OutcomesAreTrue
    OBVIOUS
  <2>1. DOMAIN transcript = 1 .. Len(transcript) /\ ResultInv
    BY LenProperties DEF IInv, TalkInv, TalkTypes, ToolsInv
  <2> QED BY <2>1 DEF OutcomesAreTrue, ResultInv, Truth
<1> QED BY <1>1, Invariance, PTL
=============================================================================

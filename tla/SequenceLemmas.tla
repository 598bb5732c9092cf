-------------------------- MODULE SequenceLemmas ---------------------------
(***************************************************************************)
(* What the proofs about bytes and packets need of sequences.              *)
(***************************************************************************)
EXTENDS Integers, SequencesExt, SequenceTheorems, WellFoundedInduction, TLAPS

\* A set of naturals has a least element: the form in which induction is used.
LEMMA Least ==
  ASSUME NEW T \in SUBSET Nat, T # {}
  PROVE  \E m \in T : \A k \in T : m <= k
<1> DEFINE R == OpToRel(<, Nat)
<1>1. IsWellFoundedOn(R, Nat)
  BY NatLessThanWellFounded
<1>2. \A x, y \in Nat : x < y => <<x, y>> \in R
  BY DEF OpToRel
<1> HIDE DEF R
<1>3. PICK m \in T : \A k \in T : ~ (<<k, m>> \in R)
  BY <1>1, WFMin
<1>4. \A k \in T : ~(k < m)
  BY <1>2, <1>3
<1>5. T \subseteq Nat /\ m \in Nat
  OBVIOUS
<1>6. \A i, j \in Nat : ~(j < i) => i <= j
  OBVIOUS
<1> QED
  BY <1>4, <1>5, <1>6, Zenon

-----------------------------------------------------------------------------
(* Flattening: FlattenSeq joins its sequences from the first one on.       *)

\* f holds the joins of the first 1, 2, .. n of the sequences of s.
Joins(f, s, n) ==
  f = [i \in 1..n |-> IF i = 1 THEN s[i] ELSE f[i-1] \o s[i]]

LEMMA JoinsAgree ==
  ASSUME NEW s, NEW m \in Nat, NEW n \in Nat, NEW f, NEW g,
         m <= n, Joins(f, s, m), Joins(g, s, n)
  PROVE  \A i \in 1..m : f[i] = g[i]
<1> SUFFICES ASSUME NEW k \in 1..m, f[k] # g[k] PROVE FALSE
  OBVIOUS
<1> DEFINE T == {i \in 1..m : f[i] # g[i]}
<1>1. T \in SUBSET Nat /\ T # {}
  OBVIOUS
<1>2. PICK i \in T : \A j \in T : i <= j
  BY <1>1, Least, Zenon
<1>3. i \in 1..m /\ i \in 1..n /\ f[i] # g[i]
  BY <1>2
<1>4. f[i] = IF i = 1 THEN s[i] ELSE f[i-1] \o s[i]
  BY <1>3 DEF Joins
<1>5. g[i] = IF i = 1 THEN s[i] ELSE g[i-1] \o s[i]
  BY <1>3 DEF Joins
<1>6. i # 1 => i-1 \in 1..m /\ ~(i <= i-1)
  BY <1>3
<1>7. i # 1 => f[i-1] = g[i-1]
  BY <1>2, <1>6
<1> QED
  BY <1>3, <1>4, <1>5, <1>7

LEMMA JoinsMore ==
  ASSUME NEW s, NEW n \in Nat, NEW f, Joins(f, s, n)
  PROVE  \E g : Joins(g, s, n + 1)
<1> DEFINE g == [i \in 1..n+1 |-> IF i \in 1..n THEN f[i]
                                  ELSE IF i = 1 THEN s[i] ELSE f[i-1] \o s[i]]
<1>1. ASSUME NEW i \in 1..n+1
      PROVE  g[i] = IF i = 1 THEN s[i] ELSE g[i-1] \o s[i]
  <2>1. i # 1 => i-1 \in 1..n /\ i-1 \in 1..n+1
    OBVIOUS
  <2>2. i # 1 => g[i-1] = f[i-1]
    BY <2>1
  <2>3. i \in 1..n => f[i] = IF i = 1 THEN s[i] ELSE f[i-1] \o s[i]
    BY DEF Joins
  <2> QED
    BY <2>2, <2>3
<1>2. g = [i \in 1..n+1 |-> g[i]]
  OBVIOUS
<1> HIDE DEF g
<1>3. g = [i \in 1..n+1 |-> IF i = 1 THEN s[i] ELSE g[i-1] \o s[i]]
  BY <1>1, <1>2, Zenon
<1> QED
  BY <1>3 DEF Joins

LEMMA JoinsExist ==
  ASSUME NEW s, NEW n \in Nat
  PROVE  \E f : Joins(f, s, n)
<1> DEFINE T == {i \in Nat : ~ \E f : Joins(f, s, i)}
<1>1. \E f : Joins(f, s, 0)
  BY DEF Joins
<1>2. ASSUME T # {} PROVE FALSE
  <2>1. PICK m \in T : \A k \in T : m <= k
    <3>1. T \in SUBSET Nat
      OBVIOUS
    <3> QED
      BY <1>2, <3>1, Least, Zenon
  <2>2. m \in Nat /\ ~ \E f : Joins(f, s, m)
    BY <2>1
  <2>3. m # 0
    BY <1>1, <2>2
  <2>4. m - 1 \in Nat /\ ~(m <= m - 1) /\ m - 1 + 1 = m
    BY <2>2, <2>3
  <2>5. m - 1 \notin T
    BY <2>1, <2>4
  <2>6. \E f : Joins(f, s, m - 1)
    BY <2>4, <2>5
  <2> QED
    BY <2>2, <2>4, <2>6, JoinsMore
<1> QED
  BY <1>2

LEMMA FlattenJoins ==
  ASSUME NEW s, Len(s) \in Nat \ {0}
  PROVE  \E f : Joins(f, s, Len(s)) /\ FlattenSeq(s) = f[Len(s)]
<1> DEFINE f == CHOOSE f : Joins(f, s, Len(s))
<1>1. Joins(f, s, Len(s))
  BY JoinsExist, Zenon
<1>2. FlattenSeq(s) = f[Len(s)]
  BY SMT DEF FlattenSeq, Joins
<1> HIDE DEF f
<1> QED
  BY <1>1, <1>2

LEMMA FlattenEmpty == FlattenSeq(<< >>) = << >>
  BY DEF FlattenSeq

LEMMA FlattenAppend ==
  ASSUME NEW S, NEW s \in Seq(Seq(S)), NEW e \in Seq(S)
  PROVE  FlattenSeq(Append(s, e)) = FlattenSeq(s) \o e
<1> DEFINE t == Append(s, e)
<1>1. /\ Len(t) = Len(s) + 1 /\ Len(s) \in Nat /\ t[Len(t)] = e
      /\ \A i \in 1..Len(s) : t[i] = s[i]
  OBVIOUS
<1> HIDE DEF t
<1>2. PICK g : Joins(g, t, Len(t)) /\ FlattenSeq(t) = g[Len(t)]
  BY <1>1, FlattenJoins
<1>3. CASE s = << >>
  <2>1. Len(t) = 1 /\ g[1] = t[1]
    BY <1>1, <1>2, <1>3 DEF Joins
  <2> QED
    BY <1>1, <1>2, <1>3, <2>1, FlattenEmpty DEF t
<1>4. CASE s # << >>
  <2>1. Len(s) \in Nat \ {0}
    BY <1>4
  <2>2. PICK f : Joins(f, s, Len(s)) /\ FlattenSeq(s) = f[Len(s)]
    BY <2>1, FlattenJoins
  <2>3. Joins(f, t, Len(s))
    <3>1. \A i \in 1..Len(s) : t[i] = s[i]
      BY <1>1
    <3> QED
      BY <2>2, <3>1 DEF Joins
  <2>4. f[Len(s)] = g[Len(s)]
    BY <1>1, <1>2, <2>1, <2>3, JoinsAgree
  <2>5. g[Len(t)] = g[Len(s)] \o t[Len(t)]
    <3>1. Len(t) \in 1..Len(t) /\ Len(t) # 1 /\ Len(t) - 1 = Len(s)
      BY <1>1, <2>1
    <3>2. \A i \in 1..Len(t) : g[i] = IF i = 1 THEN t[i] ELSE g[i-1] \o t[i]
      BY <1>2 DEF Joins
    <3> QED
      BY <3>1, <3>2
  <2> QED
    BY <1>1, <1>2, <2>2, <2>4, <2>5 DEF t
<1> QED
  BY <1>3, <1>4

-----------------------------------------------------------------------------
(* Cutting.                                                                *)

LEMMA Cut ==
  ASSUME NEW S, NEW t \in Seq(S), NEW m \in 0..Len(t), NEW n \in m..Len(t)
  PROVE  /\ SubSeq(t, m + 1, n) \in Seq(S) /\ Len(SubSeq(t, m + 1, n)) = n - m
         /\ \A i \in 1..n - m : SubSeq(t, m + 1, n)[i] = t[i + m]
<1>1. \A i \in m+1..n : t[i] \in S
  OBVIOUS
<1> QED
  BY <1>1, SubSeqProperties

\* Part of t joins s, and what is left of t follows: nothing has moved.
LEMMA CutJoins ==
  ASSUME NEW S, NEW s \in Seq(S), NEW t \in Seq(S),
         NEW m \in 0..Len(t), NEW n \in m..Len(t)
  PROVE  (s \o SubSeq(t, m + 1, n)) \o SubSeq(t, n + 1, Len(t))
           = s \o SubSeq(t, m + 1, Len(t))
<1>1. PICK u : u = SubSeq(t, m + 1, n)
  OBVIOUS
<1>2. PICK v : v = SubSeq(t, n + 1, Len(t))
  OBVIOUS
<1>3. u \in Seq(S) /\ v \in Seq(S)
  <2>1. n \in 0..Len(t) /\ Len(t) \in n..Len(t)
    OBVIOUS
  <2> QED
    BY <1>1, <1>2, <2>1, Cut
<1>4. u \o v = SubSeq(t, m + 1, Len(t))
  <2>1. m + 1 \in 1..Len(t)+1 /\ n \in (m + 1)-1..Len(t) /\ Len(t) \in n..Len(t)
    OBVIOUS
  <2> QED
    BY <1>1, <1>2, <2>1, ConcatAdjacentSubSeq
<1>5. (s \o u) \o v = s \o (u \o v)
  BY SMTT(30), <1>3, ConcatAssociative
<1> QED
  BY <1>1, <1>2, <1>4, <1>5

LEMMA Elements ==
  ASSUME NEW S, NEW s \in Seq(S)
  PROVE  /\ Len(s) \in Nat
         /\ \A i \in 1..Len(s) : s[i] \in S
         /\ s # << >> => Len(s) \in 1..Len(s) /\ s[Len(s)] \in S
  OBVIOUS

LEMMA OnePiece ==
  ASSUME NEW S, NEW s \in Seq(S), NEW k \in 1..Len(s)
  PROVE  SubSeq(s, k, k) = <<s[k]>>
<1>1. k \in k..Len(s) /\ s[k] \in S /\ k + 1 \in Int /\ k \in Int /\ k < k + 1
  BY Elements
<1>2. SubSeq(s, k, k) = <<s[k]>> \o SubSeq(s, k + 1, k)
  BY <1>1, SubSeqRecursiveFirst
<1>3. SubSeq(s, k + 1, k) = << >>
  BY <1>1, SubSeqEmpty
<1>4. <<s[k]>> \o << >> = <<s[k]>>
  BY <1>1, ConcatEmptySeq
<1> QED
  BY <1>2, <1>3, <1>4

LEMMA PrefixItself ==
  ASSUME NEW S, NEW s \in Seq(S)
  PROVE  IsPrefix(s, s)
  BY DEF IsPrefix

LEMMA PrefixJoined ==
  ASSUME NEW S, NEW s \in Seq(S), NEW t \in Seq(S)
  PROVE  IsPrefix(s, s \o t)
<1>1. SubSeq(s \o t, 1, Len(s)) = SubSeq(s, 1, Len(s))
  <2>1. CASE s = << >>
    BY <2>1
  <2>2. CASE s # << >>
    <3>1. 1 \in 1..Len(s) /\ Len(s) \in 1..Len(s)
      BY <2>2
    <3> QED
      BY <3>1, SubSeqOfConcat1
  <2> QED
    BY <2>1, <2>2
<1>2. Len(s) <= Len(s \o t)
  OBVIOUS
<1> QED
  BY <1>1, <1>2 DEF IsPrefix

-----------------------------------------------------------------------------
(* The elements of a sequence.                                             *)

LEMMA JoinedSet ==
  ASSUME NEW S, NEW s \in Seq(S), NEW t \in Seq(S)
  PROVE  ToSet(s \o t) = ToSet(s) \cup ToSet(t)
<1>1. PICK u : u = s \o t
  OBVIOUS
<1>2. /\ u \in Seq(S) /\ Len(u) = Len(s) + Len(t) /\ Len(s) \in Nat /\ Len(t) \in Nat
      /\ \A i \in 1..Len(s) + Len(t) : u[i] = IF i <= Len(s) THEN s[i] ELSE t[i - Len(s)]
  BY <1>1, ConcatProperties, Elements
<1>3. DOMAIN u = 1..Len(s) + Len(t) /\ DOMAIN s = 1..Len(s) /\ DOMAIN t = 1..Len(t)
  BY <1>2
<1>4. \A x \in ToSet(u) : x \in ToSet(s) \cup ToSet(t)
  <2> SUFFICES ASSUME NEW i \in 1..Len(s) + Len(t) PROVE u[i] \in ToSet(s) \cup ToSet(t)
    BY <1>3 DEF ToSet
  <2>1. CASE i <= Len(s)
    <3>1. i \in 1..Len(s) /\ u[i] = s[i]
      BY <1>2, <2>1
    <3> QED
      BY <1>3, <3>1 DEF ToSet
  <2>2. CASE ~(i <= Len(s))
    <3>1. i - Len(s) \in 1..Len(t) /\ u[i] = t[i - Len(s)]
      BY <1>2, <2>2
    <3> QED
      BY <1>3, <3>1 DEF ToSet
  <2> QED
    BY <2>1, <2>2
<1>5. \A i \in 1..Len(s) : s[i] \in ToSet(u)
  <2> SUFFICES ASSUME NEW i \in 1..Len(s) PROVE s[i] \in ToSet(u)
    OBVIOUS
  <2>1. i \in 1..Len(s) + Len(t) /\ u[i] = s[i]
    BY <1>2
  <2> QED
    BY <1>3, <2>1 DEF ToSet
<1>6. \A i \in 1..Len(t) : t[i] \in ToSet(u)
  <2> SUFFICES ASSUME NEW i \in 1..Len(t) PROVE t[i] \in ToSet(u)
    OBVIOUS
  <2>1. i + Len(s) \in 1..Len(s) + Len(t) /\ ~(i + Len(s) <= Len(s)) /\ i + Len(s) - Len(s) = i
    BY <1>2
  <2>2. u[i + Len(s)] = t[i]
    BY <1>2, <2>1
  <2> QED
    BY <1>3, <2>1, <2>2 DEF ToSet
<1>7. \A x \in ToSet(s) \cup ToSet(t) : x \in ToSet(u)
  BY <1>3, <1>5, <1>6 DEF ToSet
<1> QED
  BY <1>1, <1>4, <1>7

LEMMA AppendedSet ==
  ASSUME NEW S, NEW s \in Seq(S), NEW e \in S
  PROVE  ToSet(Append(s, e)) = ToSet(s) \cup {e}
<1>1. PICK t : t = <<e>>
  OBVIOUS
<1>2. t \in Seq(S) /\ ToSet(t) = {e}
  BY <1>1 DEF ToSet
<1>3. Append(s, e) = s \o t
  BY <1>1, AppendIsConcat
<1>4. ToSet(s \o t) = ToSet(s) \cup ToSet(t)
  BY <1>2, JoinedSet
<1> QED
  BY <1>2, <1>3, <1>4

LEMMA JoinedAppend ==
  ASSUME NEW S, NEW s \in Seq(S), NEW t \in Seq(S), NEW e \in S
  PROVE  s \o Append(t, e) = Append(s \o t, e)
<1>1. <<e>> \in Seq(S) /\ s \o t \in Seq(S)
  OBVIOUS
<1>2. Append(t, e) = t \o <<e>> /\ Append(s \o t, e) = (s \o t) \o <<e>>
  BY <1>1, AppendIsConcat
<1> QED
  BY <1>1, <1>2, ConcatAssociative

LEMMA CutSet ==
  ASSUME NEW S, NEW s \in Seq(S), NEW m \in 0..Len(s), NEW n \in m..Len(s)
  PROVE  ToSet(SubSeq(s, m + 1, n)) \subseteq ToSet(s)
<1>1. PICK u : u = SubSeq(s, m + 1, n)
  OBVIOUS
<1>2. u \in Seq(S) /\ Len(u) = n - m /\ \A i \in 1..n - m : u[i] = s[i + m]
  BY <1>1, Cut
<1>3. \A i \in 1..n - m : i + m \in 1..Len(s)
  OBVIOUS
<1>4. DOMAIN u = 1..n - m /\ DOMAIN s = 1..Len(s)
  BY <1>2
<1>5. \A x \in ToSet(u) : x \in ToSet(s)
  BY <1>2, <1>3, <1>4 DEF ToSet
<1> QED
  BY <1>1, <1>5

-----------------------------------------------------------------------------
(* Induction over sequences, for a set of them.                            *)

\* A set that has the empty sequence, and with a sequence all that are one
\* longer, has them all.
LEMMA AppendInduction ==
  ASSUME NEW S, NEW T \in SUBSET Seq(S), << >> \in T,
         \A s \in T, e \in S : Append(s, e) \in T
  PROVE  T = Seq(S)
<1> DEFINE L == {Len(s) : s \in Seq(S) \ T}
<1>1. SUFFICES ASSUME Seq(S) \ T # {} PROVE FALSE
  OBVIOUS
<1>2. L \in SUBSET Nat /\ L # {}
  <2>1. \A s \in Seq(S) : Len(s) \in Nat
    OBVIOUS
  <2>2. PICK s \in Seq(S) \ T : TRUE
    BY <1>1
  <2>3. Len(s) \in L
    BY <2>2
  <2> QED
    BY <2>1, <2>3
<1>3. PICK m \in L : \A k \in L : m <= k
  BY <1>2, Least
<1>4. PICK s \in Seq(S) : s \notin T /\ Len(s) = m
  BY <1>3
<1>5. s # << >>
  BY <1>4
<1>6. PICK r \in Seq(S), e \in S : s = Append(r, e)
  BY <1>5, SequenceEmptyOrAppend
<1>7. Len(r) = m - 1 /\ m \in Nat
  <2>1. Len(s) = Len(r) + 1 /\ Len(r) \in Nat
    BY <1>6, AppendProperties
  <2> QED
    BY <1>4, <2>1
<1>8. r \in T
  <2>1. r \notin T => m - 1 \in L
    BY <1>7
  <2>2. m - 1 \in L => m <= m - 1
    BY <1>3
  <2> QED
    BY <1>7, <2>1, <2>2
<1> QED
  BY <1>4, <1>6, <1>8

-----------------------------------------------------------------------------
(* What FlattenSeq gives.                                                  *)

LEMMA FlattenType ==
  ASSUME NEW S, NEW s \in Seq(Seq(S))
  PROVE  FlattenSeq(s) \in Seq(S)
<1> DEFINE T == {t \in Seq(Seq(S)) : FlattenSeq(t) \in Seq(S)}
<1>1. << >> \in Seq(Seq(S)) /\ << >> \in Seq(S)
  OBVIOUS
<1>2. << >> \in T
  BY <1>1, FlattenEmpty
<1>3. ASSUME NEW t \in T, NEW e \in Seq(S) PROVE Append(t, e) \in T
  <2>1. FlattenSeq(Append(t, e)) = FlattenSeq(t) \o e
    BY FlattenAppend
  <2>2. Append(t, e) \in Seq(Seq(S))
    BY AppendProperties
  <2>3. FlattenSeq(t) \o e \in Seq(S)
    OBVIOUS
  <2> QED
    BY <2>1, <2>2, <2>3
<1> HIDE DEF T
<1>4. T = Seq(Seq(S))
  <2>1. T \in SUBSET Seq(Seq(S))
    BY DEF T
  <2> QED
    BY <1>2, <1>3, <2>1, AppendInduction
<1> QED
  BY <1>4 DEF T

LEMMA FlattenElements ==
  ASSUME NEW S, NEW s \in Seq(Seq(S))
  PROVE  ToSet(FlattenSeq(s)) = UNION {ToSet(s[i]) : i \in 1..Len(s)}
<1> DEFINE T == {t \in Seq(Seq(S)) :
                   ToSet(FlattenSeq(t)) = UNION {ToSet(t[i]) : i \in 1..Len(t)}}
<1>1. << >> \in T
  <2>1. ToSet(<< >>) = {} /\ << >> \in Seq(Seq(S)) /\ 1..Len(<< >>) = {}
    BY DEF ToSet
  <2> QED
    BY <2>1, FlattenEmpty
<1>2. ASSUME NEW t \in T, NEW e \in Seq(S) PROVE Append(t, e) \in T
  <2> PICK n : n = Len(t)
    OBVIOUS
  <2> PICK u : u = Append(t, e)
    OBVIOUS
  <2>1. /\ u \in Seq(Seq(S)) /\ Len(u) = n + 1 /\ u[n + 1] = e /\ n \in Nat
        /\ \A i \in 1..n : u[i] = t[i]
    BY AppendProperties
  <2>2. ToSet(FlattenSeq(u)) = ToSet(FlattenSeq(t)) \cup ToSet(e)
    <3>1. FlattenSeq(u) = FlattenSeq(t) \o e
      BY FlattenAppend
    <3>2. FlattenSeq(t) \in Seq(S)
      BY FlattenType
    <3> QED
      BY <3>1, <3>2, JoinedSet
  <2>3. 1..n + 1 = 1..n \cup {n + 1}
    BY <2>1
  <2>4. UNION {ToSet(u[i]) : i \in 1..n + 1} = (UNION {ToSet(t[i]) : i \in 1..n}) \cup ToSet(e)
    BY <2>1, <2>3
  <2>5. ToSet(FlattenSeq(t)) = UNION {ToSet(t[i]) : i \in 1..n}
    OBVIOUS
  <2>6. ToSet(FlattenSeq(u)) = UNION {ToSet(u[i]) : i \in 1..Len(u)}
    BY <2>1, <2>2, <2>4, <2>5, Zenon
  <2> QED
    BY <2>1, <2>6, Zenon
<1> HIDE DEF T
<1>3. T = Seq(Seq(S))
  <2>1. T \in SUBSET Seq(Seq(S))
    BY DEF T
  <2> QED
    BY <1>1, <1>2, <2>1, AppendInduction
<1> QED
  BY <1>3 DEF T

-----------------------------------------------------------------------------
(* A queue in which nothing waits twice.                                   *)

LEMMA TailQueue ==
  ASSUME NEW S, NEW s \in Seq(S), s # << >>, IsInjective(s)
  PROVE  /\ Head(s) \in S /\ Head(s) \in ToSet(s) /\ Head(s) \notin ToSet(Tail(s))
         /\ Tail(s) \in Seq(S) /\ IsInjective(Tail(s)) /\ ToSet(Tail(s)) \subseteq ToSet(s)
<1>1. PICK t : t = Tail(s)
  OBVIOUS
<1>2. PICK n : n = Len(s)
  OBVIOUS
<1>3. /\ n \in Nat \ {0} /\ t \in Seq(S) /\ Len(t) = n - 1
      /\ \A i \in 1..n - 1 : t[i] = s[i + 1]
      /\ Head(s) = s[1] /\ s[1] \in S
  BY <1>1, <1>2
<1>4. DOMAIN s = 1..n /\ DOMAIN t = 1..n - 1
  BY <1>2, <1>3
<1>5. \A i \in 1..n - 1 : i + 1 \in 1..n /\ i + 1 # 1
  BY <1>3
<1>6. 1 \in 1..n
  BY <1>3
<1>7. s[1] \in ToSet(s) /\ s[1] \notin ToSet(t)
  BY <1>3, <1>4, <1>5, <1>6 DEF ToSet, IsInjective
<1>8. ToSet(t) \subseteq ToSet(s)
  BY SMTT(30), <1>3, <1>4, <1>5 DEF ToSet
<1>9. IsInjective(t)
  <2> SUFFICES ASSUME NEW i \in 1..n - 1, NEW j \in 1..n - 1, t[i] = t[j] PROVE i = j
    BY <1>4 DEF IsInjective
  <2>1. i + 1 \in 1..n /\ j + 1 \in 1..n /\ s[i + 1] = s[j + 1]
    BY <1>3, <1>5
  <2>2. i + 1 = j + 1
    BY <1>4, <2>1 DEF IsInjective
  <2> QED
    BY <1>3, <2>2
<1> QED
  BY <1>1, <1>3, <1>7, <1>8, <1>9

LEMMA QueueHead ==
  ASSUME NEW S, NEW s \in Seq(S), s # << >>, IsInjective(s)
  PROVE  /\ ToSet(s) = ToSet(Tail(s)) \cup {Head(s)}
         /\ Head(s) \notin ToSet(Tail(s))
<1>1. PICK t : t = Tail(s)
  OBVIOUS
<1>2. PICK n : n = Len(s)
  OBVIOUS
<1>3. /\ n \in Nat \ {0} /\ Len(t) = n - 1 /\ t \in Seq(S)
      /\ \A i \in 1..n - 1 : t[i] = s[i + 1]
      /\ Head(s) = s[1]
  BY <1>1, <1>2
<1>4. DOMAIN s = 1..n /\ DOMAIN t = 1..n - 1
  BY <1>2, <1>3
<1>5. \A i \in 1..n : i = 1 \/ \E j \in 1..n - 1 : i = j + 1
  <2>1. \A i \in 1..n : i = 1 \/ (i - 1 \in 1..n - 1 /\ i = (i - 1) + 1)
    BY <1>3
  <2> QED
    BY <2>1
<1>6. ASSUME NEW i \in 1..n PROVE s[i] \in ToSet(t) \cup {s[1]}
  <2>1. CASE i = 1
    BY <2>1
  <2>2. CASE \E j \in 1..n - 1 : i = j + 1
    BY ZenonT(40), <1>3, <1>4, <2>2 DEF ToSet
  <2> QED
    BY <1>5, <2>1, <2>2
<1>7. /\ Head(s) \in ToSet(s) /\ Head(s) \notin ToSet(t) /\ ToSet(t) \subseteq ToSet(s)
  BY <1>1, TailQueue
<1>8. ToSet(s) \subseteq ToSet(t) \cup {s[1]}
  BY <1>4, <1>6 DEF ToSet
<1> QED
  BY <1>1, <1>3, <1>7, <1>8

LEMMA AppendQueue ==
  ASSUME NEW S, NEW s \in Seq(S), NEW e \in S, IsInjective(s), e \notin ToSet(s)
  PROVE  /\ Append(s, e) \in Seq(S) /\ IsInjective(Append(s, e))
         /\ ToSet(Append(s, e)) = ToSet(s) \cup {e}
<1>1. PICK t : t = Append(s, e)
  OBVIOUS
<1>2. PICK n : n = Len(s)
  OBVIOUS
<1>3. /\ n \in Nat /\ t \in Seq(S) /\ Len(t) = n + 1 /\ t[n + 1] = e
      /\ \A i \in 1..n : t[i] = s[i]
  BY <1>1, <1>2, AppendProperties
<1>4. DOMAIN s = 1..n /\ DOMAIN t = 1..n + 1
  BY <1>2, <1>3
<1>5. \A i \in 1..n : s[i] # e
  BY <1>4 DEF ToSet
<1>6. \A i \in 1..n + 1 : i \in 1..n \/ i = n + 1
  BY <1>3
<1>7. IsInjective(t)
  BY <1>3, <1>4, <1>5, <1>6 DEF IsInjective
<1>8. ToSet(t) = ToSet(s) \cup {e}
  BY <1>1, AppendedSet
<1> QED
  BY <1>1, <1>3, <1>7, <1>8
=============================================================================

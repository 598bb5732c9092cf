----------------------------- MODULE RelayProofs -----------------------------
(***************************************************************************)
(* What holds of the audio relay for any number of readers, processes and  *)
(* pieces, any block of stdio, and, where not said, any stray pid.         *)
(***************************************************************************)
EXTENDS RelayClient, SequenceLemmas, FiniteSetTheorems

-----------------------------------------------------------------------------
(* The audio of a sequence.                                                *)

\* f holds the audio of the first 0, 1, .. of the pieces of s.
Filters(f, s) ==
  f = [i \in 0..Len(s) |->
         IF i = 0 THEN << >>
         ELSE IF s[i] > 0 THEN Append(f[i - 1], s[i]) ELSE f[i - 1]]

LEMMA FiltersMore ==
  ASSUME NEW s \in Seq(Int), NEW e \in Int, NEW f, Filters(f, s)
  PROVE  \E g : Filters(g, Append(s, e))
<1> PICK n : n = Len(s)
  OBVIOUS
<1> PICK t : t = Append(s, e)
  OBVIOUS
<1>1. /\ n \in Nat /\ Len(t) = n + 1 /\ t[n + 1] = e
      /\ \A i \in 1..n : t[i] = s[i]
  BY AppendProperties
<1> DEFINE g == [i \in 0..n + 1 |->
                   IF i \in 0..n THEN f[i]
                   ELSE IF e > 0 THEN Append(f[n], e) ELSE f[n]]
<1>2. ASSUME NEW i \in 0..n + 1
      PROVE  g[i] = IF i = 0 THEN << >>
                    ELSE IF t[i] > 0 THEN Append(g[i - 1], t[i]) ELSE g[i - 1]
  <2>1. CASE i = 0
    BY <1>1, <2>1 DEF Filters
  <2>2. CASE i \in 1..n
    <3>1. i \in 0..n /\ i - 1 \in 0..n /\ i # 0 /\ i - 1 \in 0..n + 1
      BY <1>1, <2>2
    <3>2. f[i] = IF s[i] > 0 THEN Append(f[i - 1], s[i]) ELSE f[i - 1]
      BY <3>1 DEF Filters
    <3>3. g[i] = f[i] /\ g[i - 1] = f[i - 1] /\ t[i] = s[i]
      BY <1>1, <2>2, <3>1
    <3> QED
      BY <3>1, <3>2, <3>3
  <2>3. CASE i = n + 1
    <3>1. i \notin 0..n /\ i - 1 = n /\ n \in 0..n + 1 /\ n \in 0..n /\ i # 0
      BY <1>1, <2>3
    <3>2. g[i - 1] = f[n]
      BY <3>1
    <3>3. g[i] = IF e > 0 THEN Append(f[n], e) ELSE f[n]
      BY <3>1
    <3> QED
      BY <1>1, <2>3, <3>1, <3>2, <3>3
  <2> QED
    BY <1>1, <2>1, <2>2, <2>3
<1>3. g = [i \in 0..n + 1 |-> g[i]]
  OBVIOUS
<1> HIDE DEF g
<1>4. g = [i \in 0..n + 1 |->
             IF i = 0 THEN << >>
             ELSE IF t[i] > 0 THEN Append(g[i - 1], t[i]) ELSE g[i - 1]]
  BY <1>2, <1>3, Zenon
<1> QED
  BY <1>1, <1>4 DEF Filters

LEMMA FiltersExist ==
  ASSUME NEW s \in Seq(Int)
  PROVE  \E f : Filters(f, s)
<1> DEFINE T == {t \in Seq(Int) : \E f : Filters(f, t)}
<1>1. << >> \in T
  <2>1. << >> \in Seq(Int) /\ 0..Len(<< >>) = {0}
    OBVIOUS
  <2>2. Filters([i \in {0} |-> << >>], << >>)
    BY <2>1 DEF Filters
  <2> QED
    BY <2>1, <2>2
<1>2. ASSUME NEW t \in T, NEW e \in Int PROVE Append(t, e) \in T
  BY FiltersMore, AppendProperties
<1> HIDE DEF T
<1>3. T = Seq(Int)
  <2>1. T \in SUBSET Seq(Int)
    BY DEF T
  <2> QED
    BY <1>1, <1>2, <2>1, AppendInduction
<1> QED
  BY <1>3 DEF T

LEMMA FiltersAgree ==
  ASSUME NEW s \in Seq(Int), NEW e \in Int, NEW f, NEW g,
         Filters(f, s), Filters(g, Append(s, e))
  PROVE  \A i \in 0..Len(s) : f[i] = g[i]
<1> PICK n : n = Len(s)
  OBVIOUS
<1> PICK t : t = Append(s, e)
  OBVIOUS
<1>1. n \in Nat /\ Len(t) = n + 1 /\ \A i \in 1..n : t[i] = s[i]
  BY AppendProperties
<1> DEFINE T == {i \in 0..n : f[i] # g[i]}
<1>2. SUFFICES ASSUME T # {} PROVE FALSE
  OBVIOUS
<1>3. T \in SUBSET Nat
  BY <1>1
<1>4. PICK i \in T : \A j \in T : i <= j
  BY <1>2, <1>3, Least, Zenon
<1>5. i \in 0..n /\ i \in 0..n + 1 /\ f[i] # g[i] /\ (i # 0 => i \in 1..n)
  BY <1>1, <1>4
<1>6. f[i] = IF i = 0 THEN << >>
             ELSE IF s[i] > 0 THEN Append(f[i - 1], s[i]) ELSE f[i - 1]
  BY <1>5 DEF Filters
<1>7. g[i] = IF i = 0 THEN << >>
             ELSE IF t[i] > 0 THEN Append(g[i - 1], t[i]) ELSE g[i - 1]
  BY <1>1, <1>5 DEF Filters
<1>8. i # 0 => i - 1 \in 0..n /\ ~(i <= i - 1)
  BY <1>1, <1>5
<1>9. i # 0 => f[i - 1] = g[i - 1]
  BY <1>4, <1>8
<1> QED
  BY <1>1, <1>5, <1>6, <1>7, <1>9

LEMMA AudioFilters ==
  ASSUME NEW s \in Seq(Int)
  PROVE  \E f : Filters(f, s) /\ Audio(s) = f[Len(s)]
<1> DEFINE f == CHOOSE f : Filters(f, s)
<1>1. Filters(f, s)
  BY FiltersExist, Zenon
<1>2. Audio(s) = f[Len(s)]
  BY SMT DEF Audio, Filters
<1> HIDE DEF f
<1> QED
  BY <1>1, <1>2

LEMMA AudioEmpty == Audio(<< >>) = << >>
<1>1. << >> \in Seq(Int) /\ Len(<< >>) = 0 /\ 0 \in 0..0
  OBVIOUS
<1>2. PICK f : Filters(f, << >>) /\ Audio(<< >>) = f[0]
  BY <1>1, AudioFilters
<1> QED
  BY <1>1, <1>2 DEF Filters

LEMMA AudioAppend ==
  ASSUME NEW s \in Seq(Int), NEW e \in Int
  PROVE  Audio(Append(s, e)) = IF e > 0 THEN Append(Audio(s), e) ELSE Audio(s)
<1> PICK n : n = Len(s)
  OBVIOUS
<1> PICK t : t = Append(s, e)
  OBVIOUS
<1>1. n \in Nat /\ t \in Seq(Int) /\ Len(t) = n + 1 /\ t[n + 1] = e
  BY AppendProperties
<1>2. PICK f : Filters(f, s) /\ Audio(s) = f[n]
  BY AudioFilters
<1>3. PICK g : Filters(g, t) /\ Audio(t) = g[n + 1]
  BY <1>1, AudioFilters
<1>4. f[n] = g[n]
  BY <1>1, <1>2, <1>3, FiltersAgree
<1> PICK k : k = n + 1
  OBVIOUS
<1>5. k \in 0..k /\ k # 0 /\ k - 1 = n /\ Len(t) = k
  BY <1>1
<1>6. g[k] = IF t[k] > 0 THEN Append(g[k - 1], t[k]) ELSE g[k - 1]
  BY <1>3, <1>5 DEF Filters
<1> QED
  BY <1>1, <1>2, <1>3, <1>4, <1>5, <1>6

LEMMA AudioType ==
  ASSUME NEW s \in Seq(Int)
  PROVE  Audio(s) \in Seq(Int)
<1> DEFINE T == {t \in Seq(Int) : Audio(t) \in Seq(Int)}
<1>1. << >> \in T
  <2>1. << >> \in Seq(Int)
    OBVIOUS
  <2> QED
    BY <2>1, AudioEmpty
<1>2. ASSUME NEW t \in T, NEW e \in Int PROVE Append(t, e) \in T
  <2>1. Append(t, e) \in Seq(Int) /\ Audio(t) \in Seq(Int) /\ Append(Audio(t), e) \in Seq(Int)
    OBVIOUS
  <2> QED
    BY <2>1, AudioAppend
<1> HIDE DEF T
<1>3. T = Seq(Int)
  <2>1. T \in SUBSET Seq(Int)
    BY DEF T
  <2> QED
    BY <1>1, <1>2, <2>1, AppendInduction
<1> QED
  BY <1>3 DEF T

\* The audio pieces of s.
AudioIn(s) == {x \in ToSet(s) : x > 0}

LEMMA AudioSet ==
  ASSUME NEW s \in Seq(Int)
  PROVE  ToSet(Audio(s)) = AudioIn(s)
<1> DEFINE T == {t \in Seq(Int) : ToSet(Audio(t)) = AudioIn(t)}
<1>1. << >> \in T
  <2>1. ToSet(<< >>) = {} /\ << >> \in Seq(Int)
    BY DEF ToSet
  <2> QED
    BY <2>1, AudioEmpty DEF AudioIn
<1>2. ASSUME NEW t \in T, NEW e \in Int PROVE Append(t, e) \in T
  <2>1. Append(t, e) \in Seq(Int) /\ Audio(t) \in Seq(Int) /\ ToSet(Audio(t)) = AudioIn(t)
    BY AudioType, AppendProperties
  <2>2. ToSet(Append(t, e)) = ToSet(t) \cup {e}
    BY AppendedSet
  <2>3. ToSet(Append(Audio(t), e)) = ToSet(Audio(t)) \cup {e}
    BY SMTT(30), <2>1, AppendedSet
  <2>4. ToSet(Audio(Append(t, e))) = AudioIn(Append(t, e))
    <3>1. Audio(Append(t, e)) = IF e > 0 THEN Append(Audio(t), e) ELSE Audio(t)
      BY AudioAppend
    <3>2. AudioIn(Append(t, e)) = IF e > 0 THEN AudioIn(t) \cup {e} ELSE AudioIn(t)
      BY <2>2 DEF AudioIn
    <3> QED
      BY <2>1, <2>3, <3>1, <3>2
  <2> QED
    BY <2>1, <2>4
<1> HIDE DEF T
<1>3. T = Seq(Int)
  <2>1. T \in SUBSET Seq(Int)
    BY DEF T
  <2> QED
    BY <1>1, <1>2, <2>1, AppendInduction
<1> QED
  BY <1>3 DEF T

LEMMA AudioJoined ==
  ASSUME NEW s \in Seq(Int), NEW u \in Seq(Int)
  PROVE  Audio(s \o u) = Audio(s) \o Audio(u)
<1> DEFINE T == {t \in Seq(Int) : Audio(s \o t) = Audio(s) \o Audio(t)}
<1>0. Audio(s) \in Seq(Int)
  BY AudioType
<1>1. << >> \in T
  <2>1. << >> \in Seq(Int) /\ s \o << >> = s /\ Audio(s) \o << >> = Audio(s)
    BY <1>0, ConcatEmptySeq
  <2> QED
    BY <2>1, AudioEmpty
<1>2. ASSUME NEW t \in T, NEW e \in Int PROVE Append(t, e) \in T
  <2>1. /\ Append(t, e) \in Seq(Int) /\ Audio(t) \in Seq(Int) /\ s \o t \in Seq(Int)
        /\ Audio(s \o t) = Audio(s) \o Audio(t)
    BY AudioType, AppendProperties, ConcatProperties
  <2>2. s \o Append(t, e) = Append(s \o t, e)
    BY JoinedAppend
  <2>3. Audio(s) \o Append(Audio(t), e) = Append(Audio(s) \o Audio(t), e)
    BY SMTT(30), <1>0, <2>1, JoinedAppend
  <2>4. Audio(s \o Append(t, e)) = Audio(s) \o Audio(Append(t, e))
    BY <2>1, <2>2, <2>3, AudioAppend
  <2> QED
    BY <2>1, <2>4
<1> HIDE DEF T
<1>3. T = Seq(Int)
  <2>1. T \in SUBSET Seq(Int)
    BY DEF T
  <2> QED
    BY <1>1, <1>2, <2>1, AppendInduction
<1> QED
  BY <1>3 DEF T

LEMMA AudioNone ==
  ASSUME NEW s \in Seq(Int), AudioIn(s) = {}
  PROVE  Audio(s) = << >>
<1>1. Audio(s) \in Seq(Int) /\ ToSet(Audio(s)) = {}
  BY AudioType, AudioSet
<1>2. ASSUME NEW t \in Seq(Int), t # << >> PROVE ToSet(t) # {}
  <2>1. Len(t) \in 1..Len(t) /\ DOMAIN t = 1..Len(t)
    BY <1>2, Elements
  <2> QED
    BY <2>1 DEF ToSet
<1> QED
  BY <1>1, <1>2

-----------------------------------------------------------------------------
(* The order of the audio.                                                 *)

Ascending(s) ==
  \A i, j \in 1..Len(s) : i < j /\ s[i] > 0 /\ s[j] > 0 => s[i] < s[j]

Below(S, T) == \A x \in S, y \in T : x < y

LEMMA AudioInInt == \A s \in Seq(Int) : AudioIn(s) \subseteq Nat
  BY DEF AudioIn, ToSet

LEMMA AudioInEmpty == AudioIn(<< >>) = {} /\ Ascending(<< >>)
  BY DEF AudioIn, ToSet, Ascending

LEMMA AudioInAt ==
  ASSUME NEW s \in Seq(Int), NEW i \in 1..Len(s), s[i] > 0
  PROVE  s[i] \in AudioIn(s)
  BY DEF AudioIn, ToSet

LEMMA AudioInJoined ==
  ASSUME NEW s \in Seq(Int), NEW t \in Seq(Int)
  PROVE  AudioIn(s \o t) = AudioIn(s) \cup AudioIn(t)
<1>1. ToSet(s \o t) = ToSet(s) \cup ToSet(t)
  BY JoinedSet
<1> QED
  BY <1>1 DEF AudioIn

LEMMA AscendingJoined ==
  ASSUME NEW s \in Seq(Int), NEW t \in Seq(Int),
         Ascending(s), Ascending(t), Below(AudioIn(s), AudioIn(t))
  PROVE  Ascending(s \o t)
<1> PICK u : u = s \o t
  OBVIOUS
<1> PICK m : m = Len(s)
  OBVIOUS
<1>1. /\ u \in Seq(Int) /\ Len(u) = m + Len(t) /\ m \in Nat /\ Len(t) \in Nat
      /\ \A i \in 1..m + Len(t) : u[i] = IF i <= m THEN s[i] ELSE t[i - m]
  BY ConcatProperties, Elements
<1>2. SUFFICES ASSUME NEW i \in 1..Len(u), NEW j \in 1..Len(u),
                      i < j, u[i] > 0, u[j] > 0
               PROVE  u[i] < u[j]
  BY DEF Ascending
<1>3. CASE j <= m
  <2>1. i \in 1..m /\ j \in 1..m /\ u[i] = s[i] /\ u[j] = s[j]
    BY <1>1, <1>2, <1>3
  <2> QED
    BY <1>2, <2>1 DEF Ascending
<1>4. CASE i <= m /\ ~(j <= m)
  <2> PICK l : l = j - m
    OBVIOUS
  <2>1. i \in 1..m /\ l \in 1..Len(t) /\ u[i] = s[i] /\ u[j] = t[l]
    BY <1>1, <1>4
  <2>2. u[i] \in AudioIn(s) /\ u[j] \in AudioIn(t)
    BY <1>2, <2>1, AudioInAt
  <2> QED
    BY <2>2 DEF Below
<1>5. CASE ~(i <= m)
  <2> PICK k : k = i - m
    OBVIOUS
  <2> PICK l : l = j - m
    OBVIOUS
  <2>1. k \in 1..Len(t) /\ l \in 1..Len(t) /\ k < l
    BY <1>1, <1>2, <1>5
  <2>2. u[i] = t[k] /\ u[j] = t[l]
    BY SMTT(30), <1>1, <1>2, <1>5
  <2> QED
    BY <1>2, <2>1, <2>2 DEF Ascending
<1> QED
  BY <1>1, <1>3, <1>4, <1>5

\* A stretch cut in two.
LEMMA AscendingCut ==
  ASSUME NEW s \in Seq(Int), Ascending(s), NEW n \in 0..Len(s), NEW u, NEW v,
         u = SubSeq(s, 1, n), v = SubSeq(s, n + 1, Len(s))
  PROVE  /\ u \in Seq(Int) /\ v \in Seq(Int) /\ s = u \o v /\ Len(u) = n
         /\ Ascending(u) /\ Ascending(v) /\ Below(AudioIn(u), AudioIn(v))
         /\ AudioIn(s) = AudioIn(u) \cup AudioIn(v)
<1>1. 0 \in 0..Len(s) /\ Len(s) \in n..Len(s) /\ 0 + 1 = 1 /\ Len(s) \in Nat /\ n - 0 = n
  OBVIOUS
<1>2. /\ u \in Seq(Int) /\ Len(u) = n /\ \A i \in 1..n - 0 : u[i] = s[i + 0]
      /\ v \in Seq(Int) /\ Len(v) = Len(s) - n /\ \A i \in 1..Len(s) - n : v[i] = s[i + n]
  BY <1>1, Cut
<1>3. \A i \in 1..Len(u) : i \in 1..Len(s) /\ u[i] = s[i] /\ i <= n
  BY <1>2
<1>4. \A i \in 1..Len(v) : i + n \in 1..Len(s) /\ v[i] = s[i + n] /\ n < i + n
  BY <1>2
<1>5. s = u \o v
  <2>1. 1 \in 1..Len(s) + 1 /\ n \in 1 - 1..Len(s) /\ Len(s) \in n..Len(s)
    BY <1>1
  <2>2. SubSeq(s, 1, n) \o SubSeq(s, n + 1, Len(s)) = SubSeq(s, 1, Len(s))
    BY <2>1, ConcatAdjacentSubSeq
  <2> QED
    BY <2>2, SubSeqFull
<1>6. Ascending(u)
  BY <1>3 DEF Ascending
<1>7. Ascending(v)
  <2> SUFFICES ASSUME NEW i \in 1..Len(v), NEW j \in 1..Len(v), i < j, v[i] > 0, v[j] > 0
               PROVE  v[i] < v[j]
    BY DEF Ascending
  <2>1. i + n \in 1..Len(s) /\ j + n \in 1..Len(s) /\ i + n < j + n
    BY <1>4
  <2> QED
    BY <1>4, <2>1 DEF Ascending
<1>8. Below(AudioIn(u), AudioIn(v))
  <2>1. DOMAIN u = 1..Len(u) /\ DOMAIN v = 1..Len(v)
    BY <1>2
  <2>2. ASSUME NEW x \in AudioIn(u), NEW y \in AudioIn(v)
        PROVE  x < y
    <3>1. PICK i \in 1..Len(u) : x = u[i] /\ x > 0
      BY <2>1, <2>2 DEF AudioIn, ToSet
    <3>2. PICK j \in 1..Len(v) : y = v[j] /\ y > 0
      BY <2>1, <2>2 DEF AudioIn, ToSet
    <3>3. i \in 1..Len(s) /\ x = s[i] /\ i <= n
      BY <1>3, <3>1
    <3>4. j + n \in 1..Len(s) /\ y = s[j + n] /\ n < j + n
      BY <1>4, <3>2
    <3>5. i < j + n
      BY <3>3, <3>4
    <3> QED
      BY <3>1, <3>2, <3>3, <3>4, <3>5 DEF Ascending
  <2> QED
    BY <2>2 DEF Below
<1>9. AudioIn(s) = AudioIn(u) \cup AudioIn(v)
  BY <1>2, <1>5, AudioInJoined
<1> QED
  BY <1>2, <1>5, <1>6, <1>7, <1>8, <1>9

\* A stretch without audio is in order.
LEMMA AscendingNone ==
  ASSUME NEW s \in Seq(Int), AudioIn(s) = {}
  PROVE  Ascending(s)
  BY AudioInAt DEF Ascending

\* What is left of an ascending stretch is strictly ascending.
LEMMA AudioAscends ==
  ASSUME NEW s \in Seq(Int), Ascending(s)
  PROVE  \A i, j \in 1..Len(Audio(s)) : i < j => Audio(s)[i] < Audio(s)[j]
<1> DEFINE Strictly(a) == \A i, j \in 1..Len(a) : i < j => a[i] < a[j]
<1> DEFINE T == {t \in Seq(Int) : Ascending(t) => Strictly(Audio(t))}
<1>1. << >> \in T
  <2>1. << >> \in Seq(Int) /\ Strictly(<< >>)
    OBVIOUS
  <2> QED
    BY <2>1, AudioEmpty
<1>2. ASSUME NEW t \in T, NEW e \in Int PROVE Append(t, e) \in T
  <2> PICK u : u = Append(t, e)
    OBVIOUS
  <2> PICK a : a = Audio(t)
    OBVIOUS
  <2> PICK n : n = Len(t)
    OBVIOUS
  <2>1. /\ u \in Seq(Int) /\ Len(u) = n + 1 /\ n \in Nat /\ u[n + 1] = e
        /\ \A i \in 1..n : u[i] = t[i]
    BY AppendProperties
  <2>2. a \in Seq(Int) /\ ToSet(a) = AudioIn(t) /\ (Ascending(t) => Strictly(a))
    BY AudioType, AudioSet
  <2>3. SUFFICES ASSUME Ascending(u) PROVE Strictly(Audio(u))
    BY <2>1
  <2>4. Ascending(t)
    <3>1. \A i \in 1..n : i \in 1..n + 1 /\ u[i] = t[i]
      BY <2>1
    <3> QED
      BY <2>1, <2>3, <3>1 DEF Ascending
  <2>5. CASE ~(e > 0)
    BY <2>2, <2>4, <2>5, AudioAppend
  <2>6. CASE e > 0
    <3> PICK b : b = Append(a, e)
      OBVIOUS
    <3>1. /\ Audio(u) = b /\ Len(b) = Len(a) + 1 /\ b[Len(a) + 1] = e
          /\ \A i \in 1..Len(a) : b[i] = a[i]
          /\ Len(a) \in Nat /\ DOMAIN a = 1..Len(a)
      BY SMTT(30), <2>2, <2>6, AudioAppend, AppendProperties
    <3>2. ASSUME NEW i \in 1..Len(a) PROVE a[i] < e
      <4>1. a[i] \in ToSet(a)
        BY <3>1 DEF ToSet
      <4>2. a[i] \in AudioIn(t) /\ DOMAIN t = 1..n
        BY <2>2, <4>1
      <4>3. PICK k \in 1..n : a[i] = t[k] /\ a[i] > 0
        BY <4>2 DEF AudioIn, ToSet
      <4>4. k \in 1..n + 1 /\ n + 1 \in 1..n + 1 /\ k < n + 1
        BY <2>1
      <4> QED
        BY <2>1, <2>3, <2>6, <4>3, <4>4 DEF Ascending
    <3>3. ASSUME NEW i \in 1..Len(b), NEW j \in 1..Len(b), i < j PROVE b[i] < b[j]
      <4>1. i \in 1..Len(a) /\ (j \in 1..Len(a) \/ j = Len(a) + 1)
        <5> PICK m : m = Len(a)
          OBVIOUS
        <5>1. m \in Nat /\ i \in 1..m + 1 /\ j \in 1..m + 1
          BY <3>1
        <5>2. \A k \in Nat : \A x, y \in 1..k + 1 :
                x < y => x \in 1..k /\ (y \in 1..k \/ y = k + 1)
          OBVIOUS
        <5> QED
          BY <3>3, <5>1, <5>2
      <4> QED
        BY <2>2, <2>4, <3>1, <3>2, <3>3, <4>1
    <3> QED
      BY <3>1, <3>3
  <2> QED
    BY <2>5, <2>6
<1> HIDE DEF T
<1>3. T = Seq(Int)
  <2>1. T \in SUBSET Seq(Int)
    BY DEF T
  <2> QED
    BY <1>1, <1>2, <2>1, AppendInduction
<1> QED
  BY <1>3 DEF T

-----------------------------------------------------------------------------
(* The types, and where the processes are.                                 *)

Serving == {"type", "answer", "post", "get"}

Process == [pc : {"none", "accept", "type", "answer", "post", "get", "quit", "dead"},
            conn : Clients \cup {NoClient}, type : {Post, Get, Unknown},
            used : BOOLEAN, out : Seq(Pieces), pos : Nat, eof : BOOLEAN]

Line == [end : {"new", "up", "shut", "reset"}, up : Seq(Pieces), down : Seq(Pieces)]

\* A process has a connection while it serves one, holds back output only of a
\* POST, and is inside the file only for a GET.
Sound(r) ==
  /\ r \in Process
  /\ IF r.pc \in Serving THEN r.conn \in Clients ELSE r.conn = NoClient
  /\ r.pc # "post" => r.out = << >>
  /\ r.pc # "get" => r.pos = 0

\* A client that has not connected is unknown to the server.
Fresh ==
  \A c \in Clients : wire[c].end = "new" =>
    /\ wire[c].up = << >> /\ wire[c].down = << >>
    /\ c \notin ToSet(queue)
    /\ \A p \in Procs : proc[p].conn # c

Base ==
  /\ TypeOK /\ Fresh
  /\ \A p \in Procs : Sound(proc[p]) /\ proc[p].pos <= Len(disk.data)

LEMMA PiecesInt ==
  /\ Pieces \subseteq Int /\ 1..MaxPieces \subseteq Pieces
  /\ {Junk, Post, Get, Unknown, Http, Header} \subseteq Pieces
  BY RelayAssumption DEF Pieces, Junk, Post, Get, Unknown, Http, Header

LEMMA PiecesSeq == \A s \in Seq(Pieces) : s \in Seq(Int)
<1> SUFFICES ASSUME NEW s \in Seq(Pieces) PROVE s \in Seq(Int)
  OBVIOUS
<1>1. \A i \in 1..Len(s) : s[i] \in Int
  BY PiecesInt, Elements
<1>2. Len(s) \in Nat /\ s = [i \in 1..Len(s) |-> s[i]]
  OBVIOUS
<1> QED
  BY <1>1, <1>2, IsASeq

LEMMA FreeSound ==
  ASSUME NEW label \in {"none", "accept", "quit", "dead"}
  PROVE  Sound([Free EXCEPT !.pc = label])
<1>1. << >> \in Seq(Pieces)
  OBVIOUS
<1> QED
  BY <1>1 DEF Sound, Process, Free, Serving

LEMMA InitBase == Init => Base
<1> SUFFICES ASSUME Init PROVE Base
  OBVIOUS
<1>0. /\ pid \in Strays /\ lenOk \in BOOLEAN /\ queue = << >>
      /\ wire = [c \in Clients |-> [end |-> "new", up |-> << >>, down |-> << >>]]
      /\ proc = [p \in Procs |-> IF p = Main THEN [Free EXCEPT !.pc = "accept"] ELSE Free]
      /\ disk = [made |-> FALSE, data |-> << >>]
      /\ cam = [end |-> "new", sent |-> -1, up |-> << >>, zeros |-> {}]
  BY DEF Init
<1>1. proc \in [Procs -> Process] /\ \A p \in Procs : Sound(proc[p]) /\ proc[p].pos = 0
  <2>1. << >> \in Seq(Pieces) /\ Free \in Process /\ Sound(Free) /\ Free.pos = 0
    BY DEF Free, Process, Sound, Serving
  <2>2. /\ [Free EXCEPT !.pc = "accept"] \in Process /\ [Free EXCEPT !.pc = "accept"].pos = 0
        /\ Sound([Free EXCEPT !.pc = "accept"])
    BY <2>1, FreeSound DEF Free, Sound
  <2> QED
    BY <1>0, <2>1, <2>2
<1>2. queue \in Seq(Clients) /\ wire \in [Clients -> Line] /\ Len(disk.data) = 0
      /\ disk \in [made : BOOLEAN, data : Seq(Pieces)]
  BY <1>0 DEF Line
<1>3. cam \in [end : {"new", "up", "shut"}, sent : -1..MaxPieces, up : Seq(Pieces),
              zeros : SUBSET Zeros]
  BY <1>0, RelayAssumption
<1>4. relay \in [pc : {"local", "remote", "get", "select", "process_remote", "close",
                       "done", "dead"}, line : Seq(BOOLEAN)]
  <2>1. << >> \in Seq(BOOLEAN) /\ <<FALSE, FALSE>> \in Seq(BOOLEAN)
    OBVIOUS
  <2>2. PICK line \in {<< >>, <<FALSE, FALSE>>} : relay = [pc |-> "local", line |-> line]
    BY DEF Init
  <2>3. line \in Seq(BOOLEAN)
    BY <2>1, <2>2
  <2> QED
    BY <2>2, <2>3
<1>5. \A p \in Procs : proc[p].pos <= Len(disk.data)
  BY <1>1, <1>2
<1>6. Fresh
  <2>1. ToSet(<< >>) = {}
    BY DEF ToSet
  <2>2. ASSUME NEW p \in Procs, NEW c \in Clients PROVE proc[p].conn # c
    BY <1>0, RelayAssumption DEF Free
  <2> QED
    BY <1>0, <2>1, <2>2 DEF Fresh
<1> QED
  BY <1>0, <1>1, <1>2, <1>3, <1>4, <1>5, <1>6 DEF Base, TypeOK, ServerTypeOK, Process, Line

\* What the steps of a process that serves have in common: r is the process
\* after it, w the connection.
Serves(p, c, r, w) ==
  /\ proc[p].pc \in Serving /\ c \in Clients /\ c = proc[p].conn
  /\ Sound(r)
  /\ IF r.pc \in Serving THEN r.conn = c ELSE r.pc \in {"accept", "dead"}
  /\ w \in Line
  /\ w.end = wire[c].end \/ (wire[c].end = "shut" /\ w.end = "reset")
  /\ proc' = [proc EXCEPT ![p] = r] /\ wire' = [wire EXCEPT ![c] = w]
  /\ UNCHANGED <<pid, lenOk, queue>>

\* The first n pieces of those that have arrived are read.
Reads(c, w, n) ==
  /\ n \in 0..Len(wire[c].up) /\ w.up = SubSeq(wire[c].up, n + 1, Len(wire[c].up))
  /\ w.down = wire[c].down

\* data goes to the client, or nothing, and then it has gone.
Delivers(c, r, w, data) ==
  /\ data \in Seq(Pieces) /\ w.up = wire[c].up
  /\ \/ wire[c].end = "up" /\ w.end = "up" /\ w.down = wire[c].down \o data
     \/ w.end = "reset" /\ w.down = wire[c].down

LEMMA TakeReads ==
  ASSUME Base, NEW c \in Clients, NEW n \in 1..Len(wire[c].up), Take(c, n)
  PROVE  \E w \in Line : /\ Reads(c, w, n) /\ w.end = wire[c].end
                         /\ wire' = [wire EXCEPT ![c] = w]
<1> PICK u : u = wire[c].up
  OBVIOUS
<1>1. wire[c] \in Line /\ u \in Seq(Pieces) /\ wire \in [Clients -> Line] /\ n \in 0..Len(u)
      /\ Len(u) \in n..Len(u)
  BY DEF Base, TypeOK, ServerTypeOK, Line
<1>2. SubSeq(u, n + 1, Len(u)) \in Seq(Pieces)
  BY <1>1, Cut
<1> DEFINE w == [wire[c] EXCEPT !.up = SubSeq(u, n + 1, Len(u))]
<1>3. w \in Line /\ w.end = wire[c].end /\ w.down = wire[c].down
      /\ w.up = SubSeq(u, n + 1, Len(u))
  BY <1>1, <1>2 DEF Line
<1>4. wire' = [wire EXCEPT ![c] = w]
  BY <1>1 DEF Take
<1> HIDE DEF w
<1> QED
  BY <1>1, <1>3, <1>4 DEF Reads

\* Nothing is read, and nothing written.
LEMMA Idles ==
  ASSUME Base, NEW c \in Clients, wire' = wire
  PROVE  \E w \in Line : /\ Reads(c, w, 0) /\ w.end = wire[c].end
                         /\ wire' = [wire EXCEPT ![c] = w] /\ w = wire[c]
<1>1. wire[c] \in Line /\ wire[c].up \in Seq(Pieces) /\ wire \in [Clients -> Line]
  BY DEF Base, TypeOK, ServerTypeOK, Line
<1>2. /\ 0 \in 0..Len(wire[c].up)
      /\ SubSeq(wire[c].up, 0 + 1, Len(wire[c].up)) = wire[c].up
  <2> PICK u \in Seq(Pieces) : u = wire[c].up
    BY <1>1
  <2>1. 0 \in 0..Len(u) /\ SubSeq(u, 0 + 1, Len(u)) = u
    BY SubSeqFull
  <2> QED
    BY <2>1
<1> QED
  BY <1>1, <1>2 DEF Reads

LEMMA Served ==
  ASSUME Base, NEW p \in Procs, proc[p].pc \in Serving
  PROVE  /\ proc[p].conn \in Clients /\ wire[proc[p].conn] \in Line
         /\ wire[proc[p].conn].end \in {"up", "shut", "reset"}
         /\ proc \in [Procs -> Process] /\ wire \in [Clients -> Line]
         /\ Sound(proc[p]) /\ proc[p] \in Process
  BY DEF Base, TypeOK, ServerTypeOK, Sound, Process, Line, Fresh

LEMMA GetClientTypeShape ==
  ASSUME Base, NEW p \in Procs, GetClientType(p)
  PROVE  \E c, r, w, n :
           /\ Serves(p, c, r, w) /\ Reads(c, w, n) /\ disk' = disk
           /\ proc[p].pc = "type" /\ r.pc = "answer" /\ r.out = << >> /\ r.pos = 0
           /\ w.end = wire[c].end
<1> DEFINE c == proc[p].conn
           r == proc'[p]
<1>1. /\ proc[p].pc = "type" /\ proc[p].pc \in Serving
      /\ UNCHANGED <<pid, lenOk, queue, disk>>
  BY DEF GetClientType, Serving
<1>2. c \in Clients /\ Sound(proc[p]) /\ proc \in [Procs -> Process]
  BY <1>1, Served
<1>3. PICK t \in {Post, Get, Unknown} :
        proc' = [proc EXCEPT ![p].pc = "answer", ![p].type = t]
  BY DEF GetClientType, TypeOf
<1>4. /\ Sound(r) /\ r.pc = "answer" /\ r.out = << >> /\ r.pos = 0 /\ r.conn = c
      /\ r.pc \in Serving /\ proc' = [proc EXCEPT ![p] = r]
  BY <1>1, <1>2, <1>3 DEF Sound, Process, Serving
<1>5. (\E n \in 1..Len(wire[c].up) : Take(c, n)) \/ wire' = wire
  BY DEF GetClientType
<1> HIDE DEF c, r
<1>6. PICK w, n : /\ w \in Line /\ Reads(c, w, n) /\ w.end = wire[c].end
                  /\ wire' = [wire EXCEPT ![c] = w]
  BY <1>2, <1>5, TakeReads, Idles
<1>7. Serves(p, c, r, w)
  BY <1>1, <1>2, <1>4, <1>6 DEF Serves, c
<1> QED
  BY <1>1, <1>4, <1>6, <1>7

LEMMA SendingShape ==
  ASSUME Base, NEW p \in Procs, proc[p].pc \in Serving, NEW data \in Seq(Pieces), NEW r,
         NEW w, w = wire'[proc[p].conn],
         \/ wire' = CASE wire[proc[p].conn].end = "up"
                           -> [wire EXCEPT ![proc[p].conn].down = @ \o data]
                      [] wire[proc[p].conn].end = "shut"
                           -> [wire EXCEPT ![proc[p].conn].end = "reset"]
                      [] wire[proc[p].conn].end = "reset" -> wire
         \/ wire[proc[p].conn].end = "reset" /\ wire' = wire
  PROVE  /\ w \in Line /\ wire' = [wire EXCEPT ![proc[p].conn] = w]
         /\ Delivers(proc[p].conn, r, w, data)
         /\ \/ w.end = wire[proc[p].conn].end
            \/ wire[proc[p].conn].end = "shut" /\ w.end = "reset"
<1> PICK c : c = proc[p].conn
  OBVIOUS
<1>1. c \in Clients /\ wire[c] \in Line /\ wire[c].end \in {"up", "shut", "reset"}
      /\ wire \in [Clients -> Line]
  BY Served
<1>2. wire[c].down \o data \in Seq(Pieces)
  BY <1>1 DEF Line
<1>3. CASE wire[c].end = "up"
  <2>1. wire' = [wire EXCEPT ![c].down = @ \o data]
    BY <1>3
  <2> QED
    BY <1>1, <1>2, <1>3, <2>1 DEF Line, Delivers
<1>4. CASE wire[c].end = "shut"
  <2>1. wire' = [wire EXCEPT ![c].end = "reset"]
    BY <1>4
  <2> QED
    BY <1>1, <1>4, <2>1 DEF Line, Delivers
<1>5. CASE wire[c].end = "reset"
  <2>1. wire' = wire
    BY <1>5
  <2> QED
    BY <1>1, <1>5, <2>1 DEF Line, Delivers
<1> QED
  BY <1>1, <1>3, <1>4, <1>5

LEMMA AnswerShape ==
  ASSUME Base, NEW p \in Procs, Answer(p)
  PROVE  \E c, r, w, data :
           /\ Serves(p, c, r, w) /\ Delivers(c, r, w, data) /\ data = <<Header>>
           /\ proc[p].pc = "answer" /\ r.pc \in {"post", "get", "accept", "dead"}
           /\ r.out = << >> /\ r.pos = 0
           /\ disk'.data = disk.data /\ disk' \in [made : BOOLEAN, data : Seq(Pieces)]
<1> DEFINE c == proc[p].conn
           r == proc'[p]
           w == wire'[c]
<1>1. /\ proc[p].pc = "answer" /\ proc[p].pc \in Serving
      /\ UNCHANGED <<pid, lenOk, queue>>
  BY DEF Answer, Serving
<1>2. /\ c \in Clients /\ Sound(proc[p]) /\ proc \in [Procs -> Process]
      /\ proc[p].type \in {Post, Get, Unknown}
  BY <1>1, Served DEF Process
<1>3. <<Header>> \in Seq(Pieces)
  BY PiecesInt
<1>4. /\ w \in Line /\ wire' = [wire EXCEPT ![c] = w] /\ Delivers(c, r, w, <<Header>>)
      /\ w.end = wire[c].end \/ (wire[c].end = "shut" /\ w.end = "reset")
  <2>1. \/ wire' = CASE wire[c].end = "up"    -> [wire EXCEPT ![c].down = @ \o <<Header>>]
                     [] wire[c].end = "shut"  -> [wire EXCEPT ![c].end = "reset"]
                     [] wire[c].end = "reset" -> wire
        \/ wire[c].end = "reset" /\ wire' = wire
    BY DEF Answer, Sending
  <2> QED
    BY <1>1, <1>3, <2>1, SendingShape
<1>5. \/ Forget(p, "accept") \/ Forget(p, "dead") \/ Goto(p, "post") \/ Goto(p, "get")
  BY <1>2 DEF Answer, Sending
<1>6. /\ Sound(r) /\ r.pc \in {"post", "get", "accept", "dead"}
      /\ r.out = << >> /\ r.pos = 0 /\ proc' = [proc EXCEPT ![p] = r]
      /\ IF r.pc \in Serving THEN r.conn = c ELSE r.pc \in {"accept", "dead"}
  <2>1. CASE Forget(p, "accept") \/ Forget(p, "dead")
    <3>1. PICK l \in {"accept", "dead"} : proc' = [proc EXCEPT ![p] = [Free EXCEPT !.pc = l]]
      BY <2>1 DEF Forget
    <3>2. r = [Free EXCEPT !.pc = l] /\ r.pc = l /\ r.out = << >> /\ r.pos = 0
      BY <1>2, <3>1 DEF Free
    <3> QED
      BY <3>1, <3>2, FreeSound DEF Serving
  <2>2. CASE Goto(p, "post") \/ Goto(p, "get")
    <3>1. PICK l \in {"post", "get"} : proc' = [proc EXCEPT ![p].pc = l]
      BY <2>2 DEF Goto
    <3> QED
      BY <1>1, <1>2, <3>1 DEF Sound, Process, Serving
  <2> QED
    BY <1>5, <2>1, <2>2
<1>7. disk'.data = disk.data /\ disk' \in [made : BOOLEAN, data : Seq(Pieces)]
  BY DEF Answer, Base, TypeOK, ServerTypeOK
<1> HIDE DEF r, w
<1>8. Serves(p, c, r, w)
  BY <1>1, <1>2, <1>4, <1>6 DEF Serves
<1> QED
  BY <1>1, <1>4, <1>6, <1>7, <1>8

\* What stdio writes of line, and what it holds back.
Prints(p, r, line) ==
  \E k, all :
    /\ line \in Seq(Pieces) /\ all = proc[p].out \o line /\ k \in 0..Len(all)
    /\ disk' = [disk EXCEPT !.data = @ \o SubSeq(all, 1, k)]
    /\ r.out = SubSeq(all, k + 1, Len(all))

LEMMA WholeBlocks == \A n \in Nat : (n \div Block) * Block \in 0..n
<1>1. Block \in Nat \ {0}
  BY RelayAssumption
<1> SUFFICES ASSUME NEW n \in Nat PROVE (n \div Block) * Block \in 0..n
  OBVIOUS
<1>2. n \div Block \in Nat /\ (n \div Block) * Block <= n
  BY <1>1
<1>3. (n \div Block) * Block \in Nat
  BY <1>1, <1>2
<1> QED
  BY <1>2, <1>3

LEMMA FprintfShape ==
  ASSUME Base, NEW p \in Procs, proc[p].pc = "post", NEW line \in Seq(Pieces),
         Fprintf(p, line), NEW r, r = proc'[p]
  PROVE  /\ Prints(p, r, line) /\ proc' = [proc EXCEPT ![p] = r] /\ Sound(r)
         /\ r.pc = "post" /\ r.conn = proc[p].conn /\ r.pos = 0
<1> PICK all : all = proc[p].out \o line
  OBVIOUS
<1> PICK k : k = (Len(all) \div Block) * Block
  OBVIOUS
<1>1. proc \in [Procs -> Process] /\ Sound(proc[p]) /\ proc[p].pc \in Serving
  BY DEF Base, TypeOK, ServerTypeOK, Process, Serving
<1>2. all \in Seq(Pieces)
  BY <1>1 DEF Process
<1>3. k \in 0..Len(all) /\ Len(all) \in k..Len(all)
  BY SMTT(30), <1>2, WholeBlocks
<1>4. SubSeq(all, k + 1, Len(all)) \in Seq(Pieces)
  BY <1>2, <1>3, Cut
<1>5. /\ disk' = [disk EXCEPT !.data = @ \o SubSeq(all, 1, k)]
      /\ proc' = [proc EXCEPT ![p].used = TRUE, ![p].out = SubSeq(all, k + 1, Len(all))]
  BY DEF Fprintf
<1>6. /\ r.out = SubSeq(all, k + 1, Len(all)) /\ proc' = [proc EXCEPT ![p] = r] /\ Sound(r)
      /\ r.pc = "post" /\ r.conn = proc[p].conn /\ r.pos = 0
  BY <1>1, <1>4, <1>5 DEF Sound, Process, Serving
<1> QED
  BY <1>3, <1>5, <1>6 DEF Prints

LEMMA PostReadShape ==
  ASSUME Base, NEW p \in Procs, PostRead(p)
  PROVE  \E c, r, w, n, line :
           /\ Serves(p, c, r, w) /\ Reads(c, w, n) /\ Prints(p, r, line)
           /\ proc[p].pc = "post" /\ r.pc = "post" /\ r.pos = 0 /\ w.end = wire[c].end
           /\ \/ line = SubSeq(wire[c].up, 1, n)
              \/ n = 0 /\ line \in {<< >>, <<Junk>>} /\ w = wire[c] /\ Ended(c)
<1> DEFINE c == proc[p].conn
           r == proc'[p]
<1>1. /\ proc[p].pc = "post" /\ proc[p].pc \in Serving
      /\ UNCHANGED <<pid, lenOk, queue>>
  BY DEF PostRead, Serving
<1>2. /\ c \in Clients /\ wire[c].up \in Seq(Pieces)
  BY <1>1, Served DEF Line
<1>3. CASE \E n \in 1..Len(wire[c].up) : Take(c, n) /\ Fprintf(p, SubSeq(wire[c].up, 1, n))
  <2>1. PICK n \in 1..Len(wire[c].up) : Take(c, n) /\ Fprintf(p, SubSeq(wire[c].up, 1, n))
    BY <1>3
  <2>2. SubSeq(wire[c].up, 1, n) \in Seq(Pieces)
    <3> PICK u \in Seq(Pieces) : u = wire[c].up
      BY <1>2
    <3>1. 0 \in 0..Len(u) /\ n \in 0..Len(u) /\ 0 + 1 = 1
      OBVIOUS
    <3>2. SubSeq(u, 0 + 1, n) \in Seq(Pieces)
      BY <3>1, Cut
    <3> QED
      BY <3>1, <3>2
  <2>3. PICK w \in Line : Reads(c, w, n) /\ w.end = wire[c].end /\ wire' = [wire EXCEPT ![c] = w]
    BY <1>2, <2>1, TakeReads
  <2>4. /\ Prints(p, r, SubSeq(wire[c].up, 1, n)) /\ proc' = [proc EXCEPT ![p] = r] /\ Sound(r)
        /\ r.pc = "post" /\ r.conn = c /\ r.pos = 0
    BY <1>1, <2>1, <2>2, FprintfShape
  <2> HIDE DEF r
  <2>5. Serves(p, c, r, w)
    BY <1>1, <1>2, <2>3, <2>4 DEF Serves, Serving
  <2> QED
    BY <1>1, <2>3, <2>4, <2>5
<1>4. CASE Ended(c) /\ (\E line \in Remains(p) : Fprintf(p, line)) /\ wire' = wire
  <2>1. PICK line \in {<< >>, <<Junk>>} : Fprintf(p, line)
    BY <1>4 DEF Remains
  <2>2. line \in Seq(Pieces)
    <3>1. << >> \in Seq(Pieces) /\ <<Junk>> \in Seq(Pieces)
      BY PiecesInt
    <3> QED
      BY <2>1, <3>1
  <2>3. PICK w \in Line : /\ Reads(c, w, 0) /\ w.end = wire[c].end /\ w = wire[c]
                          /\ wire' = [wire EXCEPT ![c] = w]
    BY <1>2, <1>4, Idles
  <2>4. /\ Prints(p, r, line) /\ proc' = [proc EXCEPT ![p] = r] /\ Sound(r)
        /\ r.pc = "post" /\ r.conn = c /\ r.pos = 0
    BY <1>1, <2>1, <2>2, FprintfShape
  <2> HIDE DEF r
  <2>5. Serves(p, c, r, w)
    BY <1>1, <1>2, <2>3, <2>4 DEF Serves, Serving
  <2> QED
    BY <1>1, <1>4, <2>1, <2>3, <2>4, <2>5
<1> QED
  BY <1>3, <1>4 DEF PostRead

\* A piece of the file goes out, or the file has ended; what sendline held
\* before goes along.
Passes(p, r, data) ==
  \E n \in {0, 1} :
    /\ proc[p].pos + n <= Len(disk.data) /\ r.pos = proc[p].pos + n
    /\ LET chunk == SubSeq(disk.data, proc[p].pos + 1, proc[p].pos + n)
       IN  data \in {chunk, chunk \o <<Junk>>}

LEMMA GetWriteShape ==
  ASSUME Base, NEW p \in Procs, GetWrite(p)
  PROVE  \E c, r, w, data :
           /\ Serves(p, c, r, w) /\ Delivers(c, r, w, data) /\ disk' = disk
           /\ proc[p].pc = "get" /\ r.pc \in {"get", "dead"} /\ r.out = << >>
           /\ r.pc = "get" => Passes(p, r, data)
           /\ r.pc = "dead" => w.end = "reset" /\ r.pos = 0
<1> DEFINE c == proc[p].conn
           r == proc'[p]
           w == wire'[c]
<1> PICK d : d = disk.data
  OBVIOUS
<1> PICK m : m = proc[p].pos
  OBVIOUS
<1>1. /\ proc[p].pc = "get" /\ proc[p].pc \in Serving
      /\ UNCHANGED <<pid, lenOk, queue, disk>>
  BY DEF GetWrite, Serving
<1>2. /\ c \in Clients /\ Sound(proc[p]) /\ proc \in [Procs -> Process]
      /\ d \in Seq(Pieces) /\ Len(d) \in Nat /\ m \in Nat /\ m <= Len(d)
  BY <1>1, Served DEF Process, Base, TypeOK, ServerTypeOK
<1>3. PICK chunk \in Chunks(p) :
        \E behind \in IF chunk.eof \/ ~proc[p].used THEN Remains(p) ELSE {<< >>} :
          Sending(p, chunk.data \o behind,
            proc' = [proc EXCEPT ![p].pos = @ + Len(chunk.data), ![p].eof = chunk.eof,
                                 ![p].used = TRUE])
  BY DEF GetWrite
<1>4. PICK behind \in IF chunk.eof \/ ~proc[p].used THEN Remains(p) ELSE {<< >>} :
        Sending(p, chunk.data \o behind,
          proc' = [proc EXCEPT ![p].pos = @ + Len(chunk.data), ![p].eof = chunk.eof,
                               ![p].used = TRUE])
  BY <1>3
<1>5. behind \in {<< >>, <<Junk>>}
  BY <1>4 DEF Remains
<1> PICK x : x = chunk.data
  OBVIOUS
<1>6. /\ chunk.eof \in BOOLEAN
      /\ \/ x = << >> /\ m = Len(d)
         \/ x = <<d[m + 1]>> /\ m + 1 <= Len(d)
  <2>1. \E e : /\ chunk = [data |-> IF Len(d) - m = 0 THEN << >> ELSE <<d[m + 1]>>, eof |-> e]
               /\ e \in CASE Len(d) - m = 0 -> {TRUE}
                          [] Len(d) - m = 1 -> BOOLEAN
                          [] Len(d) - m > 1 -> {FALSE}
    BY <1>3 DEF Chunks
  <2>2. PICK e : /\ chunk = [data |-> IF Len(d) - m = 0 THEN << >> ELSE <<d[m + 1]>>, eof |-> e]
                 /\ e \in CASE Len(d) - m = 0 -> {TRUE}
                            [] Len(d) - m = 1 -> BOOLEAN
                            [] Len(d) - m > 1 -> {FALSE}
    BY <2>1
  <2>3. Len(d) - m \in Nat /\ (Len(d) - m = 0 <=> m = Len(d))
        /\ (Len(d) - m # 0 => m + 1 <= Len(d) /\ (Len(d) - m = 1 \/ Len(d) - m > 1))
    BY <1>2
  <2> QED
    BY <2>2, <2>3
<1> PICK n : n = IF x = << >> THEN 0 ELSE 1
  OBVIOUS
<1>7. /\ n \in {0, 1} /\ Len(x) = n /\ m + n <= Len(d) /\ m + n \in Nat
      /\ x = SubSeq(d, m + 1, m + n) /\ x \in Seq(Pieces)
  <2>1. CASE x = << >> /\ m = Len(d)
    <3>1. n = 0 /\ m + 0 = m /\ m + 1 > m
      BY <1>2, <2>1
    <3>2. SubSeq(d, m + 1, m) = << >>
      BY <1>2, <3>1, SubSeqEmpty
    <3>3. << >> \in Seq(Pieces) /\ Len(<< >>) = 0
      OBVIOUS
    <3> QED
      BY <1>2, <2>1, <3>1, <3>2, <3>3
  <2>2. CASE x = <<d[m + 1]>> /\ m + 1 <= Len(d)
    <3>1. m + 1 \in 1..Len(d) /\ d[m + 1] \in Pieces /\ m + 1 \in Nat
      BY <1>2, <2>2, Elements
    <3>2. n = 1 /\ Len(x) = 1 /\ x \in Seq(Pieces)
      BY <2>2, <3>1
    <3>3. SubSeq(d, m + 1, m + 1) = <<d[m + 1]>>
      BY <1>2, <3>1, OnePiece
    <3> QED
      BY <2>2, <3>1, <3>2, <3>3
  <2> QED
    BY <1>6, <2>1, <2>2
<1> PICK data : data = x \o behind
  OBVIOUS
<1>8. data \in Seq(Pieces) /\ data \in {x, x \o <<Junk>>}
  <2>1. << >> \in Seq(Pieces) /\ <<Junk>> \in Seq(Pieces)
    BY PiecesInt
  <2>2. x \o << >> = x
    BY <1>7, ConcatEmptySeq
  <2>3. CASE behind = << >>
    BY <1>7, <2>2, <2>3
  <2>4. CASE behind = <<Junk>>
    <3>1. x \o <<Junk>> \in Seq(Pieces)
      BY <1>7, <2>1, ConcatProperties
    <3> QED
      BY <2>4, <3>1
  <2> QED
    BY <1>5, <2>3, <2>4
<1>9. /\ w \in Line /\ wire' = [wire EXCEPT ![c] = w] /\ Delivers(c, r, w, data)
      /\ w.end = wire[c].end \/ (wire[c].end = "shut" /\ w.end = "reset")
  <2>1. \/ wire' = CASE wire[c].end = "up"    -> [wire EXCEPT ![c].down = @ \o data]
                     [] wire[c].end = "shut"  -> [wire EXCEPT ![c].end = "reset"]
                     [] wire[c].end = "reset" -> wire
        \/ wire[c].end = "reset" /\ wire' = wire
    BY <1>4 DEF Sending
  <2> QED
    BY <1>1, <1>8, <2>1, SendingShape
<1>10. \/ proc' = [proc EXCEPT ![p].pos = @ + n, ![p].eof = chunk.eof, ![p].used = TRUE]
       \/ Forget(p, "dead") /\ wire[c].end = "reset" /\ wire' = wire
  BY <1>4, <1>7 DEF Sending
<1>11. /\ Sound(r) /\ r.out = << >> /\ proc' = [proc EXCEPT ![p] = r]
       /\ IF r.pc \in Serving THEN r.conn = c ELSE r.pc \in {"accept", "dead"}
       /\ \/ r.pc = "get" /\ r.pos = m + n
          \/ r.pc = "dead" /\ r.pos = 0 /\ w.end = "reset"
  <2>1. CASE Forget(p, "dead") /\ wire[c].end = "reset" /\ wire' = wire
    <3>1. proc' = [proc EXCEPT ![p] = [Free EXCEPT !.pc = "dead"]]
      BY <2>1 DEF Forget
    <3>2. r = [Free EXCEPT !.pc = "dead"] /\ r.pc = "dead" /\ r.out = << >> /\ r.pos = 0
      BY <1>2, <3>1 DEF Free
    <3> QED
      BY <2>1, <3>1, <3>2, FreeSound DEF Serving
  <2>2. CASE proc' = [proc EXCEPT ![p].pos = @ + n, ![p].eof = chunk.eof, ![p].used = TRUE]
    BY <1>1, <1>2, <1>6, <1>7, <2>2 DEF Sound, Process, Serving
  <2> QED
    BY <1>10, <2>1, <2>2
<1>12. r.pc = "get" => Passes(p, r, data)
  BY <1>7, <1>8, <1>11 DEF Passes
<1> HIDE DEF r, w
<1>13. Serves(p, c, r, w)
  BY <1>1, <1>2, <1>9, <1>11 DEF Serves
<1> QED
  BY <1>1, <1>9, <1>11, <1>12, <1>13

-----------------------------------------------------------------------------
(* Every step keeps Base.                                                  *)

LEMMA ServesBase ==
  ASSUME Base, NEW p \in Procs, NEW c, NEW r, NEW w, Serves(p, c, r, w),
         disk' \in [made : BOOLEAN, data : Seq(Pieces)],
         Len(disk.data) <= Len(disk'.data), r.pos <= Len(disk'.data),
         UNCHANGED clientVars
  PROVE  Base'
<1>1. /\ proc \in [Procs -> Process] /\ wire \in [Clients -> Line] /\ queue \in Seq(Clients)
      /\ pid \in Strays /\ lenOk \in BOOLEAN /\ disk \in [made : BOOLEAN, data : Seq(Pieces)]
      /\ \A q \in Procs : Sound(proc[q]) /\ proc[q].pos <= Len(disk.data)
  BY DEF Base, TypeOK, ServerTypeOK, Process, Line
<1>2. /\ c \in Clients /\ w \in Line /\ r \in Process /\ c = proc[p].conn /\ Sound(r)
      /\ proc' = [proc EXCEPT ![p] = r] /\ wire' = [wire EXCEPT ![c] = w]
      /\ pid' = pid /\ lenOk' = lenOk /\ queue' = queue
  BY DEF Serves, Sound
<1>3. TypeOK'
  <2>1. proc' \in [Procs -> Process] /\ wire' \in [Clients -> Line]
    BY <1>1, <1>2
  <2> QED
    BY <1>1, <1>2, <2>1 DEF Base, TypeOK, ServerTypeOK, Process, Line, clientVars
<1>4. Fresh'
  <2>1. wire[c].end # "new"
    BY <1>2 DEF Base, Fresh
  <2>2. w.end # "new" /\ (r.conn = c \/ r.conn = NoClient)
    BY <2>1, <1>2 DEF Serves, Sound
  <2>3. NoClient \notin Clients
    BY RelayAssumption
  <2>4. SUFFICES ASSUME NEW k \in Clients, wire'[k].end = "new"
                 PROVE  /\ wire'[k].up = << >> /\ wire'[k].down = << >>
                        /\ k \notin ToSet(queue')
                        /\ \A q \in Procs : proc'[q].conn # k
    BY DEF Fresh
  <2>5. k # c /\ wire'[k] = wire[k]
    BY <1>1, <1>2, <2>2, <2>4
  <2>6. ASSUME NEW q \in Procs PROVE proc'[q].conn # k
    BY <1>1, <1>2, <2>2, <2>3, <2>4, <2>5 DEF Base, Fresh
  <2> QED
    BY <1>2, <2>4, <2>5, <2>6 DEF Base, Fresh
<1>5. \A q \in Procs : Sound(proc'[q]) /\ proc'[q].pos <= Len(disk'.data)
  <2>1. Len(disk.data) \in Nat /\ Len(disk'.data) \in Nat /\ \A q \in Procs : proc[q].pos \in Nat
    BY <1>1 DEF Process
  <2> QED
    BY <1>1, <1>2, <2>1
<1> QED
  BY <1>3, <1>4, <1>5 DEF Base, Sound, Process, Serving

LEMMA PrintsGrows ==
  ASSUME Base, NEW p \in Procs, NEW r, NEW line, Prints(p, r, line)
  PROVE  /\ disk' \in [made : BOOLEAN, data : Seq(Pieces)]
         /\ Len(disk.data) <= Len(disk'.data)
<1>1. PICK k, all :
        /\ line \in Seq(Pieces) /\ all = proc[p].out \o line /\ k \in 0..Len(all)
        /\ disk' = [disk EXCEPT !.data = @ \o SubSeq(all, 1, k)]
  BY DEF Prints
<1>2. proc[p].out \in Seq(Pieces) /\ disk \in [made : BOOLEAN, data : Seq(Pieces)]
  BY DEF Base, TypeOK, ServerTypeOK
<1> PICK d : d = disk.data
  OBVIOUS
<1> PICK t : t = SubSeq(all, 1, k)
  OBVIOUS
<1>3. t \in Seq(Pieces)
  <2>1. all \in Seq(Pieces)
    BY <1>1, <1>2
  <2>2. 0 \in 0..Len(all) /\ 0 + 1 = 1 /\ k \in 0..Len(all)
    BY <1>1, <2>1
  <2>3. SubSeq(all, 0 + 1, k) \in Seq(Pieces)
    BY <2>1, <2>2, Cut
  <2> QED
    BY <2>2, <2>3
<1>4. d \in Seq(Pieces) /\ d \o t \in Seq(Pieces) /\ Len(d \o t) = Len(d) + Len(t)
      /\ Len(d) \in Nat /\ Len(t) \in Nat
  BY <1>2, <1>3
<1>5. disk' = [disk EXCEPT !.data = d \o t] /\ disk'.data = d \o t
  BY <1>1, <1>2
<1>6. Len(d) <= Len(d \o t)
  BY <1>4
<1> QED
  BY <1>2, <1>4, <1>5, <1>6

LEMMA ServingBase ==
  ASSUME Base, NEW p \in Procs, UNCHANGED clientVars,
         GetClientType(p) \/ Answer(p) \/ PostRead(p) \/ GetWrite(p)
  PROVE  Base'
<1> PICK m : m = Len(disk.data)
  OBVIOUS
<1>1. disk \in [made : BOOLEAN, data : Seq(Pieces)] /\ m \in Nat /\ m <= m
  BY DEF Base, TypeOK, ServerTypeOK
<1>2. CASE GetClientType(p)
  <2>1. PICK c, r, w, n : Serves(p, c, r, w) /\ disk' = disk /\ r.pos = 0
    BY <1>2, GetClientTypeShape
  <2>2. r.pos <= Len(disk'.data) /\ Len(disk'.data) = m
    BY <1>1, <2>1
  <2> QED
    BY <1>1, <2>1, <2>2, ServesBase
<1>3. CASE Answer(p)
  <2>1. PICK c, r, w, data :
          /\ Serves(p, c, r, w) /\ disk'.data = disk.data /\ r.pos = 0
          /\ disk' \in [made : BOOLEAN, data : Seq(Pieces)]
    BY <1>3, AnswerShape
  <2>2. r.pos <= Len(disk'.data) /\ Len(disk'.data) = m
    BY <1>1, <2>1
  <2> QED
    BY <1>1, <2>1, <2>2, ServesBase
<1>4. CASE PostRead(p)
  <2>1. PICK c, r, w, n, line : Serves(p, c, r, w) /\ Prints(p, r, line) /\ r.pos = 0
    BY <1>4, PostReadShape
  <2>2. /\ disk' \in [made : BOOLEAN, data : Seq(Pieces)]
        /\ Len(disk.data) <= Len(disk'.data)
    BY <2>1, PrintsGrows
  <2>3. Len(disk'.data) \in Nat
    BY <2>2
  <2>4. r.pos <= Len(disk'.data)
    BY <2>1, <2>3
  <2> QED
    BY <2>1, <2>2, <2>4, ServesBase
<1>5. CASE GetWrite(p)
  <2>1. PICK c, r, w, data :
          /\ Serves(p, c, r, w) /\ disk' = disk
          /\ r.pc = "get" => Passes(p, r, data)
          /\ r.pc = "dead" => r.pos = 0
          /\ r.pc \in {"get", "dead"}
    BY <1>5, GetWriteShape
  <2>2. r.pos <= m
    BY <1>1, <2>1 DEF Passes
  <2> QED
    BY <1>1, <2>1, <2>2, ServesBase
<1> QED
  BY <1>2, <1>3, <1>4, <1>5

Newcomer(c) == [Free EXCEPT !.pc = "type", !.conn = c]
Accepting == [Free EXCEPT !.pc = "accept"]

LEMMA AtFork ==
  ASSUME NEW c \in Clients
  PROVE  /\ Sound(Newcomer(c)) /\ Newcomer(c).pc = "type" /\ Newcomer(c).conn = c
         /\ Newcomer(c).pos = 0 /\ Newcomer(c).out = << >>
         /\ Sound(Accepting) /\ Accepting.pc = "accept" /\ Accepting.conn = NoClient
         /\ Accepting.pos = 0 /\ Accepting.out = << >>
         /\ \A result : AfterFork(result, c) = IF pid # result THEN Newcomer(c) ELSE Accepting
<1>1. << >> \in Seq(Pieces)
  OBVIOUS
<1> QED
  BY <1>1 DEF Newcomer, Accepting, Free, Sound, Process, Serving, AfterFork

\* After accept() each process is as before, or is one of the two fork() left.
LEMMA AcceptShape ==
  ASSUME Base, NEW p \in Procs, Accept(p), NEW c, c = Head(queue)
  PROVE  /\ c \in Clients /\ c \in ToSet(queue) /\ queue' = Tail(queue)
         /\ UNCHANGED <<pid, lenOk, wire, disk>>
         /\ queue # << >> /\ proc[p].pc = "accept" /\ DOMAIN proc' = Procs
         /\ proc' = [q \in Procs |-> proc'[q]]
         /\ \A q \in Procs : \/ proc'[q] = proc[q]
                             \/ /\ proc[q].pc \in {"none", "accept"}
                                /\ proc'[q] \in {Newcomer(c), Accepting}
         /\ pid = 0 => \/ proc' = proc
                       \/ /\ proc'[p] = Newcomer(c)
                          /\ \A q \in Procs \ {p} : proc'[q] \in {proc[q], Accepting}
                          /\ \/ \E q \in Procs : proc[q].pc = "none" /\ proc'[q] = Accepting
                                  /\ \A s \in Procs \ {p, q} : proc'[s] = proc[s]
                             \/ /\ \A q \in Procs : proc[q].pc # "none"
                                /\ \A q \in Procs \ {p} : proc'[q] = proc[q]
<1> DEFINE unused == {q \in Procs : proc[q].pc = "none"}
<1>1. /\ proc[p].pc = "accept" /\ queue # << >> /\ queue' = Tail(queue)
      /\ UNCHANGED <<pid, lenOk, wire, disk>>
      /\ proc' = IF ~lenOk THEN proc
                 ELSE IF unused = {} THEN [proc EXCEPT ![p] = AfterFork(-1, c)]
                 ELSE [proc EXCEPT ![p] = AfterFork(Min(unused), c),
                                   ![Min(unused)] = AfterFork(0, c)]
  BY DEF Accept
<1>2. proc \in [Procs -> Process] /\ queue \in Seq(Clients) /\ Procs \subseteq Nat \ {0}
  BY RelayAssumption DEF Base, TypeOK, ServerTypeOK, Process
<1>3. c \in Clients /\ c \in ToSet(queue)
  <2>1. Len(queue) \in Nat /\ 1 \in DOMAIN queue /\ queue[1] = c
    BY <1>1, <1>2
  <2> QED
    BY <1>1, <1>2, <2>1 DEF ToSet
<1>4. unused # {} => Min(unused) \in unused
  <2>1. unused \in SUBSET Nat
    BY <1>2
  <2>2. unused # {} => \E x \in unused : \A y \in unused : x <= y
    BY <2>1, Least
  <2> QED
    BY <2>2 DEF Min
<1>5. \A result : AfterFork(result, c) = IF pid # result THEN Newcomer(c) ELSE Accepting
  BY <1>3, AtFork
<1>6. CASE ~lenOk
  BY <1>1, <1>2, <1>3, <1>6
<1>7. CASE lenOk /\ unused = {}
  <2>1. proc' = [proc EXCEPT ![p] = AfterFork(-1, c)]
    BY <1>1, <1>7
  <2>2. pid = 0 => AfterFork(-1, c) = Newcomer(c)
    BY <1>5
  <2>3. AfterFork(-1, c) \in {Newcomer(c), Accepting}
    BY <1>5
  <2>4. \A q \in Procs : proc[q].pc # "none"
    BY <1>7
  <2> QED
    BY <1>1, <1>2, <1>3, <2>1, <2>2, <2>3, <2>4
<1>8. CASE lenOk /\ unused # {}
  <2> PICK q : q = Min(unused)
    OBVIOUS
  <2>1. q \in Procs /\ proc[q].pc = "none" /\ q # p /\ q # 0
    BY <1>1, <1>2, <1>4, <1>8
  <2>2. proc' = [proc EXCEPT ![p] = AfterFork(q, c), ![q] = AfterFork(0, c)]
    BY <1>1, <1>8
  <2>3. /\ AfterFork(q, c) \in {Newcomer(c), Accepting}
        /\ AfterFork(0, c) \in {Newcomer(c), Accepting}
        /\ pid = 0 => AfterFork(q, c) = Newcomer(c) /\ AfterFork(0, c) = Accepting
    BY <1>5, <2>1
  <2>4. /\ proc'[p] = AfterFork(q, c) /\ proc'[q] = AfterFork(0, c)
        /\ \A s \in Procs \ {p, q} : proc'[s] = proc[s]
        /\ DOMAIN proc' = Procs /\ proc' = [s \in Procs |-> proc'[s]]
    BY <1>2, <2>1, <2>2
  <2>5. \A s \in Procs : \/ proc'[s] = proc[s]
                         \/ /\ proc[s].pc \in {"none", "accept"}
                            /\ proc'[s] \in {Newcomer(c), Accepting}
    BY <1>1, <2>1, <2>3, <2>4
  <2>6. ASSUME pid = 0
        PROVE  /\ proc'[p] = Newcomer(c)
               /\ \A s \in Procs \ {p} : proc'[s] \in {proc[s], Accepting}
               /\ proc'[q] = Accepting
    BY <2>3, <2>4, <2>6
  <2> QED
    BY <1>1, <1>3, <2>1, <2>4, <2>5, <2>6
<1> QED
  BY <1>6, <1>7, <1>8

LEMMA AcceptBase ==
  ASSUME Base, NEW p \in Procs, Accept(p), UNCHANGED clientVars
  PROVE  Base'
<1> PICK c : c = Head(queue)
  OBVIOUS
<1>1. /\ c \in Clients /\ c \in ToSet(queue) /\ queue' = Tail(queue)
      /\ UNCHANGED <<pid, lenOk, wire, disk>> /\ queue # << >>
      /\ proc' = [q \in Procs |-> proc'[q]]
      /\ \A q \in Procs : \/ proc'[q] = proc[q]
                          \/ proc'[q] \in {Newcomer(c), Accepting}
  BY AcceptShape
<1>2. /\ proc \in [Procs -> Process] /\ wire \in [Clients -> Line] /\ queue \in Seq(Clients)
      /\ disk.data \in Seq(Pieces) /\ Len(disk.data) \in Nat
  BY DEF Base, TypeOK, ServerTypeOK, Process, Line
<1>3. \A q \in Procs : Sound(proc'[q]) /\ proc'[q].pos <= Len(disk.data)
  <2>1. Sound(Newcomer(c)) /\ Newcomer(c).pos = 0 /\ Sound(Accepting) /\ Accepting.pos = 0
    BY <1>1, AtFork
  <2> QED
    BY SMTT(30), <1>1, <1>2, <2>1 DEF Base
<1>4. queue' \in Seq(Clients) /\ ToSet(queue') \subseteq ToSet(queue)
  <2>1. queue' = SubSeq(queue, 1 + 1, Len(queue))
    BY <1>1, <1>2, TailIsSubSeq
  <2>2. 1 \in 0..Len(queue) /\ Len(queue) \in 1..Len(queue)
    BY <1>1, <1>2, Elements
  <2> QED
    BY <1>2, <2>1, <2>2, Cut, CutSet
<1>5. proc' \in [Procs -> Process]
  BY <1>1, <1>3 DEF Sound
<1>6. Fresh'
  <2>1. NoClient \notin Clients /\ wire[c].end # "new"
    BY <1>1, RelayAssumption DEF Base, Fresh
  <2>2. SUFFICES ASSUME NEW k \in Clients, wire[k].end = "new"
                 PROVE  /\ wire[k].up = << >> /\ wire[k].down = << >>
                        /\ k \notin ToSet(queue')
                        /\ \A q \in Procs : proc'[q].conn # k
    BY <1>1 DEF Fresh
  <2>3. ASSUME NEW q \in Procs PROVE proc'[q].conn # k
    BY <1>1, <2>1, <2>2, AtFork DEF Base, Fresh
  <2> QED
    BY <1>4, <2>2, <2>3 DEF Base, Fresh
<1> QED
  BY <1>1, <1>2, <1>3, <1>4, <1>5, <1>6
  DEF Base, TypeOK, ServerTypeOK, Process, Sound, Serving, clientVars

\* order lists the processes that SIGINT ends, in the order of their exits, and
\* outs what stdio holds for each.
Exits(order, outs) ==
  /\ order \in Seq(Running) /\ IsInjective(order) /\ ToSet(order) = Running
  /\ outs \in Seq(Seq(Pieces)) /\ Len(outs) = Len(order)
  /\ \A i \in 1..Len(order) : outs[i] = proc[order[i]].out
  /\ disk' = [disk EXCEPT !.data = @ \o FlattenSeq(outs)]

LEMMA QuitShape ==
  ASSUME Base, Quit
  PROVE  /\ \E order, outs : Exits(order, outs)
         /\ proc' = Stopped /\ UNCHANGED <<pid, lenOk, queue, wire>>
         /\ \A p \in Procs :
              \/ p \in Running /\ proc'[p] = [Free EXCEPT !.pc = "quit"]
              \/ p \notin Running /\ proc'[p] = proc[p]
<1>1. PICK order \in SetToSeqs(Running) :
        disk' = [disk EXCEPT !.data =
                  @ \o FlattenSeq([i \in DOMAIN order |-> proc[order[i]].out])]
  BY DEF Quit
<1>2. proc' = Stopped /\ UNCHANGED <<pid, lenOk, queue, wire>>
  BY DEF Quit
<1>3. proc \in [Procs -> Process] /\ \A p \in Procs : proc[p].out \in Seq(Pieces)
  BY DEF Base, TypeOK, ServerTypeOK, Process
<1> PICK n : n = Cardinality(Running)
  OBVIOUS
<1>4. IsFiniteSet(Running) /\ n \in Nat /\ Running \subseteq Procs
  <2>1. Running \in SUBSET Procs
    BY DEF Running
  <2> QED
    BY <2>1, RelayAssumption, FS_Subset, FS_CardinalityType
<1>5. order \in [1..n -> Running] /\ IsInjective(order)
  BY <1>1 DEF SetToSeqs, IsInjective
<1>6. order \in Seq(Running) /\ Len(order) = n /\ DOMAIN order = 1..n
  BY <1>4, <1>5
<1>7. ToSet(order) = Running
  <2>1. order \in Injection(1..n, Running)
    BY <1>5 DEF Injection
  <2>2. Cardinality(1..n) = n
    <3>1. 1 \in Int /\ n \in Int /\ (IF 1 > n THEN 0 ELSE n - 1 + 1) = n
      BY <1>4
    <3> QED
      BY <3>1, FS_Interval
  <2>3. order \in Surjection(1..n, Running)
    BY <1>4, <2>1, <2>2, FS_Injection
  <2> QED
    BY <1>6, <2>3 DEF Surjection, ToSet
<1> PICK outs : outs = [i \in 1..n |-> proc[order[i]].out]
  OBVIOUS
<1>8. outs \in Seq(Seq(Pieces)) /\ Len(outs) = n
      /\ \A i \in 1..n : outs[i] = proc[order[i]].out
  <2>1. \A i \in 1..n : proc[order[i]].out \in Seq(Pieces)
    BY <1>3, <1>4, <1>5
  <2> QED
    BY <1>4, <2>1
<1>9. \E o, s : Exits(o, s)
  BY <1>1, <1>5, <1>6, <1>7, <1>8 DEF Exits
<1>10. \A p \in Procs :
         \/ p \in Running /\ proc'[p] = [Free EXCEPT !.pc = "quit"]
         \/ p \notin Running /\ proc'[p] = proc[p]
  BY <1>2 DEF Stopped
<1> QED
  BY <1>2, <1>9, <1>10

LEMMA ExitsType ==
  ASSUME Base, NEW order, NEW outs, Exits(order, outs)
  PROVE  /\ FlattenSeq(outs) \in Seq(Pieces)
         /\ disk'.data = disk.data \o FlattenSeq(outs)
         /\ disk' \in [made : BOOLEAN, data : Seq(Pieces)]
         /\ Len(disk.data) <= Len(disk'.data)
<1> PICK t : t = FlattenSeq(outs)
  OBVIOUS
<1> PICK d : d = disk.data
  OBVIOUS
<1>1. t \in Seq(Pieces)
  BY FlattenType DEF Exits
<1>2. disk \in [made : BOOLEAN, data : Seq(Pieces)] /\ d \in Seq(Pieces)
  BY DEF Base, TypeOK, ServerTypeOK
<1>3. d \o t \in Seq(Pieces) /\ Len(d \o t) = Len(d) + Len(t) /\ Len(d) \in Nat /\ Len(t) \in Nat
  BY <1>1, <1>2
<1>4. disk' = [disk EXCEPT !.data = d \o t] /\ disk'.data = d \o t
  BY <1>2 DEF Exits
<1>5. Len(d) <= Len(d \o t)
  BY <1>3
<1> QED
  BY <1>1, <1>2, <1>3, <1>4, <1>5

LEMMA QuitBase ==
  ASSUME Base, Quit, UNCHANGED clientVars
  PROVE  Base'
<1>1. /\ proc' = Stopped /\ UNCHANGED <<pid, lenOk, queue, wire>>
      /\ \A p \in Procs : proc'[p] \in {[Free EXCEPT !.pc = "quit"], proc[p]}
  BY QuitShape
<1>2. PICK order, outs : Exits(order, outs)
  BY QuitShape
<1>3. /\ disk' \in [made : BOOLEAN, data : Seq(Pieces)]
      /\ Len(disk.data) <= Len(disk'.data)
  BY <1>2, ExitsType
<1>4. /\ Len(disk.data) \in Nat /\ Len(disk'.data) \in Nat /\ \A p \in Procs : proc[p].pos \in Nat
      /\ Len(disk'.data) >= 0
  BY <1>3 DEF Base, TypeOK, ServerTypeOK
<1>5. \A p \in Procs : Sound(proc'[p]) /\ proc'[p].pos <= Len(disk'.data)
  <2>1. Sound([Free EXCEPT !.pc = "quit"]) /\ [Free EXCEPT !.pc = "quit"].pos = 0
    BY FreeSound DEF Free
  <2>2. ASSUME NEW p \in Procs PROVE Sound(proc'[p]) /\ proc'[p].pos <= Len(disk'.data)
    <3>1. CASE proc'[p] = [Free EXCEPT !.pc = "quit"]
      BY <1>4, <2>1, <3>1
    <3>2. CASE proc'[p] = proc[p]
      <4>1. Sound(proc[p]) /\ proc[p].pos <= Len(disk.data)
        BY DEF Base
      <4> QED
        BY <1>3, <1>4, <3>2, <4>1
    <3> QED
      BY <1>1, <3>1, <3>2
  <2> QED
    BY <2>2
<1>6. proc' \in [Procs -> Process]
  BY <1>1, <1>5 DEF Stopped, Sound
<1>7. Fresh'
  <2>1. [Free EXCEPT !.pc = "quit"].conn = NoClient /\ NoClient \notin Clients
    BY RelayAssumption DEF Free
  <2> QED
    BY <1>1, <2>1 DEF Base, Fresh
<1> QED
  BY <1>1, <1>3, <1>5, <1>6, <1>7
  DEF Base, TypeOK, ServerTypeOK, Process, Sound, Serving, clientVars

LEMMA TakenType ==
  ASSUME NEW S, NEW s \in Seq(S), NEW n \in 1..Len(s)
  PROVE  SubSeq(s, 1, n) \in Seq(S) /\ SubSeq(s, 1, n) # << >> /\ Len(SubSeq(s, 1, n)) = n
<1>1. 0 \in 0..Len(s) /\ n \in 0..Len(s) /\ 0 + 1 = 1 /\ n - 0 = n /\ n # 0
  OBVIOUS
<1>2. SubSeq(s, 0 + 1, n) \in Seq(S) /\ Len(SubSeq(s, 0 + 1, n)) = n - 0
  BY <1>1, Cut
<1> QED
  BY <1>1, <1>2

\* What is sent on of the first n pieces the camera has sent: the reply to its
\* status line, all up to a zero byte, or more than there was.
LEMMA ForwardedShape ==
  ASSUME Base, NEW data \in Seq(Pieces), data # << >>
  PROVE  /\ Received(data) \in Seq(BOOLEAN) /\ Forwarded(data) \in Seq(Pieces)
         /\ \/ data[1] = Http /\ Forwarded(data) = <<Post>>
            \/ /\ data[1] # Http
               /\ \/ Forwarded(data) = Append(data, Junk)
                  \/ \E k \in 1..Len(data) : /\ Forwarded(data) = SubSeq(data, 1, k)
                                             /\ k = Len(data) \/ data[k] \in cam.zeros
<1> PICK n : n = Len(data)
  OBVIOUS
<1> PICK old : old = relay.line
  OBVIOUS
<1> PICK front : front = [i \in 1..n |-> data[i] \in cam.zeros]
  OBVIOUS
<1> PICK rest : rest = SubSeq(old, n + 1, Len(old))
  OBVIOUS
<1> PICK line : line = Received(data)
  OBVIOUS
<1>1. n \in Nat \ {0} /\ DOMAIN data = 1..n /\ old \in Seq(BOOLEAN) /\ Len(old) \in Nat
  BY DEF Base, TypeOK
<1>2. front \in Seq(BOOLEAN) /\ Len(front) = n /\ \A i \in 1..n : front[i] = (data[i] \in cam.zeros)
  BY <1>1
<1>3. rest \in Seq(BOOLEAN)
  <2>1. CASE n <= Len(old)
    <3>1. n \in 0..Len(old) /\ Len(old) \in n..Len(old)
      BY <1>1, <2>1
    <3> QED
      BY <1>1, <3>1, Cut
  <2>2. CASE ~(n <= Len(old))
    <3>1. n + 1 \in Int /\ Len(old) \in Int /\ Len(old) < n + 1
      BY <1>1, <2>2
    <3>2. rest = << >>
      BY <3>1, SubSeqEmpty
    <3>3. << >> \in Seq(BOOLEAN)
      OBVIOUS
    <3> QED
      BY <3>2, <3>3
  <2> QED
    BY <2>1, <2>2
<1>4. line = front \o rest
  BY <1>1 DEF Received
<1>5. /\ line \in Seq(BOOLEAN) /\ Len(line) \in Nat /\ n <= Len(line)
      /\ \A i \in 1..n : i \in DOMAIN line /\ line[i] = (data[i] \in cam.zeros)
  <2>1. /\ line \in Seq(BOOLEAN) /\ Len(line) = n + Len(rest) /\ Len(rest) \in Nat
        /\ DOMAIN line = 1..Len(line)
    BY <1>2, <1>3, <1>4
  <2>2. \A i \in 1..n : i \in 1..n + Len(rest) /\ line[i] = front[i]
    BY <1>1, <1>2, <1>3, <1>4, <2>1
  <2> QED
    BY <1>1, <1>2, <2>1, <2>2
<1> DEFINE T == {i \in DOMAIN line : line[i]} \cup {Len(line)}
<1> PICK k : k = ToZero(line)
  OBVIOUS
<1>6. k \in T
  <2>1. T \in SUBSET Nat /\ T # {}
    BY <1>5
  <2>2. \E x \in T : \A y \in T : x <= y
    BY <2>1, Least
  <2> QED
    BY <2>2 DEF ToZero, Min
<1>7. k \in Nat \ {0}
  <2>1. DOMAIN line = 1..Len(line) /\ Len(line) \in Nat \ {0}
    BY <1>1, <1>5
  <2> QED
    BY <1>6, <2>1
<1>8. Forwarded(data) = IF data[1] = Http THEN <<Post>>
                        ELSE IF k <= n THEN SubSeq(data, 1, k) ELSE Append(data, Junk)
  BY DEF Forwarded
<1>9. CASE data[1] = Http
  <2>1. <<Post>> \in Seq(Pieces)
    BY PiecesInt
  <2> QED
    BY <1>5, <1>8, <1>9, <2>1
<1>10. CASE data[1] # Http /\ k <= n
  <2>1. k \in 1..n /\ 0 \in 0..n /\ k \in 0..n
    BY <1>1, <1>7, <1>10
  <2>2. SubSeq(data, 0 + 1, k) \in Seq(Pieces) /\ 0 + 1 = 1
    BY <2>1, Cut
  <2>3. k = n \/ data[k] \in cam.zeros
    <3>1. CASE k = Len(line)
      BY <1>1, <1>5, <2>1, <3>1
    <3>2. CASE line[k]
      BY <1>5, <2>1, <3>2
    <3> QED
      BY <1>6, <3>1, <3>2
  <2> QED
    BY <1>5, <1>8, <1>10, <2>1, <2>2, <2>3
<1>11. CASE data[1] # Http /\ ~(k <= n)
  <2>1. Append(data, Junk) \in Seq(Pieces)
    BY PiecesInt, AppendProperties
  <2> QED
    BY <1>5, <1>8, <1>11, <2>1
<1> QED
  BY <1>9, <1>10, <1>11

\* The relay takes the first n of what has come from the camera, and sends
\* what it makes of that on to a server that is there.
Relays(n, data) ==
  /\ n \in 1..Len(cam.up) /\ data = SubSeq(cam.up, 1, n)
  /\ cam' = [cam EXCEPT !.up = SubSeq(cam.up, n + 1, Len(cam.up))]
  /\ IF wire[Camera].end = "up" /\ ~HungUp(Camera)
     THEN wire' = [wire EXCEPT ![Camera].up = @ \o Forwarded(data)]
     ELSE wire' = wire

LEMMA ProcessLocalShape ==
  ASSUME Base, ProcessLocal
  PROVE  /\ relay.pc = "select" /\ UNCHANGED <<pid, lenOk, proc, queue, disk>>
         /\ relay'.pc \in {"select", "process_remote", "close", "dead"}
         /\ relay' \in [pc : {"select", "process_remote", "close", "dead"},
                        line : Seq(BOOLEAN)]
         /\ (\E n, data : Relays(n, data)) \/ (cam' = cam /\ wire' = wire)
<1>1. relay.pc = "select" /\ UNCHANGED <<pid, lenOk, proc, queue, disk>>
  BY DEF ProcessLocal
<1>2. cam.up \in Seq(Pieces) /\ relay.line \in Seq(BOOLEAN)
  BY DEF Base, TypeOK
<1>3. \A failed, readable \in BOOLEAN :
        AfterLocal(failed, readable) \in {"select", "process_remote", "close", "dead"}
  BY DEF AfterLocal
<1>4. PICK readable \in {FALSE, RemoteReadable} :
     \/ \E n \in 1..Len(cam.up) :
          LET data == SubSeq(cam.up, 1, n)
              line == Received(data)
          IN
          /\ cam' = [cam EXCEPT !.up = SubSeq(@, n + 1, Len(@))]
          /\ IF wire[Camera].end = "up" /\ ~HungUp(Camera)
             THEN /\ wire' = [wire EXCEPT ![Camera].up = @ \o Forwarded(data)]
                  /\ relay' = [pc |-> AfterLocal(FALSE, readable), line |-> line]
             ELSE /\ \E label \in {AfterLocal(TRUE, readable), "dead"} :
                       relay' = [pc |-> label, line |-> line]
                  /\ wire' = wire
     \/ /\ cam.up = <<>>
        /\ Step(AfterLocal(TRUE, readable))
        /\ UNCHANGED <<cam, wire>>
  BY DEF ProcessLocal
<1>5. readable \in BOOLEAN
  BY <1>4 DEF RemoteReadable
<1>6. CASE cam.up = << >> /\ Step(AfterLocal(TRUE, readable)) /\ UNCHANGED <<cam, wire>>
  <2> PICK label : label = AfterLocal(TRUE, readable)
    OBVIOUS
  <2>1. label \in {"select", "process_remote", "close", "dead"}
    BY <1>3, <1>5
  <2>2. relay' = [relay EXCEPT !.pc = label]
    BY <1>6 DEF Step
  <2>3. relay \in [pc : {"local", "remote", "get", "select", "process_remote", "close",
                         "done", "dead"}, line : Seq(BOOLEAN)]
    BY DEF Base, TypeOK
  <2> QED
    BY <1>1, <1>6, <2>1, <2>2, <2>3
<1>7. CASE \E n \in 1..Len(cam.up) :
          LET data == SubSeq(cam.up, 1, n)
              line == Received(data)
          IN
          /\ cam' = [cam EXCEPT !.up = SubSeq(@, n + 1, Len(@))]
          /\ IF wire[Camera].end = "up" /\ ~HungUp(Camera)
             THEN /\ wire' = [wire EXCEPT ![Camera].up = @ \o Forwarded(data)]
                  /\ relay' = [pc |-> AfterLocal(FALSE, readable), line |-> line]
             ELSE /\ \E label \in {AfterLocal(TRUE, readable), "dead"} :
                       relay' = [pc |-> label, line |-> line]
                  /\ wire' = wire
  <2>1. PICK n \in 1..Len(cam.up) :
          /\ cam' = [cam EXCEPT !.up = SubSeq(@, n + 1, Len(@))]
          /\ IF wire[Camera].end = "up" /\ ~HungUp(Camera)
             THEN /\ wire' = [wire EXCEPT ![Camera].up = @ \o Forwarded(SubSeq(cam.up, 1, n))]
                  /\ relay' = [pc |-> AfterLocal(FALSE, readable),
                               line |-> Received(SubSeq(cam.up, 1, n))]
             ELSE /\ \E label \in {AfterLocal(TRUE, readable), "dead"} :
                       relay' = [pc |-> label, line |-> Received(SubSeq(cam.up, 1, n))]
                  /\ wire' = wire
    BY <1>7
  <2> PICK data : data = SubSeq(cam.up, 1, n)
    OBVIOUS
  <2>2. data \in Seq(Pieces) /\ data # << >>
    BY <1>2, TakenType
  <2>3. Received(data) \in Seq(BOOLEAN)
    BY <2>2, ForwardedShape
  <2>4. \E label \in {"select", "process_remote", "close", "dead"} :
          relay' = [pc |-> label, line |-> Received(data)]
    BY <1>3, <1>5, <2>1
  <2>5. Relays(n, data)
    BY <2>1 DEF Relays
  <2> QED
    BY <1>1, <2>3, <2>4, <2>5
<1> QED
  BY <1>4, <1>6, <1>7

\* What the steps of the two clients leave alone, and when that is enough.
LEMMA ClientBase ==
  ASSUME Base, UNCHANGED <<pid, lenOk, proc, disk>>,
         cam' \in [end : {"new", "up", "shut"}, sent : -1..MaxPieces, up : Seq(Pieces),
                   zeros : SUBSET Zeros],
         relay' \in [pc : {"local", "remote", "get", "select", "process_remote", "close",
                           "done", "dead"}, line : Seq(BOOLEAN)],
         NEW c \in Clients, NEW w \in Line, wire' = [wire EXCEPT ![c] = w],
         \/ w.end # "new"
         \/ wire[c].end = "new" /\ w.up = << >> /\ w.down = << >>,
         \/ queue' = queue
         \/ queue' = Append(queue, c) /\ w.end # "new"
  PROVE  Base'
<1>1. /\ wire \in [Clients -> Line] /\ queue \in Seq(Clients)
  BY DEF Base, TypeOK, ServerTypeOK, Line
<1>2. wire' \in [Clients -> Line]
  BY <1>1
<1>3. /\ queue' \in Seq(Clients)
      /\ \A k \in Clients : k \in ToSet(queue') => k \in ToSet(queue) \/ (k = c /\ w.end # "new")
  <2>1. CASE queue' = queue
    BY <1>1, <2>1
  <2>2. CASE queue' = Append(queue, c) /\ w.end # "new"
    <3>1. ToSet(Append(queue, c)) = ToSet(queue) \cup {c} /\ Append(queue, c) \in Seq(Clients)
      BY <1>1, AppendedSet, AppendProperties
    <3> QED
      BY <2>2, <3>1
  <2> QED
    BY <2>1, <2>2
<1>4. Fresh'
  <2>1. SUFFICES ASSUME NEW k \in Clients, wire'[k].end = "new"
                 PROVE  /\ wire'[k].up = << >> /\ wire'[k].down = << >>
                        /\ k \notin ToSet(queue')
                        /\ \A q \in Procs : proc'[q].conn # k
    BY DEF Fresh
  <2>2. /\ wire'[k].up = << >> /\ wire'[k].down = << >> /\ wire[k].end = "new"
        /\ ~(k = c /\ w.end # "new")
    BY <1>1, <2>1 DEF Base, Fresh
  <2>3. k \notin ToSet(queue) /\ \A q \in Procs : proc[q].conn # k
    BY <2>2 DEF Base, Fresh
  <2> QED
    BY <1>3, <2>2, <2>3
<1>5. \A p \in Procs : Sound(proc'[p]) /\ proc'[p].pos <= Len(disk'.data)
  BY DEF Base
<1> QED
  BY <1>2, <1>3, <1>4, <1>5 DEF Base, TypeOK, ServerTypeOK, Line, Process, Sound, Serving

LEMMA NoWireBase ==
  ASSUME Base, UNCHANGED <<pid, lenOk, proc, queue, wire, disk>>,
         cam' \in [end : {"new", "up", "shut"}, sent : -1..MaxPieces, up : Seq(Pieces),
                   zeros : SUBSET Zeros],
         relay' \in [pc : {"local", "remote", "get", "select", "process_remote", "close",
                           "done", "dead"}, line : Seq(BOOLEAN)]
  PROVE  Base'
<1>1. Camera \in Clients /\ wire \in [Clients -> Line]
  BY DEF Clients, Base, TypeOK, ServerTypeOK, Line
<1>2. wire[Camera] \in Line /\ wire' = [wire EXCEPT ![Camera] = wire[Camera]]
  BY <1>1
<1>3. \/ wire[Camera].end # "new"
      \/ wire[Camera].end = "new" /\ wire[Camera].up = << >> /\ wire[Camera].down = << >>
  BY <1>1 DEF Base, Fresh
<1> QED
  BY <1>1, <1>2, <1>3, ClientBase

LEMMA RelaysShape ==
  ASSUME Base, NEW n, NEW data, Relays(n, data)
  PROVE  /\ cam' \in [end : {"new", "up", "shut"}, sent : -1..MaxPieces, up : Seq(Pieces),
                      zeros : SUBSET Zeros]
         /\ data \in Seq(Pieces) /\ data # << >> /\ Forwarded(data) \in Seq(Pieces)
         /\ \E w \in Line : /\ wire' = [wire EXCEPT ![Camera] = w]
                            /\ w.end = wire[Camera].end /\ w.down = wire[Camera].down
                            /\ w.up = IF wire[Camera].end = "up" /\ ~HungUp(Camera)
                                      THEN wire[Camera].up \o Forwarded(data)
                                      ELSE wire[Camera].up
<1> PICK u : u = cam.up
  OBVIOUS
<1>1. u \in Seq(Pieces) /\ n \in 1..Len(u) /\ data = SubSeq(u, 1, n)
      /\ cam' = [cam EXCEPT !.up = SubSeq(u, n + 1, Len(u))]
  BY DEF Relays, Base, TypeOK
<1>2. data \in Seq(Pieces) /\ data # << >>
  BY <1>1, TakenType
<1>3. Forwarded(data) \in Seq(Pieces)
  BY <1>2, ForwardedShape
<1>4. SubSeq(u, n + 1, Len(u)) \in Seq(Pieces)
  <2>1. n \in 0..Len(u) /\ Len(u) \in n..Len(u)
    BY <1>1
  <2> QED
    BY <1>1, <2>1, Cut
<1>5. cam' \in [end : {"new", "up", "shut"}, sent : -1..MaxPieces, up : Seq(Pieces),
                zeros : SUBSET Zeros]
  BY <1>1, <1>4 DEF Base, TypeOK
<1>6. /\ wire \in [Clients -> Line] /\ Camera \in Clients /\ wire[Camera] \in Line
      /\ wire[Camera].up \o Forwarded(data) \in Seq(Pieces)
  BY <1>3 DEF Base, TypeOK, ServerTypeOK, Line, Clients
<1>7. CASE wire[Camera].end = "up" /\ ~HungUp(Camera)
  <2> DEFINE w == [wire[Camera] EXCEPT !.up = @ \o Forwarded(data)]
  <2>1. /\ w \in Line /\ w.end = wire[Camera].end /\ w.down = wire[Camera].down
        /\ w.up = wire[Camera].up \o Forwarded(data)
    BY <1>6 DEF Line
  <2>2. wire' = [wire EXCEPT ![Camera] = w]
    BY <1>6, <1>7 DEF Relays
  <2> HIDE DEF w
  <2> QED
    BY <1>2, <1>3, <1>5, <1>7, <2>1, <2>2
<1>8. CASE ~(wire[Camera].end = "up" /\ ~HungUp(Camera))
  <2>1. wire' = [wire EXCEPT ![Camera] = wire[Camera]]
    BY <1>6, <1>8 DEF Relays
  <2> QED
    BY <1>2, <1>3, <1>5, <1>6, <1>8, <2>1
<1> QED
  BY <1>7, <1>8

LEMMA RelayStepBase ==
  ASSUME Base, RelayStep
  PROVE  Base'
<1>1. /\ wire \in [Clients -> Line] /\ Camera \in Clients /\ wire[Camera] \in Line
      /\ relay \in [pc : {"local", "remote", "get", "select", "process_remote", "close",
                          "done", "dead"}, line : Seq(BOOLEAN)]
      /\ cam \in [end : {"new", "up", "shut"}, sent : -1..MaxPieces, up : Seq(Pieces),
                  zeros : SUBSET Zeros]
      /\ 0 \in -1..MaxPieces /\ << >> \in Seq(Pieces) /\ <<Http>> \in Seq(Pieces)
  BY RelayAssumption, PiecesInt DEF Base, TypeOK, ServerTypeOK, Line, Clients
<1>2. \/ wire[Camera].end # "new"
      \/ wire[Camera].end = "new" /\ wire[Camera].up = << >> /\ wire[Camera].down = << >>
  BY <1>1 DEF Base, Fresh
<1>3. CASE InitLocal
  <2>1. /\ cam' \in [end : {"new", "up", "shut"}, sent : -1..MaxPieces, up : Seq(Pieces),
                     zeros : SUBSET Zeros]
        /\ relay' \in [pc : {"local", "remote", "get", "select", "process_remote", "close",
                             "done", "dead"}, line : Seq(BOOLEAN)]
        /\ UNCHANGED <<pid, lenOk, proc, queue, wire, disk>>
    BY <1>1, <1>3 DEF InitLocal, Step, serverVars
  <2> QED
    BY <2>1, NoWireBase
<1>4. CASE HttpGet
  <2>1. /\ cam' \in [end : {"new", "up", "shut"}, sent : -1..MaxPieces, up : Seq(Pieces),
                     zeros : SUBSET Zeros]
        /\ relay' \in [pc : {"local", "remote", "get", "select", "process_remote", "close",
                             "done", "dead"}, line : Seq(BOOLEAN)]
        /\ UNCHANGED <<pid, lenOk, proc, queue, wire, disk>>
    BY <1>1, <1>4 DEF HttpGet, Step, serverVars
  <2> QED
    BY <2>1, NoWireBase
<1>5. CASE InitRemote
  <2>1. /\ UNCHANGED <<pid, lenOk, proc, disk, cam>>
        /\ relay' \in [pc : {"local", "remote", "get", "select", "process_remote", "close",
                             "done", "dead"}, line : Seq(BOOLEAN)]
    BY <1>1, <1>5 DEF InitRemote, Step
  <2>2. CASE wire' = [wire EXCEPT ![Camera].end = "up"] /\ queue' = Append(queue, Camera)
    <3> DEFINE w == [wire[Camera] EXCEPT !.end = "up"]
    <3>1. w \in Line /\ w.end # "new" /\ wire' = [wire EXCEPT ![Camera] = w]
      BY <1>1, <2>2 DEF Line
    <3> HIDE DEF w
    <3> QED
      BY <1>1, <2>1, <2>2, <3>1, ClientBase
  <2>3. CASE UNCHANGED <<wire, queue>>
    BY <1>1, <2>1, <2>3, NoWireBase
  <2> QED
    BY <1>5, <2>2, <2>3 DEF InitRemote, Dial
<1>6. CASE ProcessLocal
  <2>1. /\ UNCHANGED <<pid, lenOk, proc, queue, disk>>
        /\ relay' \in [pc : {"local", "remote", "get", "select", "process_remote", "close",
                             "done", "dead"}, line : Seq(BOOLEAN)]
        /\ (\E n, data : Relays(n, data)) \/ (cam' = cam /\ wire' = wire)
    BY <1>6, ProcessLocalShape
  <2>2. CASE cam' = cam /\ wire' = wire
    BY <1>1, <2>1, <2>2, NoWireBase
  <2>3. CASE \E n, data : Relays(n, data)
    <3>1. PICK n, data : Relays(n, data)
      BY <2>3
    <3>2. PICK w \in Line : /\ wire' = [wire EXCEPT ![Camera] = w]
                            /\ w.end = wire[Camera].end /\ w.down = wire[Camera].down
                            /\ w.up = IF wire[Camera].end = "up" /\ ~HungUp(Camera)
                                      THEN wire[Camera].up \o Forwarded(data)
                                      ELSE wire[Camera].up
      BY <3>1, RelaysShape
    <3>3. \/ w.end # "new"
          \/ wire[Camera].end = "new" /\ w.up = << >> /\ w.down = << >>
      BY <1>2, <3>2
    <3>4. cam' \in [end : {"new", "up", "shut"}, sent : -1..MaxPieces, up : Seq(Pieces),
                    zeros : SUBSET Zeros]
      BY <3>1, RelaysShape
    <3> QED
      BY <1>1, <2>1, <3>2, <3>3, <3>4, ClientBase
  <2> QED
    BY <2>1, <2>2, <2>3
<1>7. CASE ProcessRemote
  <2>1. /\ UNCHANGED <<pid, lenOk, proc, queue, disk, cam>>
        /\ relay' \in [pc : {"local", "remote", "get", "select", "process_remote", "close",
                             "done", "dead"}, line : Seq(BOOLEAN)]
        /\ wire' = wire \/ wire' = [wire EXCEPT ![Camera].down = << >>]
    BY <1>1, <1>7 DEF ProcessRemote, Step
  <2>2. CASE wire' = wire
    BY <1>1, <2>1, <2>2, NoWireBase
  <2>3. CASE wire' = [wire EXCEPT ![Camera].down = << >>]
    <3> DEFINE w == [wire[Camera] EXCEPT !.down = << >>]
    <3>1. /\ w \in Line /\ w.end = wire[Camera].end /\ w.up = wire[Camera].up
          /\ w.down = << >> /\ wire' = [wire EXCEPT ![Camera] = w]
      BY <1>1, <2>3 DEF Line
    <3> HIDE DEF w
    <3>2. \/ w.end # "new"
          \/ wire[Camera].end = "new" /\ w.up = << >> /\ w.down = << >>
      BY <1>2, <3>1
    <3> QED
      BY <1>1, <2>1, <3>1, <3>2, ClientBase
  <2> QED
    BY <2>1, <2>2, <2>3
<1>8. CASE CloseBoth
  <2>1. /\ UNCHANGED <<pid, lenOk, proc, queue, disk, cam>>
        /\ relay' \in [pc : {"local", "remote", "get", "select", "process_remote", "close",
                             "done", "dead"}, line : Seq(BOOLEAN)]
        /\ \/ wire' = wire
           \/ \E e \in {"shut", "reset"} : wire' = [wire EXCEPT ![Camera].end = e]
    BY <1>1, <1>8 DEF CloseBoth, Hang, Step
  <2>2. CASE wire' = wire
    BY <1>1, <2>1, <2>2, NoWireBase
  <2>3. CASE \E e \in {"shut", "reset"} : wire' = [wire EXCEPT ![Camera].end = e]
    <3>1. PICK e \in {"shut", "reset"} : wire' = [wire EXCEPT ![Camera].end = e]
      BY <2>3
    <3> DEFINE w == [wire[Camera] EXCEPT !.end = e]
    <3>2. w \in Line /\ w.end # "new" /\ wire' = [wire EXCEPT ![Camera] = w]
      BY <1>1, <3>1 DEF Line
    <3> HIDE DEF w
    <3> QED
      BY <1>1, <2>1, <3>2, ClientBase
  <2> QED
    BY <2>1, <2>2, <2>3
<1> QED
  BY <1>3, <1>4, <1>5, <1>6, <1>7, <1>8 DEF RelayStep

LEMMA CameraBase ==
  ASSUME Base, CameraSends \/ CameraEnds
  PROVE  Base'
<1>1. cam \in [end : {"new", "up", "shut"}, sent : -1..MaxPieces, up : Seq(Pieces),
               zeros : SUBSET Zeros]
  BY DEF Base, TypeOK
<1>2. cam' \in [end : {"new", "up", "shut"}, sent : -1..MaxPieces, up : Seq(Pieces),
                zeros : SUBSET Zeros]
  <2>1. CASE CameraSends
    <3> PICK n : n = cam.sent + 1
      OBVIOUS
    <3>1. PICK zeros \in SUBSET ({n} \cap Zeros) :
            cam' = [cam EXCEPT !.sent = n, !.up = Append(@, n), !.zeros = @ \cup zeros]
      BY <2>1 DEF CameraSends
    <3>2. n \in 1..MaxPieces /\ n \in -1..MaxPieces
      <4> PICK m : m = cam.sent
        OBVIOUS
      <4>1. m \in -1..MaxPieces /\ m >= 0 /\ m < MaxPieces /\ MaxPieces \in Nat
        BY <1>1, <2>1, RelayAssumption DEF CameraSends
      <4> QED
        BY <4>1
    <3>3. Append(cam.up, n) \in Seq(Pieces)
      BY <1>1, <3>2, PiecesInt, AppendProperties
    <3> QED
      BY <1>1, <3>1, <3>2, <3>3
  <2>2. CASE CameraEnds
    BY <1>1, <2>2 DEF CameraEnds
  <2> QED
    BY <2>1, <2>2
<1>3. UNCHANGED <<pid, lenOk, proc, queue, wire, disk, relay>>
  BY DEF CameraSends, CameraEnds, serverVars
<1> QED
  BY <1>2, <1>3, NoWireBase DEF Base, TypeOK

LEMMA ReaderBase ==
  ASSUME Base, NEW c \in Readers, ReaderAsks(c) \/ ReaderLeaves(c)
  PROVE  Base'
<1>1. /\ wire \in [Clients -> Line] /\ c \in Clients /\ wire[c] \in Line
      /\ <<Get>> \in Seq(Pieces)
  BY PiecesInt DEF Base, TypeOK, ServerTypeOK, Line, Clients
<1>2. UNCHANGED <<pid, lenOk, proc, disk, cam, relay>>
  BY DEF ReaderAsks, ReaderLeaves, clientVars
<1>3. CASE ReaderAsks(c)
  <2> DEFINE w == [wire[c] EXCEPT !.end = "up", !.up = <<Get>>]
  <2>1. w \in Line /\ w.end # "new" /\ wire' = [wire EXCEPT ![c] = w]
        /\ queue' = Append(queue, c)
    BY <1>1, <1>3 DEF ReaderAsks, Line
  <2> HIDE DEF w
  <2> QED
    BY <1>1, <1>2, <2>1, ClientBase DEF Base, TypeOK
<1>4. CASE ReaderLeaves(c)
  <2> DEFINE w == [wire[c] EXCEPT !.end = "shut"]
  <2>1. w \in Line /\ w.end # "new" /\ wire' = [wire EXCEPT ![c] = w] /\ queue' = queue
    BY <1>1, <1>4 DEF ReaderLeaves, Line
  <2> HIDE DEF w
  <2> QED
    BY <1>1, <1>2, <2>1, ClientBase DEF Base, TypeOK
<1> QED
  BY <1>3, <1>4

LEMMA StutterBase == Base /\ UNCHANGED vars => Base'
  BY DEF Base, TypeOK, ServerTypeOK, Fresh, vars, serverVars, clientVars

LEMMA StepBase == Base /\ [Next]_vars => Base'
<1> SUFFICES ASSUME Base, [Next]_vars PROVE Base'
  OBVIOUS
<1>1. CASE \E p \in Procs : ServerStep(p) /\ UNCHANGED clientVars
  BY <1>1, AcceptBase, ServingBase DEF ServerStep
<1>2. CASE Quit /\ UNCHANGED clientVars
  BY <1>2, QuitBase
<1>3. CASE RelayStep \/ CameraSends \/ CameraEnds
  BY <1>3, RelayStepBase, CameraBase
<1>4. CASE \E c \in Readers : ReaderAsks(c) \/ ReaderLeaves(c)
  BY <1>4, ReaderBase
<1> QED
  BY <1>1, <1>2, <1>3, <1>4, StutterBase DEF Next

\* The types, in every reachable state: also that a process serves a client
\* that has connected, and is at most at the end of the file.
THEOREM TypeCorrect == Spec => []TypeOK
<1>1. Spec => []Base
  BY InitBase, StepBase, PTL DEF Spec
<1>2. Base => TypeOK
  BY DEF Base
<1> QED
  BY <1>1, <1>2, PTL

-----------------------------------------------------------------------------
(* What the server has taken.                                              *)

\* Prints, as a cut: t is what is written.
Cuts(p, r, line, t) ==
  /\ t \in Seq(Pieces) /\ disk'.data = disk.data \o t
  /\ proc[p].out \o line = t \o r.out

LEMMA PrintsSplit ==
  ASSUME Base, NEW p \in Procs, NEW r, NEW line, Prints(p, r, line), Sound(r)
  PROVE  \E t : Cuts(p, r, line, t)
<1>1. PICK k, all :
        /\ line \in Seq(Pieces) /\ all = proc[p].out \o line /\ k \in 0..Len(all)
        /\ disk' = [disk EXCEPT !.data = @ \o SubSeq(all, 1, k)]
        /\ r.out = SubSeq(all, k + 1, Len(all))
  BY DEF Prints
<1>2. /\ proc[p].out \in Seq(Pieces) /\ disk \in [made : BOOLEAN, data : Seq(Pieces)]
      /\ all \in Seq(Pieces)
  BY <1>1 DEF Base, TypeOK, ServerTypeOK
<1> PICK t : t = SubSeq(all, 1, k)
  OBVIOUS
<1>3. t \in Seq(Pieces)
  <2>1. 0 \in 0..Len(all) /\ 0 + 1 = 1
    BY <1>2
  <2>2. SubSeq(all, 0 + 1, k) \in Seq(Pieces)
    BY <1>1, <1>2, <2>1, Cut
  <2> QED
    BY <2>1, <2>2
<1>4. disk'.data = disk.data \o t
  BY <1>1, <1>2
<1>5. t \o r.out = all
  <2>1. /\ 1 \in 1..Len(all) + 1 /\ k \in 1 - 1..Len(all) /\ Len(all) \in k..Len(all)
    BY <1>1, <1>2
  <2>2. SubSeq(all, 1, k) \o SubSeq(all, k + 1, Len(all)) = SubSeq(all, 1, Len(all))
    BY <1>2, <2>1, ConcatAdjacentSubSeq
  <2>3. SubSeq(all, 1, Len(all)) = all
    BY <1>2, SubSeqFull
  <2> QED
    BY <1>1, <2>2, <2>3
<1> QED
  BY <1>1, <1>3, <1>4, <1>5 DEF Cuts

LEMMA PrintsAudio ==
  ASSUME Base, NEW p \in Procs, NEW r, NEW line, Prints(p, r, line), Sound(r)
  PROVE  /\ AudioIn(disk.data) \subseteq AudioIn(disk'.data)
         /\ AudioIn(disk'.data) \cup AudioIn(r.out)
              = AudioIn(disk.data) \cup AudioIn(proc[p].out) \cup AudioIn(line)
<1>1. PICK t : Cuts(p, r, line, t)
  BY PrintsSplit
<1>2. /\ proc[p].out \in Seq(Int) /\ disk.data \in Seq(Int) /\ line \in Seq(Int)
      /\ t \in Seq(Int) /\ r.out \in Seq(Int)
  <2>1. line \in Seq(Pieces) /\ t \in Seq(Pieces) /\ r.out \in Seq(Pieces)
    BY <1>1 DEF Prints, Cuts, Sound, Process
  <2>2. proc[p].out \in Seq(Pieces) /\ disk.data \in Seq(Pieces)
    BY DEF Base, TypeOK, ServerTypeOK
  <2> QED
    BY <2>1, <2>2, PiecesSeq
<1>3. AudioIn(disk'.data) = AudioIn(disk.data) \cup AudioIn(t)
  BY <1>1, <1>2, AudioInJoined DEF Cuts
<1>4. AudioIn(proc[p].out) \cup AudioIn(line) = AudioIn(t) \cup AudioIn(r.out)
  <2>1. AudioIn(proc[p].out \o line) = AudioIn(proc[p].out) \cup AudioIn(line)
    BY <1>2, AudioInJoined
  <2>2. AudioIn(t \o r.out) = AudioIn(t) \cup AudioIn(r.out)
    BY <1>2, AudioInJoined
  <2> QED
    BY <1>1, <2>1, <2>2 DEF Cuts
<1> QED
  BY <1>3, <1>4

LEMMA ExitsAudio ==
  ASSUME Base, NEW order, NEW outs, Exits(order, outs)
  PROVE  AudioIn(disk'.data) = AudioIn(disk.data) \cup UNION {AudioIn(proc[p].out) : p \in Running}
<1> PICK t : t = FlattenSeq(outs)
  OBVIOUS
<1>1. t \in Seq(Pieces) /\ disk'.data = disk.data \o t /\ disk.data \in Seq(Pieces)
  BY ExitsType DEF Base, TypeOK, ServerTypeOK
<1>2. AudioIn(disk'.data) = AudioIn(disk.data) \cup AudioIn(t)
  BY <1>1, PiecesSeq, AudioInJoined
<1>3. /\ outs \in Seq(Seq(Pieces)) /\ Len(outs) = Len(order) /\ ToSet(order) = Running
      /\ DOMAIN order = 1..Len(order)
      /\ \A i \in 1..Len(order) : outs[i] = proc[order[i]].out
  BY DEF Exits
<1>4. ToSet(t) = UNION {ToSet(outs[i]) : i \in 1..Len(outs)}
  BY <1>3, FlattenElements
<1>5. ToSet(t) = UNION {ToSet(proc[p].out) : p \in Running}
  <2>1. ASSUME NEW x, NEW i \in 1..Len(outs), x \in ToSet(outs[i])
        PROVE  \E p \in Running : x \in ToSet(proc[p].out)
    <3>1. i \in 1..Len(order) /\ order[i] \in Running
      BY <1>3 DEF ToSet
    <3> QED
      BY <1>3, <2>1, <3>1
  <2>2. ASSUME NEW x, NEW p \in Running, x \in ToSet(proc[p].out)
        PROVE  \E i \in 1..Len(outs) : x \in ToSet(outs[i])
    <3>1. PICK i \in 1..Len(order) : order[i] = p
      BY <1>3, <2>2 DEF ToSet
    <3> QED
      BY <1>3, <2>2, <3>1
  <2> QED
    BY <1>4, <2>1, <2>2
<1>6. AudioIn(t) = UNION {AudioIn(proc[p].out) : p \in Running}
  BY <1>5 DEF AudioIn
<1> QED
  BY <1>2, <1>6

LEMMA KeptIs ==
  Base => Kept = AudioIn(disk.data) \cup (UNION {AudioIn(proc[p].out) : p \in Procs})
<1> SUFFICES ASSUME Base
             PROVE  Kept = AudioIn(disk.data) \cup (UNION {AudioIn(proc[p].out) : p \in Procs})
  OBVIOUS
<1>1. disk.data \in Seq(Int) /\ \A p \in Procs : proc[p].out \in Seq(Int)
  BY PiecesSeq DEF Base, TypeOK, ServerTypeOK
<1>2. ToSet(Audio(disk.data)) = AudioIn(disk.data)
  BY <1>1, AudioSet
<1>3. \A p \in Procs : ToSet(Audio(proc[p].out)) = AudioIn(proc[p].out)
  BY <1>1, AudioSet
<1> QED
  BY <1>2, <1>3 DEF Kept

LEMMA KeptNext ==
  Base' => Kept' = AudioIn(disk'.data) \cup (UNION {AudioIn(proc'[p].out) : p \in Procs})
<1>1. (Base => Kept = AudioIn(disk.data) \cup (UNION {AudioIn(proc[p].out) : p \in Procs}))'
  BY KeptIs, PTL
<1> QED
  BY <1>1 DEF AudioIn

\* A step that touches neither the file nor what is held back.
LEMMA SameKept ==
  ASSUME Base, Base', disk'.data = disk.data,
         \A p \in Procs : proc'[p].out = proc[p].out
  PROVE  Kept' = Kept
<1>1. Kept = AudioIn(disk.data) \cup (UNION {AudioIn(proc[p].out) : p \in Procs})
  BY KeptIs
<1>2. Kept' = AudioIn(disk'.data) \cup (UNION {AudioIn(proc'[p].out) : p \in Procs})
  BY KeptNext
<1> QED
  BY <1>1, <1>2

LEMMA KeptServes ==
  ASSUME Base, Base', NEW p \in Procs, NEW c, NEW r, NEW w, Serves(p, c, r, w),
         disk'.data = disk.data, proc[p].pc # "post", r.out = << >>
  PROVE  Kept' = Kept
<1>1. proc \in [Procs -> Process] /\ proc' = [proc EXCEPT ![p] = r] /\ proc[p].out = << >>
  BY DEF Serves, Base, TypeOK, ServerTypeOK, Process, Sound
<1>2. \A q \in Procs : proc'[q].out = proc[q].out
  BY <1>1
<1> QED
  BY <1>2, SameKept

LEMMA KeptPrints ==
  ASSUME Base, Base', NEW p \in Procs, NEW c, NEW r, NEW w, NEW line,
         Serves(p, c, r, w), Prints(p, r, line)
  PROVE  Kept' = Kept \cup AudioIn(line)
<1>1. proc \in [Procs -> Process] /\ proc' = [proc EXCEPT ![p] = r] /\ Sound(r)
  BY DEF Serves, Base, TypeOK, ServerTypeOK, Process
<1>2. /\ AudioIn(disk.data) \subseteq AudioIn(disk'.data)
      /\ AudioIn(disk'.data) \cup AudioIn(r.out)
           = AudioIn(disk.data) \cup AudioIn(proc[p].out) \cup AudioIn(line)
  BY <1>1, PrintsAudio
<1> DEFINE others == UNION {AudioIn(proc[q].out) : q \in Procs \ {p}}
<1>3. UNION {AudioIn(proc[q].out) : q \in Procs} = AudioIn(proc[p].out) \cup others
  OBVIOUS
<1>4. UNION {AudioIn(proc'[q].out) : q \in Procs} = AudioIn(r.out) \cup others
  <2>1. proc'[p] = r /\ \A q \in Procs \ {p} : proc'[q] = proc[q]
    BY <1>1
  <2> QED
    BY <2>1
<1> HIDE DEF others
<1>5. Kept = AudioIn(disk.data) \cup (AudioIn(proc[p].out) \cup others)
  BY <1>3, KeptIs
<1>6. Kept' = AudioIn(disk'.data) \cup (AudioIn(r.out) \cup others)
  BY <1>4, KeptNext
<1> QED
  BY <1>2, <1>5, <1>6

LEMMA KeptQuit ==
  ASSUME Base, Base', Quit
  PROVE  Kept' = Kept
<1>1. PICK order, outs : Exits(order, outs)
  BY QuitShape
<1>2. AudioIn(disk'.data) = AudioIn(disk.data) \cup UNION {AudioIn(proc[p].out) : p \in Running}
  BY <1>1, ExitsAudio
<1>3. \A p \in Procs : p \in Running \/ proc[p].out = << >>
  BY DEF Running, Base, Sound
<1>4. \A p \in Procs : proc'[p].out = << >>
  <2>1. [Free EXCEPT !.pc = "quit"].out = << >>
    BY DEF Free
  <2> QED
    BY <1>3, <2>1, QuitShape
<1>5. AudioIn(<< >>) = {} /\ Running \subseteq Procs
  BY AudioInEmpty DEF Running
<1>6. UNION {AudioIn(proc'[p].out) : p \in Procs} = {}
  BY <1>4, <1>5
<1>7. UNION {AudioIn(proc[p].out) : p \in Running} = UNION {AudioIn(proc[p].out) : p \in Procs}
  BY <1>3, <1>5
<1>8. Kept' = AudioIn(disk'.data)
  BY <1>6, KeptNext
<1>9. Kept = AudioIn(disk.data) \cup UNION {AudioIn(proc[p].out) : p \in Procs}
  BY KeptIs
<1> QED
  BY <1>2, <1>7, <1>8, <1>9

LEMMA KeptAccept ==
  ASSUME Base, Base', NEW p \in Procs, Accept(p)
  PROVE  Kept' = Kept
<1> PICK c : c = Head(queue)
  OBVIOUS
<1>1. /\ disk' = disk /\ c \in Clients
      /\ \A q \in Procs : \/ proc'[q] = proc[q]
                          \/ /\ proc[q].pc \in {"none", "accept"}
                             /\ proc'[q] \in {Newcomer(c), Accepting}
  BY AcceptShape
<1>2. \A q \in Procs : proc'[q].out = proc[q].out
  BY <1>1, AtFork DEF Base, Sound
<1> QED
  BY <1>1, <1>2, SameKept

\* Only a read of a POST adds to what the server has taken.
LEMMA KeptStep ==
  ASSUME Base, Base', [Next]_vars
  PROVE  \/ Kept' = Kept
         \/ \E p \in Procs : \E line :
              PostRead(p) /\ UNCHANGED clientVars /\ Kept' = Kept \cup AudioIn(line)
<1>1. CASE \E p \in Procs : ServerStep(p) /\ UNCHANGED clientVars
  <2>1. PICK p \in Procs : ServerStep(p) /\ UNCHANGED clientVars
    BY <1>1
  <2>2. CASE Accept(p)
    BY <2>2, KeptAccept
  <2>3. CASE GetClientType(p)
    <3>1. PICK c, r, w, n : /\ Serves(p, c, r, w) /\ disk' = disk
                            /\ proc[p].pc = "type" /\ r.out = << >>
      BY <2>3, GetClientTypeShape
    <3> QED
      BY <3>1, KeptServes
  <2>4. CASE Answer(p)
    <3>1. PICK c, r, w, data : /\ Serves(p, c, r, w) /\ disk'.data = disk.data
                               /\ proc[p].pc = "answer" /\ r.out = << >>
      BY <2>4, AnswerShape
    <3> QED
      BY <3>1, KeptServes
  <2>5. CASE PostRead(p)
    <3>1. PICK c, r, w, n, line : Serves(p, c, r, w) /\ Prints(p, r, line)
      BY <2>5, PostReadShape
    <3> QED
      BY <2>1, <2>5, <3>1, KeptPrints
  <2>6. CASE GetWrite(p)
    <3>1. PICK c, r, w, data : /\ Serves(p, c, r, w) /\ disk' = disk
                               /\ proc[p].pc = "get" /\ r.out = << >>
      BY <2>6, GetWriteShape
    <3> QED
      BY <3>1, KeptServes
  <2> QED
    BY <2>1, <2>2, <2>3, <2>4, <2>5, <2>6 DEF ServerStep
<1>2. CASE Quit
  BY <1>2, KeptQuit
<1>3. CASE RelayStep \/ CameraSends \/ CameraEnds
  <2>1. UNCHANGED <<proc, disk>>
    BY <1>3 DEF RelayStep, InitLocal, InitRemote, HttpGet, ProcessLocal, ProcessRemote,
                CloseBoth, CameraSends, CameraEnds, serverVars
  <2> QED
    BY <2>1, SameKept
<1>4. CASE \E c \in Readers : ReaderAsks(c) \/ ReaderLeaves(c)
  <2>1. UNCHANGED <<proc, disk>>
    BY <1>4 DEF ReaderAsks, ReaderLeaves
  <2> QED
    BY <2>1, SameKept
<1>5. CASE UNCHANGED vars
  <2>1. UNCHANGED <<proc, disk>>
    BY <1>5 DEF vars, serverVars
  <2> QED
    BY <2>1, SameKept
<1> QED
  BY <1>1, <1>2, <1>3, <1>4, <1>5 DEF Next

\* Audio the server has taken is never lost to the end of a process, whichever
\* way it ends, with any number of processes and any block.
THEOREM TakenIsKept == Spec => NothingLost
<1>1. Base /\ Base' /\ [Next]_vars => Kept \subseteq Kept'
  BY KeptStep, Zenon
<1>2. Base /\ [Next]_vars => Base'
  BY StepBase
<1>3. Base /\ [Next]_vars => [Kept \subseteq Kept']_vars
  BY <1>1, <1>2
<1> QED
  BY <1>3, InitBase, StepBase, PTL DEF Spec, NothingLost

-----------------------------------------------------------------------------
(* Who has which connection.                                               *)

\* A connection that waits is nobody's, and nothing has been sent on it.
Waiting ==
  /\ IsInjective(queue)
  /\ \A c \in ToSet(queue) : /\ wire[c].down = << >>
                             /\ \A p \in Procs : proc[p].conn # c

OneServes ==
  pid = 0 => \A p, q \in Procs :
    proc[p].pc \in Serving /\ proc[p].conn = proc[q].conn => p = q

\* The relay connects once, and closes when it is done.
Dialled ==
  /\ relay.pc \in {"local", "remote"} => wire[Camera].end = "new"
  /\ wire[Camera].end \in {"shut", "reset"} => relay.pc = "done"

\* The camera sends nothing before it is asked.
Asked ==
  /\ relay.pc \in {"local", "remote", "get"} => cam.sent = -1
  /\ cam.sent = -1 => cam.up = << >>
  /\ cam.zeros \subseteq 1..cam.sent

Conn == Waiting /\ OneServes /\ Dialled /\ Asked

\* What the steps of the clients do to a connection: data is read or the
\* client leaves, it connects, or the relay sends something on.
Attends(c, w) ==
  /\ c \in Clients /\ w \in Line /\ wire' = [wire EXCEPT ![c] = w]
  /\ \/ /\ queue' = queue /\ w.up = wire[c].up
        /\ w.down = wire[c].down \/ (c = Camera /\ w.down = << >>)
        /\ \/ w.end = wire[c].end
           \/ /\ wire[c].end = "up" /\ w.end \in {"shut", "reset"}
              /\ c \in Readers \/ relay'.pc = "done"
     \/ /\ queue' = Append(queue, c) /\ wire[c].end = "new" /\ w.end = "up"
        /\ w.down = << >> /\ w.up \in {<< >>, <<Get>>}
        /\ c = Camera => relay.pc = "remote"
     \/ /\ c = Camera /\ relay.pc = "select" /\ queue' = queue
        /\ w.end = wire[c].end /\ w.down = wire[c].down
        /\ \E n, data :
             /\ Relays(n, data)
             /\ w.up = IF wire[Camera].end = "up" /\ ~HungUp(Camera)
                       THEN wire[Camera].up \o Forwarded(data) ELSE wire[Camera].up

\* Only a read by the relay, the question it asks and what the camera sends
\* change the camera's stream.
Speaks ==
  \/ UNCHANGED <<cam.up, cam.sent, cam.zeros>>
  \/ relay.pc = "select" /\ \E n, data : Relays(n, data)
  \/ /\ relay.pc = "get" /\ wire' = wire
     /\ cam'.up = <<Http>> /\ cam'.sent = 0 /\ cam'.zeros = cam.zeros
  \/ /\ cam.sent >= 0 /\ wire' = wire
     /\ cam'.sent = cam.sent + 1 /\ cam'.up = Append(cam.up, cam.sent + 1)
     /\ cam'.zeros \subseteq cam.zeros \cup {cam.sent + 1} /\ cam.zeros \subseteq cam'.zeros

LEMMA SameWire ==
  ASSUME Base, wire' = wire, queue' = queue
  PROVE  \E c, w : Attends(c, w)
<1>1. Camera \in Clients /\ wire \in [Clients -> Line]
  BY DEF Clients, Base, TypeOK, ServerTypeOK, Line
<1>2. wire[Camera] \in Line /\ wire' = [wire EXCEPT ![Camera] = wire[Camera]]
  BY <1>1
<1>3. Attends(Camera, wire[Camera])
  BY <1>1, <1>2 DEF Attends
<1> QED
  BY <1>3

LEMMA ReaderShape ==
  ASSUME Base, NEW c \in Readers, ReaderAsks(c) \/ ReaderLeaves(c)
  PROVE  /\ UNCHANGED <<pid, lenOk, proc, disk, cam, relay>>
         /\ \E w : Attends(c, w)
<1>1. /\ wire \in [Clients -> Line] /\ c \in Clients /\ wire[c] \in Line
      /\ <<Get>> \in Seq(Pieces) /\ c # Camera
  BY PiecesInt, RelayAssumption DEF Base, TypeOK, ServerTypeOK, Line, Clients
<1>2. UNCHANGED <<pid, lenOk, proc, disk, cam, relay>>
  BY DEF ReaderAsks, ReaderLeaves, clientVars
<1>3. CASE ReaderAsks(c)
  <2> DEFINE w == [wire[c] EXCEPT !.end = "up", !.up = <<Get>>]
  <2>1. wire[c].down = << >> /\ wire[c].end = "new"
    BY <1>1, <1>3 DEF ReaderAsks, Base, Fresh
  <2>2. w \in Line /\ w.end = "up" /\ w.down = << >> /\ w.up = <<Get>>
        /\ wire' = [wire EXCEPT ![c] = w] /\ queue' = Append(queue, c)
    BY <1>1, <1>3, <2>1 DEF ReaderAsks, Line
  <2> HIDE DEF w
  <2>3. Attends(c, w)
    BY <1>1, <2>1, <2>2 DEF Attends
  <2> QED
    BY <1>2, <2>3
<1>4. CASE ReaderLeaves(c)
  <2> DEFINE w == [wire[c] EXCEPT !.end = "shut"]
  <2>1. /\ w \in Line /\ w.end = "shut" /\ w.down = wire[c].down /\ w.up = wire[c].up
        /\ wire' = [wire EXCEPT ![c] = w] /\ queue' = queue /\ wire[c].end = "up"
    BY <1>1, <1>4 DEF ReaderLeaves, Line
  <2> HIDE DEF w
  <2>2. Attends(c, w)
    BY <1>1, <2>1 DEF Attends
  <2> QED
    BY <1>2, <2>2
<1> QED
  BY <1>3, <1>4

LEMMA CameraShape ==
  ASSUME Base, CameraSends \/ CameraEnds
  PROVE  /\ UNCHANGED <<pid, lenOk, proc, disk, wire, queue, relay>>
         /\ Speaks
<1>1. UNCHANGED <<pid, lenOk, proc, disk, wire, queue, relay>>
  BY DEF CameraSends, CameraEnds, serverVars
<1>2. cam \in [end : {"new", "up", "shut"}, sent : -1..MaxPieces, up : Seq(Pieces),
               zeros : SUBSET Zeros]
  BY DEF Base, TypeOK
<1>3. CASE CameraSends
  <2> PICK n : n = cam.sent + 1
    OBVIOUS
  <2>1. PICK zeros \in SUBSET ({n} \cap Zeros) :
          cam' = [cam EXCEPT !.sent = n, !.up = Append(@, n), !.zeros = @ \cup zeros]
    BY <1>3 DEF CameraSends
  <2>2. /\ cam'.sent = n /\ cam'.up = Append(cam.up, n) /\ cam'.zeros = cam.zeros \cup zeros
        /\ cam.sent >= 0
    BY <1>2, <1>3, <2>1 DEF CameraSends
  <2> QED
    BY <1>1, <2>1, <2>2 DEF Speaks
<1>4. CASE CameraEnds
  <2>1. cam'.up = cam.up /\ cam'.sent = cam.sent /\ cam'.zeros = cam.zeros
    BY <1>2, <1>4 DEF CameraEnds
  <2> QED
    BY <1>1, <2>1 DEF Speaks
<1> QED
  BY <1>3, <1>4

LEMMA RelayShape ==
  ASSUME Base, Dialled, RelayStep
  PROVE  /\ UNCHANGED <<pid, lenOk, proc, disk>>
         /\ Speaks
         /\ \E w : Attends(Camera, w)
<1>1. /\ wire \in [Clients -> Line] /\ Camera \in Clients /\ wire[Camera] \in Line
      /\ relay \in [pc : {"local", "remote", "get", "select", "process_remote", "close",
                          "done", "dead"}, line : Seq(BOOLEAN)]
      /\ cam \in [end : {"new", "up", "shut"}, sent : -1..MaxPieces, up : Seq(Pieces),
                  zeros : SUBSET Zeros]
      /\ << >> \in Seq(Pieces)
  BY DEF Base, TypeOK, ServerTypeOK, Line, Clients
<1>2. ASSUME wire' = wire, queue' = queue
      PROVE  \E w : Attends(Camera, w)
  <2>1. Attends(Camera, wire[Camera])
    BY <1>1, <1>2 DEF Attends
  <2> QED
    BY <2>1
<1>3. CASE InitLocal
  <2>1. /\ UNCHANGED <<pid, lenOk, proc, disk, wire, queue>>
        /\ cam'.up = cam.up /\ cam'.sent = cam.sent /\ cam'.zeros = cam.zeros
    BY <1>1, <1>3 DEF InitLocal, serverVars
  <2> QED
    BY <1>2, <2>1 DEF Speaks
<1>4. CASE InitRemote
  <2>1. UNCHANGED <<pid, lenOk, proc, disk, cam>> /\ relay.pc = "remote"
    BY <1>4 DEF InitRemote
  <2>2. CASE wire' = [wire EXCEPT ![Camera].end = "up"] /\ queue' = Append(queue, Camera)
    <3> DEFINE w == [wire[Camera] EXCEPT !.end = "up"]
    <3>1. wire[Camera].end = "new" /\ wire[Camera].down = << >> /\ wire[Camera].up = << >>
      BY <1>1, <2>1 DEF Dialled, Base, Fresh
    <3>2. /\ w \in Line /\ w.end = "up" /\ w.down = << >> /\ w.up = << >>
          /\ wire' = [wire EXCEPT ![Camera] = w]
      BY <1>1, <2>2, <3>1 DEF Line
    <3> HIDE DEF w
    <3>3. Attends(Camera, w)
      BY <1>1, <2>1, <2>2, <3>1, <3>2 DEF Attends
    <3> QED
      BY <2>1, <3>3 DEF Speaks
  <2>3. CASE UNCHANGED <<wire, queue>>
    BY <1>2, <2>1, <2>3 DEF Speaks
  <2> QED
    BY <1>4, <2>2, <2>3 DEF InitRemote, Dial
<1>5. CASE HttpGet
  <2>1. UNCHANGED <<pid, lenOk, proc, disk, wire, queue>> /\ relay.pc = "get"
    BY <1>5 DEF HttpGet, serverVars
  <2>2. \/ cam' = cam
        \/ cam' = [cam EXCEPT !.sent = 0, !.up = <<Http>>]
    BY <1>5 DEF HttpGet
  <2>3. \/ cam'.up = cam.up /\ cam'.sent = cam.sent /\ cam'.zeros = cam.zeros
        \/ cam'.up = <<Http>> /\ cam'.sent = 0 /\ cam'.zeros = cam.zeros
    BY <1>1, <2>2
  <2> QED
    BY <1>2, <2>1, <2>3 DEF Speaks
<1>6. CASE ProcessLocal
  <2>1. /\ UNCHANGED <<pid, lenOk, proc, queue, disk>> /\ relay.pc = "select"
        /\ (\E n, data : Relays(n, data)) \/ (cam' = cam /\ wire' = wire)
    BY <1>6, ProcessLocalShape
  <2>2. CASE cam' = cam /\ wire' = wire
    BY <1>2, <2>1, <2>2 DEF Speaks
  <2>3. CASE \E n, data : Relays(n, data)
    <3>1. PICK n, data : Relays(n, data)
      BY <2>3
    <3>2. PICK w \in Line : /\ wire' = [wire EXCEPT ![Camera] = w]
                            /\ w.end = wire[Camera].end /\ w.down = wire[Camera].down
                            /\ w.up = IF wire[Camera].end = "up" /\ ~HungUp(Camera)
                                      THEN wire[Camera].up \o Forwarded(data)
                                      ELSE wire[Camera].up
      BY <3>1, RelaysShape
    <3>3. Attends(Camera, w)
      BY <1>1, <2>1, <3>1, <3>2 DEF Attends
    <3> QED
      BY <2>1, <2>3, <3>3 DEF Speaks
  <2> QED
    BY <2>1, <2>2, <2>3
<1>7. CASE ProcessRemote
  <2>1. /\ UNCHANGED <<pid, lenOk, proc, queue, disk, cam>>
        /\ wire' = wire \/ wire' = [wire EXCEPT ![Camera].down = << >>]
    BY <1>7 DEF ProcessRemote
  <2>2. CASE wire' = wire
    BY <1>2, <2>1, <2>2 DEF Speaks
  <2>3. CASE wire' = [wire EXCEPT ![Camera].down = << >>]
    <3> DEFINE w == [wire[Camera] EXCEPT !.down = << >>]
    <3>1. /\ w \in Line /\ w.end = wire[Camera].end /\ w.up = wire[Camera].up
          /\ w.down = << >> /\ wire' = [wire EXCEPT ![Camera] = w]
      BY <1>1, <2>3 DEF Line
    <3> HIDE DEF w
    <3>2. Attends(Camera, w)
      BY <1>1, <2>1, <3>1 DEF Attends
    <3> QED
      BY <2>1, <3>2 DEF Speaks
  <2> QED
    BY <2>1, <2>2, <2>3
<1>8. CASE CloseBoth
  <2>1. /\ UNCHANGED <<pid, lenOk, proc, queue, disk, cam>> /\ relay'.pc = "done"
        /\ \/ wire' = wire
           \/ /\ wire[Camera].end = "up"
              /\ \E e \in {"shut", "reset"} : wire' = [wire EXCEPT ![Camera].end = e]
    BY <1>1, <1>8 DEF CloseBoth, Hang, Step
  <2>2. CASE wire' = wire
    BY <1>2, <2>1, <2>2 DEF Speaks
  <2>3. CASE /\ wire[Camera].end = "up"
             /\ \E e \in {"shut", "reset"} : wire' = [wire EXCEPT ![Camera].end = e]
    <3>1. PICK e \in {"shut", "reset"} : wire' = [wire EXCEPT ![Camera].end = e]
      BY <2>3
    <3> DEFINE w == [wire[Camera] EXCEPT !.end = e]
    <3>2. /\ w \in Line /\ w.end = e /\ wire' = [wire EXCEPT ![Camera] = w]
          /\ w.up = wire[Camera].up /\ w.down = wire[Camera].down
      BY <1>1, <3>1 DEF Line
    <3> HIDE DEF w
    <3>3. Attends(Camera, w)
      BY <1>1, <2>1, <2>3, <3>2 DEF Attends
    <3> QED
      BY <2>1, <3>3 DEF Speaks
  <2> QED
    BY <2>1, <2>2, <2>3
<1> QED
  BY <1>3, <1>4, <1>5, <1>6, <1>7, <1>8 DEF RelayStep

\* A step is one of a process that serves, of accept(), of SIGINT, or of a
\* client.
Clientele == RelayStep \/ CameraSends \/ CameraEnds
             \/ \E c \in Readers : ReaderAsks(c) \/ ReaderLeaves(c)

LEMMA ClientShape ==
  ASSUME Base, Dialled, Clientele
  PROVE  /\ UNCHANGED <<pid, lenOk, proc, disk>>
         /\ Speaks
         /\ \E c, w : Attends(c, w)
<1>1. CASE RelayStep
  BY <1>1, RelayShape
<1>2. CASE CameraSends \/ CameraEnds
  BY <1>2, CameraShape, SameWire
<1>3. CASE \E c \in Readers : ReaderAsks(c) \/ ReaderLeaves(c)
  <2>1. UNCHANGED <<pid, lenOk, proc, disk, cam, relay>> /\ \E c, w : Attends(c, w)
    BY <1>3, ReaderShape
  <2> QED
    BY <2>1 DEF Speaks
<1> QED
  BY <1>1, <1>2, <1>3 DEF Clientele

LEMMA InitConn == Init => Conn
<1> SUFFICES ASSUME Init PROVE Conn
  OBVIOUS
<1>1. /\ queue = << >> /\ wire = [c \in Clients |-> [end |-> "new", up |-> << >>, down |-> << >>]]
      /\ proc = [p \in Procs |-> IF p = Main THEN [Free EXCEPT !.pc = "accept"] ELSE Free]
      /\ cam = [end |-> "new", sent |-> -1, up |-> << >>, zeros |-> {}]
      /\ relay.pc = "local" /\ Camera \in Clients
  BY DEF Init, Clients
<1>2. Waiting
  <2>1. ToSet(<< >>) = {} /\ IsInjective(<< >>)
    BY DEF ToSet, IsInjective
  <2> QED
    BY <1>1, <2>1 DEF Waiting
<1>3. OneServes
  BY <1>1 DEF OneServes, Free, Serving
<1>4. Dialled /\ Asked
  BY <1>1 DEF Dialled, Asked
<1> QED
  BY <1>2, <1>3, <1>4 DEF Conn

LEMMA ServesConn ==
  ASSUME Base, Conn, NEW p \in Procs, NEW c, NEW r, NEW w, Serves(p, c, r, w),
         UNCHANGED clientVars
  PROVE  Conn'
<1>1. /\ proc \in [Procs -> Process] /\ wire \in [Clients -> Line] /\ queue \in Seq(Clients)
      /\ NoClient \notin Clients /\ Camera \in Clients
  BY RelayAssumption DEF Base, TypeOK, ServerTypeOK, Process, Line, Clients
<1>2. /\ c \in Clients /\ c = proc[p].conn /\ proc[p].pc \in Serving
      /\ proc' = [proc EXCEPT ![p] = r] /\ wire' = [wire EXCEPT ![c] = w]
      /\ pid' = pid /\ queue' = queue /\ cam' = cam /\ relay' = relay
      /\ r.conn \in {c, NoClient} /\ (r.pc \in Serving => r.conn = c)
      /\ w.end = wire[c].end \/ (wire[c].end = "shut" /\ w.end = "reset")
  BY DEF Serves, Sound, clientVars
<1>3. Waiting'
  <2>1. ASSUME NEW k \in ToSet(queue)
        PROVE  wire'[k].down = << >> /\ \A q \in Procs : proc'[q].conn # k
    <3>1. /\ wire[k].down = << >> /\ \A q \in Procs : proc[q].conn # k
          /\ k # c /\ k \in Clients
      BY <1>1, <1>2, <2>1 DEF Conn, Waiting, ToSet
    <3>2. wire'[k] = wire[k]
      BY <1>1, <1>2, <3>1
    <3>3. ASSUME NEW q \in Procs PROVE proc'[q].conn # k
      BY <1>1, <1>2, <3>1
    <3> QED
      BY <3>1, <3>2, <3>3
  <2> QED
    BY <1>2, <2>1 DEF Conn, Waiting
<1>4. OneServes'
  <2> SUFFICES ASSUME pid = 0, NEW a \in Procs, NEW b \in Procs,
                      proc'[a].pc \in Serving, proc'[a].conn = proc'[b].conn
               PROVE  a = b
    BY <1>2 DEF OneServes
  <2>1. \A x \in Procs : /\ proc'[x].pc \in Serving => proc[x].pc \in Serving
                         /\ proc'[x].conn \in {proc[x].conn, NoClient}
                         /\ proc'[x].pc \in Serving => proc'[x].conn = proc[x].conn
    BY <1>1, <1>2
  <2>2. proc[a].conn \in Clients
    BY <2>1 DEF Base, Sound
  <2>3. proc'[b].conn = proc[b].conn
    BY <1>1, <2>1, <2>2
  <2> QED
    BY <2>1, <2>3 DEF Conn, OneServes
<1>5. Dialled'
  <2>1. wire[Camera].end = "new" => c # Camera
    BY <1>2 DEF Base, Fresh
  <2>2. \/ wire'[Camera].end = wire[Camera].end
        \/ wire[Camera].end = "shut" /\ wire'[Camera].end = "reset"
    BY <1>1, <1>2
  <2> QED
    BY <1>2, <2>2 DEF Conn, Dialled
<1>6. Asked'
  BY <1>2 DEF Conn, Asked
<1> QED
  BY <1>3, <1>4, <1>5, <1>6 DEF Conn

LEMMA ServingConn ==
  ASSUME Base, Conn, NEW p \in Procs, UNCHANGED clientVars,
         GetClientType(p) \/ Answer(p) \/ PostRead(p) \/ GetWrite(p)
  PROVE  Conn'
<1>1. \E c, r, w : Serves(p, c, r, w)
  BY GetClientTypeShape, AnswerShape, PostReadShape, GetWriteShape
<1> QED
  BY <1>1, ServesConn

LEMMA AcceptConn ==
  ASSUME Base, Conn, NEW p \in Procs, Accept(p), UNCHANGED clientVars
  PROVE  Conn'
<1> PICK c : c = Head(queue)
  OBVIOUS
<1>1. /\ c \in Clients /\ c \in ToSet(queue) /\ queue' = Tail(queue) /\ queue # << >>
      /\ pid' = pid /\ wire' = wire /\ cam' = cam /\ relay' = relay
      /\ \A q \in Procs : \/ proc'[q] = proc[q]
                          \/ /\ proc[q].pc \in {"none", "accept"}
                             /\ proc'[q] \in {Newcomer(c), Accepting}
      /\ pid = 0 => \A q \in Procs \ {p} : proc'[q] \in {proc[q], Accepting}
  BY AcceptShape DEF clientVars
<1>2. /\ queue \in Seq(Clients) /\ NoClient \notin Clients
      /\ Newcomer(c).conn = c /\ Accepting.conn = NoClient /\ Accepting.pc = "accept"
  BY <1>1, AtFork, RelayAssumption DEF Base, TypeOK, ServerTypeOK
<1>3. /\ c \notin ToSet(Tail(queue)) /\ Tail(queue) \in Seq(Clients)
      /\ IsInjective(Tail(queue)) /\ ToSet(Tail(queue)) \subseteq ToSet(queue)
      /\ ToSet(queue) \subseteq Clients
  <2>1. ToSet(queue) \subseteq Clients
    BY <1>2 DEF ToSet
  <2> QED
    BY <1>1, <1>2, <2>1, TailQueue DEF Conn, Waiting
<1>4. Waiting'
  <2>1. ASSUME NEW k \in ToSet(Tail(queue)), NEW q \in Procs
        PROVE  proc'[q].conn # k
    <3>1. k # c /\ k \in Clients /\ proc[q].conn # k
      BY <1>3, <2>1 DEF Conn, Waiting
    <3> QED
      BY <1>1, <1>2, <3>1
  <2> QED
    BY <1>1, <1>3, <2>1 DEF Conn, Waiting
<1>5. OneServes'
  <2> SUFFICES ASSUME pid = 0, NEW a \in Procs, NEW b \in Procs,
                      proc'[a].pc \in Serving, proc'[a].conn = proc'[b].conn
               PROVE  a = b
    BY <1>1 DEF OneServes
  <2>1. \A x \in Procs : proc[x].conn # c
    BY <1>1 DEF Conn, Waiting
  <2>2. \A x \in Procs : x = p \/ proc'[x] = proc[x] \/ proc'[x] = Accepting
    BY <1>1
  <2>3. proc'[p] = proc[p] \/ proc'[p] \in {Newcomer(c), Accepting}
    BY <1>1
  <2>4. proc'[a] # Accepting /\ (proc'[a] = proc[a] \/ (a = p /\ proc'[a] = Newcomer(c)))
    BY <1>2, <2>2, <2>3 DEF Serving
  <2>5. CASE proc'[a] = proc[a]
    <3>1. proc[a].conn \in Clients
      BY <2>5 DEF Base, Sound
    <3>2. proc'[b] # Accepting /\ proc'[b] # Newcomer(c)
      BY <1>2, <2>1, <2>5, <3>1
    <3>3. proc'[b] = proc[b]
      BY <2>2, <2>3, <3>2
    <3> QED
      BY <2>5, <3>3 DEF Conn, OneServes
  <2>6. CASE a = p /\ proc'[a] = Newcomer(c)
    <3>1. proc'[b].conn = c
      BY <1>2, <2>6
    <3> QED
      BY <1>1, <1>2, <2>1, <2>2, <2>6, <3>1
  <2> QED
    BY <2>4, <2>5, <2>6
<1>6. Dialled' /\ Asked'
  BY <1>1 DEF Conn, Dialled, Asked
<1> QED
  BY <1>4, <1>5, <1>6 DEF Conn

LEMMA QuitConn ==
  ASSUME Base, Conn, Quit, UNCHANGED clientVars
  PROVE  Conn'
<1>1. /\ pid' = pid /\ wire' = wire /\ queue' = queue /\ cam' = cam /\ relay' = relay
      /\ \A p \in Procs : proc'[p] \in {[Free EXCEPT !.pc = "quit"], proc[p]}
  BY QuitShape DEF clientVars
<1>2. /\ [Free EXCEPT !.pc = "quit"].conn = NoClient
      /\ [Free EXCEPT !.pc = "quit"].pc = "quit" /\ NoClient \notin Clients
      /\ ToSet(queue) \subseteq Clients
  BY RelayAssumption DEF Free, Base, TypeOK, ServerTypeOK, ToSet
<1>3. Waiting'
  <2>1. \A k \in ToSet(queue), q \in Procs : proc'[q].conn # k
    BY <1>1, <1>2 DEF Conn, Waiting
  <2> QED
    BY <1>1, <2>1 DEF Conn, Waiting
<1>4. OneServes'
  <2> SUFFICES ASSUME pid = 0, NEW a \in Procs, NEW b \in Procs,
                      proc'[a].pc \in Serving, proc'[a].conn = proc'[b].conn
               PROVE  a = b
    BY <1>1 DEF OneServes
  <2>1. proc'[a] = proc[a] /\ proc[a].conn \in Clients
    BY <1>1, <1>2 DEF Serving, Base, Sound
  <2>2. proc'[b] = proc[b]
    BY <1>1, <1>2, <2>1
  <2> QED
    BY <2>1, <2>2 DEF Conn, OneServes
<1>5. Dialled' /\ Asked'
  BY <1>1 DEF Conn, Dialled, Asked
<1> QED
  BY <1>3, <1>4, <1>5 DEF Conn

\* The relay goes through its stages once.
LEMMA RelayStages ==
  ASSUME Base, RelayStep
  PROVE  /\ relay.pc # "done"
         /\ relay'.pc \in {"local", "remote"} => relay.pc = "local" /\ wire' = wire
         /\ relay'.pc \in {"local", "remote", "get"} =>
              relay.pc \in {"local", "remote"} /\ cam'.sent = cam.sent
<1>1. /\ relay \in [pc : {"local", "remote", "get", "select", "process_remote", "close",
                          "done", "dead"}, line : Seq(BOOLEAN)]
      /\ cam \in [end : {"new", "up", "shut"}, sent : -1..MaxPieces, up : Seq(Pieces),
                  zeros : SUBSET Zeros]
  BY DEF Base, TypeOK
<1>2. CASE InitLocal
  BY <1>1, <1>2 DEF InitLocal, Step, serverVars
<1>3. CASE InitRemote
  BY <1>1, <1>3 DEF InitRemote, Step
<1>4. CASE HttpGet
  BY <1>1, <1>4 DEF HttpGet, Step
<1>5. CASE ProcessLocal
  <2>1. relay.pc = "select" /\ relay'.pc \in {"select", "process_remote", "close", "dead"}
    BY <1>5, ProcessLocalShape
  <2> QED
    BY <2>1
<1>6. CASE ProcessRemote
  <2>1. relay.pc # "done" /\ (Step("select") \/ Step("close"))
    BY <1>6 DEF ProcessRemote
  <2>2. relay'.pc \in {"select", "close"}
    BY <1>1, <2>1 DEF Step
  <2> QED
    BY <2>1, <2>2
<1>7. CASE CloseBoth
  BY <1>1, <1>7 DEF CloseBoth, Step
<1> QED
  BY <1>2, <1>3, <1>4, <1>5, <1>6, <1>7 DEF RelayStep

LEMMA AttendsConn ==
  ASSUME Base, Conn, UNCHANGED <<pid, proc>>, NEW c, NEW w, Attends(c, w)
  PROVE  Waiting' /\ OneServes'
<1>1. /\ c \in Clients /\ w \in Line /\ wire' = [wire EXCEPT ![c] = w]
      /\ wire \in [Clients -> Line] /\ queue \in Seq(Clients)
  BY DEF Attends, Base, TypeOK, ServerTypeOK, Line
<1>2. OneServes'
  BY DEF Conn, OneServes
<1>3. CASE queue' = queue /\ w.down \in {wire[c].down, << >>}
  <2>1. ASSUME NEW k \in ToSet(queue)
        PROVE  wire'[k].down = << >> /\ \A p \in Procs : proc'[p].conn # k
    <3>1. k \in Clients
      BY <1>1 DEF ToSet
    <3>2. wire[k].down = << >> /\ \A p \in Procs : proc[p].conn # k
      BY DEF Conn, Waiting
    <3>3. wire'[k] = IF k = c THEN w ELSE wire[k]
      BY <1>1, <3>1
    <3> QED
      BY <1>3, <3>2, <3>3
  <2> QED
    BY <1>2, <1>3, <2>1 DEF Conn, Waiting
<1>4. CASE queue' = Append(queue, c) /\ wire[c].end = "new" /\ w.down = << >>
  <2>1. c \notin ToSet(queue) /\ \A p \in Procs : proc[p].conn # c
    BY <1>1, <1>4 DEF Base, Fresh
  <2>2. IsInjective(queue') /\ ToSet(queue') = ToSet(queue) \cup {c}
    BY <1>1, <1>4, <2>1, AppendQueue DEF Conn, Waiting
  <2>3. \A k \in ToSet(queue) : k # c /\ wire'[k] = wire[k]
    BY <1>1, <2>1 DEF ToSet
  <2>4. wire'[c].down = << >>
    BY <1>1, <1>4
  <2> QED
    BY <1>2, <2>1, <2>2, <2>3, <2>4 DEF Conn, Waiting
<1> QED
  BY <1>2, <1>3, <1>4 DEF Attends, Waiting

LEMMA ClientAsked ==
  ASSUME Base, Conn, Clientele
  PROVE  Asked'
<1> PICK n : n = cam.sent
  OBVIOUS
<1>1. /\ n \in Int /\ n >= -1 /\ cam.zeros \subseteq 1..n /\ (n = -1 => cam.up = << >>)
      /\ relay.pc \in {"local", "remote", "get"} => n = -1
  BY RelayAssumption DEF Conn, Asked, Base, TypeOK
<1>2. relay'.pc \in {"local", "remote", "get"} => cam'.sent = -1
  <2>1. CASE RelayStep
    BY <1>1, <2>1, RelayStages
  <2>2. CASE CameraSends
    <3>1. n >= 0 /\ relay' = relay
      BY <2>2 DEF CameraSends
    <3> QED
      BY <1>1, <3>1
  <2>3. CASE CameraEnds
    <3>1. cam'.sent = n /\ relay' = relay
      BY <2>3 DEF CameraEnds, Base, TypeOK
    <3> QED
      BY <1>1, <3>1
  <2>4. CASE \E c \in Readers : ReaderAsks(c) \/ ReaderLeaves(c)
    BY <1>1, <2>4, ReaderShape
  <2> QED
    BY <2>1, <2>2, <2>3, <2>4 DEF Clientele
<1>3. (cam'.sent = -1 => cam'.up = << >>) /\ cam'.zeros \subseteq 1..cam'.sent
  <2>0. Speaks
    BY ClientShape DEF Conn
  <2>1. CASE UNCHANGED <<cam.up, cam.sent, cam.zeros>>
    BY <1>1, <2>1
  <2>2. CASE \E k, data : Relays(k, data)
    <3>1. PICK k, data : Relays(k, data)
      BY <2>2
    <3>2. /\ cam'.sent = n /\ cam'.zeros = cam.zeros /\ Len(cam.up) # 0
      BY <3>1 DEF Relays, Base, TypeOK
    <3> QED
      BY <1>1, <3>2
  <2>3. CASE relay.pc = "get" /\ cam'.sent = 0 /\ cam'.zeros = cam.zeros
    <3>1. n = -1
      BY <1>1, <2>3
    <3>2. cam.zeros = {}
      BY <1>1, <3>1
    <3> QED
      BY <2>3, <3>2
  <2>4. CASE /\ cam.sent >= 0 /\ cam'.sent = cam.sent + 1
             /\ cam'.zeros \subseteq cam.zeros \cup {cam.sent + 1}
    <3>1. cam'.sent = n + 1 /\ n >= 0 /\ cam'.zeros \subseteq 1..n + 1 /\ n + 1 # -1
      BY <1>1, <2>4
    <3> QED
      BY <3>1
  <2> QED
    BY <2>0, <2>1, <2>2, <2>3, <2>4 DEF Speaks
<1> QED
  BY <1>2, <1>3 DEF Asked

LEMMA ClientDialled ==
  ASSUME Base, Conn, Clientele
  PROVE  Dialled'
<1>1. wire \in [Clients -> Line] /\ Camera \in Clients /\ Camera \notin Readers
  BY RelayAssumption DEF Base, TypeOK, ServerTypeOK, Line, Clients
<1>2. CASE RelayStep
  <2>1. PICK w : Attends(Camera, w)
    BY <1>2, RelayShape DEF Conn
  <2>2. wire'[Camera] = w
    BY <1>1, <2>1 DEF Attends
  <2>3. \/ w.end = wire[Camera].end
        \/ w.end = "up"
        \/ relay'.pc = "done"
    BY <1>1, <2>1 DEF Attends
  <2> QED
    BY <1>2, <2>2, <2>3, RelayStages DEF Conn, Dialled
<1>3. CASE CameraSends \/ CameraEnds
  <2>1. wire' = wire /\ relay' = relay
    BY <1>3, CameraShape
  <2> QED
    BY <2>1 DEF Conn, Dialled
<1>4. CASE \E c \in Readers : ReaderAsks(c) \/ ReaderLeaves(c)
  <2>1. PICK c \in Readers : ReaderAsks(c) \/ ReaderLeaves(c)
    BY <1>4
  <2>2. PICK w : Attends(c, w)
    BY <2>1, ReaderShape
  <2>3. relay' = relay /\ wire'[Camera] = wire[Camera]
    BY <1>1, <2>1, <2>2, ReaderShape DEF Attends
  <2> QED
    BY <2>3 DEF Conn, Dialled
<1> QED
  BY <1>2, <1>3, <1>4 DEF Clientele

LEMMA StutterConn == Conn /\ UNCHANGED vars => Conn'
  BY DEF Conn, Waiting, OneServes, Dialled, Asked, vars, serverVars, clientVars

LEMMA StepConn == Base /\ Conn /\ [Next]_vars => Conn'
<1> SUFFICES ASSUME Base, Conn, [Next]_vars PROVE Conn'
  OBVIOUS
<1>1. CASE \E p \in Procs : ServerStep(p) /\ UNCHANGED clientVars
  BY <1>1, AcceptConn, ServingConn DEF ServerStep
<1>2. CASE Quit /\ UNCHANGED clientVars
  BY <1>2, QuitConn
<1>3. CASE Clientele
  <2>1. UNCHANGED <<pid, proc>> /\ \E c, w : Attends(c, w)
    BY <1>3, ClientShape DEF Conn
  <2>2. Waiting' /\ OneServes'
    BY <2>1, AttendsConn
  <2> QED
    BY <1>3, <2>2, ClientAsked, ClientDialled DEF Conn
<1> QED
  BY <1>1, <1>2, <1>3, StutterConn DEF Next, Clientele

-----------------------------------------------------------------------------
(* Where the audio comes from.                                             *)

\* Only the camera's connection carries audio to the server.
FromCamera ==
  /\ \A p \in Procs : proc[p].conn # Camera => AudioIn(proc[p].out) = {}
  /\ \A c \in Readers : AudioIn(wire[c].up) = {}

\* What has been sent and is not lost.
UnderWay == Kept \cup AudioIn(wire[Camera].up) \cup AudioIn(cam.up)
AllSent == UnderWay \subseteq 1..cam.sent

\* The status line is the first the camera sends.
AfterHttp ==
  \A i \in 1..Len(cam.up) : cam.up[i] = Http =>
    i = 1 /\ AudioIn(wire[Camera].up) = {} /\ Kept = {}

Source == FromCamera /\ AllSent /\ AfterHttp

LEMMA AudioInCut ==
  ASSUME NEW s \in Seq(Pieces), NEW m \in 0..Len(s), NEW n \in m..Len(s)
  PROVE  AudioIn(SubSeq(s, m + 1, n)) \subseteq AudioIn(s)
<1>1. ToSet(SubSeq(s, m + 1, n)) \subseteq ToSet(s)
  BY CutSet
<1> QED
  BY <1>1 DEF AudioIn

LEMMA ReadsAudio ==
  ASSUME Base, NEW c \in Clients, NEW w, NEW n, Reads(c, w, n)
  PROVE  /\ AudioIn(w.up) \subseteq AudioIn(wire[c].up)
         /\ AudioIn(SubSeq(wire[c].up, 1, n)) \subseteq AudioIn(wire[c].up)
<1> PICK u : u = wire[c].up
  OBVIOUS
<1>1. u \in Seq(Pieces) /\ n \in 0..Len(u) /\ w.up = SubSeq(u, n + 1, Len(u))
  BY DEF Reads, Base, TypeOK, ServerTypeOK
<1>2. Len(u) \in n..Len(u) /\ 0 \in 0..Len(u) /\ 0 + 1 = 1
  BY <1>1
<1>3. AudioIn(SubSeq(u, n + 1, Len(u))) \subseteq AudioIn(u)
  BY <1>1, <1>2, AudioInCut
<1>4. AudioIn(SubSeq(u, 0 + 1, n)) \subseteq AudioIn(u)
  BY <1>1, <1>2, AudioInCut
<1> QED
  BY <1>1, <1>2, <1>3, <1>4

LEMMA JunkAudio == AudioIn(<< >>) = {} /\ AudioIn(<<Junk>>) = {} /\ AudioIn(<<Post>>) = {}
                   /\ AudioIn(<<Get>>) = {} /\ AudioIn(<<Http>>) = {} /\ AudioIn(<<Header>>) = {}
  BY DEF AudioIn, ToSet, Junk, Post, Get, Http, Header

\* A step that serves brings to the server only what was on the connection.
Brings(p, c, r, w, line) ==
  /\ Serves(p, c, r, w)
  /\ AudioIn(w.up) \subseteq AudioIn(wire[c].up)
  /\ AudioIn(line) \subseteq AudioIn(wire[c].up)
  /\ AudioIn(r.out) \subseteq AudioIn(proc[p].out) \cup AudioIn(line)
  /\ Kept' = Kept \cup AudioIn(line)

LEMMA ServingBrings ==
  ASSUME Base, Base', NEW p \in Procs,
         GetClientType(p) \/ Answer(p) \/ PostRead(p) \/ GetWrite(p)
  PROVE  \E c, r, w, line : Brings(p, c, r, w, line)
<1>1. CASE GetClientType(p)
  <2>1. PICK c, r, w, n : /\ Serves(p, c, r, w) /\ Reads(c, w, n) /\ disk' = disk
                          /\ proc[p].pc = "type" /\ r.out = << >>
    BY <1>1, GetClientTypeShape
  <2>2. Kept' = Kept
    BY <2>1, KeptServes
  <2>3. c \in Clients
    BY <2>1 DEF Serves
  <2>4. AudioIn(w.up) \subseteq AudioIn(wire[c].up)
    BY <2>1, <2>3, ReadsAudio
  <2>5. Brings(p, c, r, w, << >>)
    BY <2>1, <2>2, <2>4, JunkAudio DEF Brings
  <2> QED
    BY <2>5
<1>2. CASE Answer(p)
  <2>1. PICK c, r, w, data : /\ Serves(p, c, r, w) /\ Delivers(c, r, w, data)
                             /\ disk'.data = disk.data
                             /\ proc[p].pc = "answer" /\ r.out = << >>
    BY <1>2, AnswerShape
  <2>2. Kept' = Kept
    BY <2>1, KeptServes
  <2>3. Brings(p, c, r, w, << >>)
    BY <2>1, <2>2, JunkAudio DEF Brings, Delivers
  <2> QED
    BY <2>3
<1>3. CASE PostRead(p)
  <2>1. PICK c, r, w, n, line :
          /\ Serves(p, c, r, w) /\ Reads(c, w, n) /\ Prints(p, r, line)
          /\ \/ line = SubSeq(wire[c].up, 1, n)
             \/ line \in {<< >>, <<Junk>>}
    BY <1>3, PostReadShape
  <2>2. c \in Clients /\ Sound(r)
    BY <2>1 DEF Serves
  <2>3. AudioIn(w.up) \subseteq AudioIn(wire[c].up) /\ AudioIn(line) \subseteq AudioIn(wire[c].up)
    BY <2>1, <2>2, ReadsAudio, JunkAudio
  <2>4. Kept' = Kept \cup AudioIn(line)
    BY <2>1, KeptPrints
  <2>5. AudioIn(r.out) \subseteq AudioIn(proc[p].out) \cup AudioIn(line)
    <3>1. PICK t : Cuts(p, r, line, t)
      BY <2>1, <2>2, PrintsSplit
    <3>2. /\ proc[p].out \in Seq(Int) /\ line \in Seq(Int)
          /\ t \in Seq(Int) /\ r.out \in Seq(Int)
      <4>1. line \in Seq(Pieces) /\ t \in Seq(Pieces) /\ r.out \in Seq(Pieces)
        BY <2>1, <2>2, <3>1 DEF Prints, Cuts, Sound, Process
      <4>2. proc[p].out \in Seq(Pieces)
        BY DEF Base, TypeOK, ServerTypeOK
      <4> QED
        BY <4>1, <4>2, PiecesSeq
    <3>3. AudioIn(proc[p].out \o line) = AudioIn(proc[p].out) \cup AudioIn(line)
      BY <3>2, AudioInJoined
    <3>4. AudioIn(t \o r.out) = AudioIn(t) \cup AudioIn(r.out)
      BY <3>2, AudioInJoined
    <3> QED
      BY <3>1, <3>3, <3>4 DEF Cuts
  <2> QED
    BY <2>1, <2>3, <2>4, <2>5 DEF Brings
<1>4. CASE GetWrite(p)
  <2>1. PICK c, r, w, data : /\ Serves(p, c, r, w) /\ Delivers(c, r, w, data)
                             /\ disk' = disk
                             /\ proc[p].pc = "get" /\ r.out = << >>
    BY <1>4, GetWriteShape
  <2>2. Kept' = Kept
    BY <2>1, KeptServes
  <2>3. Brings(p, c, r, w, << >>)
    BY <2>1, <2>2, JunkAudio DEF Brings, Delivers
  <2> QED
    BY <2>3
<1> QED
  BY <1>1, <1>2, <1>3, <1>4

LEMMA BringsSource ==
  ASSUME Base, Source, NEW p \in Procs, NEW c, NEW r, NEW w, NEW line,
         Brings(p, c, r, w, line), UNCHANGED clientVars
  PROVE  Source'
<1>1. /\ proc \in [Procs -> Process] /\ wire \in [Clients -> Line] /\ cam' = cam
      /\ Camera \in Clients /\ Readers \subseteq Clients /\ Camera \notin Readers
      /\ \A k \in Clients : k = Camera \/ k \in Readers
  BY RelayAssumption DEF Base, TypeOK, ServerTypeOK, Process, Line, Clients, clientVars
<1>2. /\ c \in Clients /\ c = proc[p].conn
      /\ proc' = [proc EXCEPT ![p] = r] /\ wire' = [wire EXCEPT ![c] = w]
      /\ r.pc \in Serving => r.conn = c
      /\ Sound(r)
      /\ AudioIn(w.up) \subseteq AudioIn(wire[c].up)
      /\ AudioIn(line) \subseteq AudioIn(wire[c].up)
      /\ AudioIn(r.out) \subseteq AudioIn(proc[p].out) \cup AudioIn(line)
      /\ Kept' = Kept \cup AudioIn(line)
  BY DEF Brings, Serves
<1>3. AudioIn(line) \subseteq AudioIn(wire[Camera].up) /\ (c # Camera => AudioIn(line) = {})
  BY <1>1, <1>2 DEF Source, FromCamera
<1>4. AudioIn(wire'[Camera].up) \subseteq AudioIn(wire[Camera].up)
  BY <1>1, <1>2
<1>5. FromCamera'
  <2>1. r.conn # Camera => AudioIn(r.out) = {}
    <3>1. CASE r.pc = "post"
      BY <1>2, <1>3, <3>1 DEF Source, FromCamera, Serving
    <3>2. CASE r.pc # "post"
      BY <1>2, <3>2, AudioInEmpty DEF Sound
    <3> QED
      BY <3>1, <3>2
  <2>2. ASSUME NEW q \in Procs, proc'[q].conn # Camera PROVE AudioIn(proc'[q].out) = {}
    BY <1>1, <1>2, <2>1, <2>2 DEF Source, FromCamera
  <2>3. ASSUME NEW k \in Readers PROVE AudioIn(wire'[k].up) = {}
    BY <1>1, <1>2 DEF Source, FromCamera
  <2> QED
    BY <2>2, <2>3 DEF FromCamera, AudioIn
<1>6. AllSent'
  <2>1. UnderWay' = Kept' \cup AudioIn(wire'[Camera].up) \cup AudioIn(cam.up)
    BY <1>1 DEF UnderWay, AudioIn
  <2> QED
    BY <1>1, <1>2, <1>3, <1>4, <2>1 DEF Source, AllSent, UnderWay
<1>7. AfterHttp'
  <2>1. ASSUME NEW i \in 1..Len(cam.up), cam.up[i] = Http
        PROVE  i = 1 /\ AudioIn(wire'[Camera].up) = {} /\ Kept' = {}
    BY <1>2, <1>3, <1>4, <2>1 DEF Source, AfterHttp
  <2> QED
    BY <1>1, <2>1 DEF AfterHttp, AudioIn
<1> QED
  BY <1>5, <1>6, <1>7 DEF Source

LEMMA InitSource == Init => Source
<1> SUFFICES ASSUME Init PROVE Source
  OBVIOUS
<1>1. /\ wire = [c \in Clients |-> [end |-> "new", up |-> << >>, down |-> << >>]]
      /\ proc = [p \in Procs |-> IF p = Main THEN [Free EXCEPT !.pc = "accept"] ELSE Free]
      /\ disk = [made |-> FALSE, data |-> << >>]
      /\ cam = [end |-> "new", sent |-> -1, up |-> << >>, zeros |-> {}]
      /\ Camera \in Clients /\ Readers \subseteq Clients /\ Base
  BY InitBase DEF Init, Clients
<1>2. \A p \in Procs : proc[p].out = << >>
  BY <1>1 DEF Free
<1>3. Kept = {}
  <2>1. Kept = AudioIn(disk.data) \cup (UNION {AudioIn(proc[p].out) : p \in Procs})
    BY <1>1, KeptIs
  <2> QED
    BY <1>1, <1>2, <2>1, AudioInEmpty
<1>4. FromCamera
  BY <1>1, <1>2, AudioInEmpty DEF FromCamera
<1>5. AllSent
  BY <1>1, <1>3, AudioInEmpty DEF AllSent, UnderWay
<1>6. AfterHttp
  BY <1>1 DEF AfterHttp
<1> QED
  BY <1>4, <1>5, <1>6 DEF Source

LEMMA AcceptSource ==
  ASSUME Base, Base', Source, NEW p \in Procs, Accept(p), UNCHANGED clientVars
  PROVE  Source'
<1> PICK c : c = Head(queue)
  OBVIOUS
<1>1. /\ wire' = wire /\ cam' = cam /\ c \in Clients
      /\ \A q \in Procs : \/ proc'[q] = proc[q]
                          \/ proc'[q] \in {Newcomer(c), Accepting}
  BY AcceptShape DEF clientVars
<1>2. Kept' = Kept
  BY KeptAccept
<1>3. FromCamera'
  <2>1. ASSUME NEW q \in Procs, proc'[q].conn # Camera PROVE AudioIn(proc'[q].out) = {}
    BY <1>1, <2>1, AtFork, AudioInEmpty DEF Source, FromCamera
  <2> QED
    BY <1>1, <2>1 DEF Source, FromCamera, AudioIn
<1> QED
  BY <1>1, <1>2, <1>3 DEF Source, AllSent, AfterHttp, UnderWay, AudioIn

LEMMA QuitSource ==
  ASSUME Base, Base', Source, Quit, UNCHANGED clientVars
  PROVE  Source'
<1>1. /\ wire' = wire /\ cam' = cam
      /\ \A p \in Procs : proc'[p] \in {[Free EXCEPT !.pc = "quit"], proc[p]}
  BY QuitShape DEF clientVars
<1>2. Kept' = Kept
  BY KeptQuit
<1>3. FromCamera'
  <2>1. ASSUME NEW q \in Procs, proc'[q].conn # Camera PROVE AudioIn(proc'[q].out) = {}
    <3>1. [Free EXCEPT !.pc = "quit"].out = << >>
      BY DEF Free
    <3> QED
      BY <1>1, <2>1, <3>1, AudioInEmpty DEF Source, FromCamera
  <2> QED
    BY <1>1, <2>1 DEF Source, FromCamera, AudioIn
<1> QED
  BY <1>1, <1>2, <1>3 DEF Source, AllSent, AfterHttp, UnderWay, AudioIn

\* What is sent on is audio that was read, in the order it was read.
LEMMA ForwardedAudio ==
  ASSUME Base, NEW data \in Seq(Pieces), data # << >>
  PROVE  /\ AudioIn(Forwarded(data)) \subseteq AudioIn(data)
         /\ Ascending(data) => Ascending(Forwarded(data))
<1>1. data \in Seq(Int) /\ <<Junk>> \in Seq(Int) /\ <<Post>> \in Seq(Int)
  BY PiecesSeq DEF Junk, Post
<1>2. CASE Forwarded(data) = <<Post>>
  BY <1>1, <1>2, JunkAudio, AscendingNone
<1>3. CASE Forwarded(data) = Append(data, Junk)
  <2>1. Append(data, Junk) = data \o <<Junk>>
    BY <1>1, AppendIsConcat DEF Junk
  <2>2. AudioIn(data \o <<Junk>>) = AudioIn(data)
    <3> PICK j : j = <<Junk>>
      OBVIOUS
    <3>1. AudioIn(data \o j) = AudioIn(data) \cup AudioIn(j)
      BY <1>1, AudioInJoined
    <3>2. AudioIn(j) = {}
      BY JunkAudio
    <3> QED
      BY <3>1, <3>2
  <2>3. Ascending(<<Junk>>) /\ Below(AudioIn(data), AudioIn(<<Junk>>))
    BY <1>1, JunkAudio, AscendingNone DEF Below
  <2>4. Ascending(data) => Ascending(data \o <<Junk>>)
    BY <1>1, <2>3, AscendingJoined
  <2> QED
    BY <1>3, <2>1, <2>2, <2>4
<1>4. CASE \E k \in 1..Len(data) : Forwarded(data) = SubSeq(data, 1, k)
  <2>1. PICK k \in 1..Len(data) : Forwarded(data) = SubSeq(data, 1, k)
    BY <1>4
  <2>2. k \in 0..Len(data) /\ 0 \in 0..Len(data) /\ 0 + 1 = 1
    BY <1>1
  <2>3. AudioIn(SubSeq(data, 0 + 1, k)) \subseteq AudioIn(data)
    BY <2>2, AudioInCut
  <2>4. Ascending(data) => Ascending(SubSeq(data, 1, k))
    BY <1>1, <2>2, AscendingCut
  <2> QED
    BY <2>1, <2>2, <2>3, <2>4
<1> QED
  BY <1>2, <1>3, <1>4, ForwardedShape

\* The camera's stream after a read of the relay, and the server's.
LEMMA RelaysAudio ==
  ASSUME Base, NEW n, NEW data, Relays(n, data)
  PROVE  /\ AudioIn(data) \subseteq AudioIn(cam.up)
         /\ AudioIn(cam'.up) \subseteq AudioIn(cam.up)
         /\ AudioIn(wire'[Camera].up) \subseteq AudioIn(wire[Camera].up) \cup AudioIn(Forwarded(data))
         /\ cam'.sent = cam.sent /\ cam'.zeros = cam.zeros
         /\ Len(cam'.up) = Len(cam.up) - n
         /\ \A i \in 1..Len(cam'.up) : i + n \in 1..Len(cam.up) /\ cam'.up[i] = cam.up[i + n]
<1> PICK u : u = cam.up
  OBVIOUS
<1>1. /\ u \in Seq(Pieces) /\ n \in 1..Len(u) /\ data = SubSeq(u, 1, n)
      /\ cam'.up = SubSeq(u, n + 1, Len(u)) /\ cam'.sent = cam.sent /\ cam'.zeros = cam.zeros
  BY DEF Relays, Base, TypeOK
<1>2. Len(u) \in n..Len(u) /\ 0 \in 0..Len(u) /\ 0 + 1 = 1 /\ n \in 0..Len(u)
  BY <1>1
<1>3. AudioIn(SubSeq(u, n + 1, Len(u))) \subseteq AudioIn(u)
  BY <1>1, <1>2, AudioInCut
<1>4. AudioIn(SubSeq(u, 0 + 1, n)) \subseteq AudioIn(u)
  BY <1>1, <1>2, AudioInCut
<1>5. /\ Len(SubSeq(u, n + 1, Len(u))) = Len(u) - n
      /\ \A i \in 1..Len(u) - n : SubSeq(u, n + 1, Len(u))[i] = u[i + n]
  BY <1>1, <1>2, Cut
<1>6. \A i \in 1..Len(u) - n : i + n \in 1..Len(u)
  BY <1>1
<1>7. AudioIn(wire'[Camera].up) \subseteq AudioIn(wire[Camera].up) \cup AudioIn(Forwarded(data))
  <2>1. PICK w \in Line : /\ wire' = [wire EXCEPT ![Camera] = w]
                          /\ w.up = IF wire[Camera].end = "up" /\ ~HungUp(Camera)
                                    THEN wire[Camera].up \o Forwarded(data)
                                    ELSE wire[Camera].up
    BY RelaysShape
  <2>2. wire \in [Clients -> Line] /\ Camera \in Clients /\ wire[Camera].up \in Seq(Pieces)
    BY DEF Base, TypeOK, ServerTypeOK, Line, Clients
  <2>3. Forwarded(data) \in Seq(Pieces)
    BY RelaysShape
  <2>4. AudioIn(wire[Camera].up \o Forwarded(data))
          = AudioIn(wire[Camera].up) \cup AudioIn(Forwarded(data))
    BY <2>2, <2>3, PiecesSeq, AudioInJoined
  <2> QED
    BY <2>1, <2>2, <2>4
<1> QED
  BY <1>1, <1>2, <1>3, <1>4, <1>5, <1>6, <1>7

LEMMA AttendsAudio ==
  ASSUME Base, NEW c, NEW w, Attends(c, w)
  PROVE  \/ \E n, data : Relays(n, data)
         \/ AudioIn(wire'[Camera].up) \subseteq AudioIn(wire[Camera].up)
<1>1. /\ c \in Clients /\ wire' = [wire EXCEPT ![c] = w] /\ wire \in [Clients -> Line]
      /\ Camera \in Clients
  BY DEF Attends, Base, TypeOK, ServerTypeOK, Line, Clients
<1>2. \/ \E n, data : Relays(n, data)
      \/ w.up = wire[c].up \/ w.up \in {<< >>, <<Get>>}
  BY DEF Attends
<1>3. CASE w.up = wire[c].up \/ w.up \in {<< >>, <<Get>>}
  <2>1. AudioIn(w.up) \subseteq AudioIn(wire[c].up)
    BY <1>3, JunkAudio
  <2> QED
    BY <1>1, <2>1
<1> QED
  BY <1>2, <1>3

LEMMA AttendsReaders ==
  ASSUME Base, NEW c, NEW w, Attends(c, w), NEW k \in Readers, AudioIn(wire[k].up) = {}
  PROVE  AudioIn(wire'[k].up) = {}
<1>1. /\ c \in Clients /\ wire' = [wire EXCEPT ![c] = w] /\ wire \in [Clients -> Line]
      /\ k \in Clients /\ k # Camera
  BY RelayAssumption DEF Attends, Base, TypeOK, ServerTypeOK, Line, Clients
<1>2. c = k => w.up = wire[c].up \/ w.up \in {<< >>, <<Get>>}
  BY <1>1 DEF Attends
<1>3. c = k => AudioIn(w.up) = {}
  BY <1>2, JunkAudio
<1> QED
  BY <1>1, <1>3

LEMMA ClientSource ==
  ASSUME Base, Base', Conn, Source, Clientele
  PROVE  Source'
<1>0. Base'
  OBVIOUS
<1>1. UNCHANGED <<proc, disk>> /\ Speaks /\ \E c, w : Attends(c, w)
  BY ClientShape DEF Conn
<1>2. Kept' = Kept
  BY <1>1, SameKept
<1>3. PICK c, w : Attends(c, w)
  BY <1>1
<1>4. FromCamera'
  <2>1. \A p \in Procs : proc'[p].conn # Camera => AudioIn(proc'[p].out) = {}
    BY <1>1 DEF Source, FromCamera
  <2>2. \A k \in Readers : AudioIn(wire'[k].up) = {}
    BY <1>3, AttendsReaders DEF Source, FromCamera
  <2> QED
    BY <2>1, <2>2 DEF FromCamera, AudioIn
<1> DEFINE up == AudioIn(wire[Camera].up)
           up2 == AudioIn(wire'[Camera].up)
<1>5. UnderWay' = Kept \cup up2 \cup AudioIn(cam'.up)
  BY <1>2 DEF UnderWay, AudioIn
<1>6. Kept \cup up \cup AudioIn(cam.up) \subseteq 1..cam.sent
  BY DEF Source, AllSent, UnderWay
<1>7. SUFFICES /\ Kept \cup up2 \cup AudioIn(cam'.up) \subseteq 1..cam'.sent
               /\ \A i \in 1..Len(cam'.up) : cam'.up[i] = Http => i = 1 /\ up2 = {} /\ Kept = {}
  BY <1>2, <1>4, <1>5 DEF Source, AllSent, AfterHttp, AudioIn
<1>8. CASE \E n, data : Relays(n, data)
  <2>1. PICK n, data : Relays(n, data)
    BY <1>8
  <2>2. /\ AudioIn(data) \subseteq AudioIn(cam.up) /\ AudioIn(cam'.up) \subseteq AudioIn(cam.up)
        /\ up2 \subseteq up \cup AudioIn(Forwarded(data)) /\ cam'.sent = cam.sent
    BY <2>1, RelaysAudio
  <2>3. AudioIn(Forwarded(data)) \subseteq AudioIn(data)
    BY <2>1, RelaysShape, ForwardedAudio
  <2>4. \A i \in 1..Len(cam'.up) : cam'.up[i] # Http
    <3> SUFFICES ASSUME NEW i \in 1..Len(cam'.up), cam'.up[i] = Http PROVE FALSE
      OBVIOUS
    <3>1. i + n \in 1..Len(cam.up) /\ cam.up[i + n] = Http
      BY <2>1, RelaysAudio
    <3>2. i + n = 1
      BY <3>1 DEF Source, AfterHttp
    <3>3. n \in Nat \ {0} /\ i \in Nat \ {0}
      <4>1. n \in 1..Len(cam.up) /\ cam.up \in Seq(Pieces)
        BY <2>1 DEF Relays, Base, TypeOK
      <4>2. cam'.up \in Seq(Pieces)
        BY <1>0 DEF Base, TypeOK
      <4> QED
        BY <4>1, <4>2
    <3> QED
      BY <3>2, <3>3
  <2> QED
    BY <1>6, <2>2, <2>3, <2>4
<1>9. CASE ~(\E n, data : Relays(n, data))
  <2>1. up2 \subseteq up
    BY <1>3, <1>9, AttendsAudio
  <2>2. CASE UNCHANGED <<cam.up, cam.sent, cam.zeros>>
    BY <1>6, <2>1, <2>2 DEF Source, AfterHttp
  <2>3. CASE relay.pc = "get" /\ cam'.up = <<Http>> /\ cam'.sent = 0
    <3>1. cam.sent = -1
      BY <2>3 DEF Conn, Asked
    <3>2. Kept = {} /\ up = {}
      BY <1>6, <3>1
    <3>3. AudioIn(cam'.up) = {}
      BY <2>3, JunkAudio
    <3>4. up2 = {} /\ \A i \in 1..Len(cam'.up) : i = 1
      BY <2>1, <2>3, <3>2
    <3> QED
      BY <3>2, <3>3, <3>4
  <2>4. CASE cam.sent >= 0 /\ cam'.sent = cam.sent + 1 /\ cam'.up = Append(cam.up, cam.sent + 1)
    <3> PICK n : n = cam.sent
      OBVIOUS
    <3> PICK u : u = cam.up
      OBVIOUS
    <3>1. n \in Nat /\ u \in Seq(Int) /\ n + 1 \in Int
      BY <2>4, PiecesSeq, RelayAssumption DEF Base, TypeOK
    <3>2. ToSet(Append(u, n + 1)) = ToSet(u) \cup {n + 1}
      BY <3>1, AppendedSet
    <3>3. AudioIn(cam'.up) \subseteq AudioIn(u) \cup {n + 1}
      BY <2>4, <3>2 DEF AudioIn
    <3>4. \A x \in 1..n : x \in 1..n + 1
      BY <3>1
    <3>5. n + 1 \in 1..n + 1 /\ n + 1 # Http
      BY <3>1 DEF Http
    <3>6. ASSUME NEW i \in 1..Len(cam'.up), cam'.up[i] = Http
          PROVE  i = 1 /\ up2 = {} /\ Kept = {}
      <4>1. i \in 1..Len(u) /\ u[i] = Http
        <5> PICK v : v = Append(u, n + 1)
          OBVIOUS
        <5>1. Len(v) = Len(u) + 1 /\ v[Len(u) + 1] = n + 1 /\ \A j \in 1..Len(u) : v[j] = u[j]
          BY <3>1, AppendProperties
        <5>2. Len(u) \in Nat /\ i \in 1..Len(u) + 1 /\ v[i] = Http
          BY <2>4, <3>1, <3>6, <5>1
        <5>3. i \in 1..Len(u) \/ i = Len(u) + 1
          BY <5>2
        <5> QED
          BY <3>5, <5>1, <5>2, <5>3
      <4> QED
        BY <2>1, <4>1 DEF Source, AfterHttp
    <3> QED
      BY <1>6, <2>1, <2>4, <3>3, <3>4, <3>5, <3>6
  <2> QED
    BY <1>1, <1>9, <2>2, <2>3, <2>4 DEF Speaks
<1> QED
  BY <1>8, <1>9

LEMMA StutterSource == Source /\ UNCHANGED vars => Source'
  BY SMTT(30)
     DEF Source, FromCamera, AllSent, AfterHttp, UnderWay, Kept, AudioIn, vars,
         serverVars, clientVars

LEMMA StepSource == Base /\ Conn /\ Source /\ [Next]_vars => Source'
<1> SUFFICES ASSUME Base, Conn, Source, [Next]_vars PROVE Source'
  OBVIOUS
<1>0. Base'
  BY StepBase
<1>1. CASE \E p \in Procs : ServerStep(p) /\ UNCHANGED clientVars
  <2>1. PICK p \in Procs : ServerStep(p) /\ UNCHANGED clientVars
    BY <1>1
  <2>2. CASE Accept(p)
    BY <1>0, <2>1, <2>2, AcceptSource
  <2>3. CASE GetClientType(p) \/ Answer(p) \/ PostRead(p) \/ GetWrite(p)
    <3>1. \E c, r, w, line : Brings(p, c, r, w, line)
      BY <1>0, <2>3, ServingBrings
    <3> QED
      BY <2>1, <3>1, BringsSource
  <2> QED
    BY <2>1, <2>2, <2>3 DEF ServerStep
<1>2. CASE Quit /\ UNCHANGED clientVars
  BY <1>0, <1>2, QuitSource
<1>3. CASE Clientele
  BY <1>0, <1>3, ClientSource
<1> QED
  BY <1>1, <1>2, <1>3, StutterSource DEF Next, Clientele

-----------------------------------------------------------------------------
(* The order in which audio is kept.                                       *)

\* The file, what a process holds back, what is on its way to the server and
\* what the camera has sent: each in order, and each before the next.
Chain(d, o, u, c) ==
  /\ Ascending(d) /\ Ascending(o) /\ Ascending(u) /\ Ascending(c)
  /\ Below(AudioIn(d), AudioIn(o)) /\ Below(AudioIn(d), AudioIn(u))
  /\ Below(AudioIn(d), AudioIn(c)) /\ Below(AudioIn(o), AudioIn(u))
  /\ Below(AudioIn(o), AudioIn(c)) /\ Below(AudioIn(u), AudioIn(c))

InPlace ==
  pid = 0 => \A p \in Procs : Chain(disk.data, proc[p].out, wire[Camera].up, cam.up)

LEMMA BelowLess ==
  ASSUME NEW S, NEW T, Below(S, T), NEW S2 \in SUBSET S, NEW T2 \in SUBSET T
  PROVE  Below(S2, T2)
  BY DEF Below

LEMMA BelowUnion ==
  ASSUME NEW S, NEW S2, NEW T, NEW T2
  PROVE  /\ Below(S \cup S2, T) <=> Below(S, T) /\ Below(S2, T)
         /\ Below(S, T \cup T2) <=> Below(S, T) /\ Below(S, T2)
  BY DEF Below

\* Anything may be lost from a chain.
LEMMA ChainLess ==
  ASSUME NEW d, NEW o, NEW u, NEW c, Chain(d, o, u, c),
         NEW d2, NEW o2, NEW u2, NEW c2,
         Ascending(d2), Ascending(o2), Ascending(u2), Ascending(c2),
         AudioIn(d2) \subseteq AudioIn(d), AudioIn(o2) \subseteq AudioIn(o),
         AudioIn(u2) \subseteq AudioIn(u), AudioIn(c2) \subseteq AudioIn(c)
  PROVE  Chain(d2, o2, u2, c2)
  BY BelowLess DEF Chain

\* Of a stretch in order, both halves are.
LEMMA AscendingHalves ==
  ASSUME NEW u \in Seq(Int), NEW v \in Seq(Int), NEW s, s = u \o v, Ascending(s)
  PROVE  /\ Ascending(u) /\ Ascending(v) /\ Below(AudioIn(u), AudioIn(v))
         /\ AudioIn(s) = AudioIn(u) \cup AudioIn(v)
<1> PICK m : m = Len(u)
  OBVIOUS
<1> PICK n : n = Len(v)
  OBVIOUS
<1>1. /\ m \in Nat /\ n \in Nat /\ s \in Seq(Int) /\ Len(s) = m + n
      /\ \A i \in 1..m + n : s[i] = IF i <= m THEN u[i] ELSE v[i - m]
      /\ DOMAIN u = 1..m /\ DOMAIN v = 1..n
  BY ConcatProperties, Elements
<1>2. \A i \in 1..m : i \in 1..Len(s) /\ s[i] = u[i]
  BY <1>1
<1>3. \A i \in 1..n : i + m \in 1..Len(s) /\ s[i + m] = v[i]
  <2> SUFFICES ASSUME NEW i \in 1..n PROVE i + m \in 1..Len(s) /\ s[i + m] = v[i]
    OBVIOUS
  <2>1. i + m \in 1..m + n /\ ~(i + m <= m) /\ i + m - m = i
    BY <1>1
  <2> QED
    BY <1>1, <2>1
<1>4. Ascending(u)
  BY <1>2 DEF Ascending
<1>5. Ascending(v)
  <2> SUFFICES ASSUME NEW i \in 1..n, NEW j \in 1..n, i < j, v[i] > 0, v[j] > 0
               PROVE  v[i] < v[j]
    BY DEF Ascending
  <2>1. i + m < j + m
    BY <1>1
  <2> QED
    BY <1>3, <2>1 DEF Ascending
<1>6. Below(AudioIn(u), AudioIn(v))
  <2> SUFFICES ASSUME NEW x \in AudioIn(u), NEW y \in AudioIn(v) PROVE x < y
    BY DEF Below
  <2>1. PICK i \in 1..m : x = u[i] /\ x > 0
    BY <1>1 DEF AudioIn, ToSet
  <2>2. PICK j \in 1..n : y = v[j] /\ y > 0
    BY <1>1 DEF AudioIn, ToSet
  <2>3. i < j + m
    BY <1>1
  <2> QED
    BY <1>2, <1>3, <2>1, <2>2, <2>3 DEF Ascending
<1>7. AudioIn(s) = AudioIn(u) \cup AudioIn(v)
  BY AudioInJoined
<1> QED
  BY <1>4, <1>5, <1>6, <1>7

\* What is read goes behind what is held back, and the front of that to the file.
LEMMA ChainRead ==
  ASSUME NEW d \in Seq(Int), NEW o \in Seq(Int), NEW u, NEW c,
         Chain(d, o, u, c), NEW x \in Seq(Int), NEW u2 \in Seq(Int), u = x \o u2,
         NEW t \in Seq(Int), NEW o2 \in Seq(Int), o \o x = t \o o2
  PROVE  Chain(d \o t, o2, u2, c)
<1> PICK all : all = o \o x
  OBVIOUS
<1>0. Ascending(u) /\ Ascending(o) /\ Ascending(d)
  BY DEF Chain
<1>1. /\ Ascending(x) /\ Ascending(u2) /\ Below(AudioIn(x), AudioIn(u2))
      /\ AudioIn(u) = AudioIn(x) \cup AudioIn(u2)
  BY <1>0, AscendingHalves
<1>2. Ascending(all) /\ AudioIn(all) = AudioIn(o) \cup AudioIn(x)
  <2>1. Below(AudioIn(o), AudioIn(x))
    BY <1>1, BelowLess DEF Chain
  <2>2. Ascending(o \o x)
    BY <1>0, <1>1, <2>1, AscendingJoined
  <2>3. AudioIn(o \o x) = AudioIn(o) \cup AudioIn(x)
    BY AudioInJoined
  <2> QED
    BY <2>2, <2>3
<1>3. /\ Ascending(t) /\ Ascending(o2) /\ Below(AudioIn(t), AudioIn(o2))
      /\ AudioIn(all) = AudioIn(t) \cup AudioIn(o2)
  <2>1. all = t \o o2
    OBVIOUS
  <2> QED
    BY <1>2, <2>1, AscendingHalves
<1>4. /\ AudioIn(t) \subseteq AudioIn(o) \cup AudioIn(x)
      /\ AudioIn(o2) \subseteq AudioIn(o) \cup AudioIn(x)
  BY <1>2, <1>3
<1>5. Ascending(d \o t) /\ AudioIn(d \o t) = AudioIn(d) \cup AudioIn(t)
  <2>1. Below(AudioIn(d), AudioIn(t))
    BY <1>1, <1>4 DEF Chain, Below
  <2> QED
    BY <1>0, <1>3, <2>1, AscendingJoined, AudioInJoined
<1>6. Below(AudioIn(d \o t), AudioIn(o2))
  BY <1>1, <1>3, <1>4, <1>5 DEF Chain, Below
<1>7. Below(AudioIn(d \o t), AudioIn(u2)) /\ Below(AudioIn(o2), AudioIn(u2))
  BY <1>1, <1>4, <1>5 DEF Chain, Below
<1>8. Below(AudioIn(d \o t), AudioIn(c)) /\ Below(AudioIn(o2), AudioIn(c))
      /\ Below(AudioIn(u2), AudioIn(c))
  BY <1>1, <1>4, <1>5 DEF Chain, Below
<1> QED
  BY <1>1, <1>3, <1>5, <1>6, <1>7, <1>8 DEF Chain

\* What the relay sends on goes from the camera's stream to the server's.
LEMMA ChainForward ==
  ASSUME NEW d, NEW o, NEW u \in Seq(Int), NEW c,
         Chain(d, o, u, c), NEW x \in Seq(Int), NEW c2 \in Seq(Int), c = x \o c2,
         NEW f \in Seq(Int), AudioIn(f) \subseteq AudioIn(x), Ascending(x) => Ascending(f)
  PROVE  Chain(d, o, u \o f, c2)
<1>0. Ascending(c) /\ Ascending(u)
  BY DEF Chain
<1>1. /\ Ascending(x) /\ Ascending(c2) /\ Below(AudioIn(x), AudioIn(c2))
      /\ AudioIn(c) = AudioIn(x) \cup AudioIn(c2)
  BY <1>0, AscendingHalves
<1>2. Below(AudioIn(u), AudioIn(f))
  BY <1>1 DEF Chain, Below
<1>3. Ascending(u \o f) /\ AudioIn(u \o f) = AudioIn(u) \cup AudioIn(f)
  BY <1>0, <1>1, <1>2, AscendingJoined, AudioInJoined
<1>4. Below(AudioIn(d), AudioIn(u \o f)) /\ Below(AudioIn(o), AudioIn(u \o f))
      /\ Below(AudioIn(u \o f), AudioIn(c2))
  BY <1>1, <1>3 DEF Chain, Below
<1>5. Below(AudioIn(d), AudioIn(c2)) /\ Below(AudioIn(o), AudioIn(c2))
  BY <1>1 DEF Chain, Below
<1> QED
  BY <1>1, <1>3, <1>4, <1>5 DEF Chain

\* A piece later than all of them goes to the end.
LEMMA ChainSend ==
  ASSUME NEW d, NEW o, NEW u, NEW c \in Seq(Int), Chain(d, o, u, c), NEW n \in Nat,
         AudioIn(d) \cup AudioIn(o) \cup AudioIn(u) \cup AudioIn(c) \subseteq 1..n
  PROVE  Chain(d, o, u, Append(c, n + 1))
<1> PICK e : e = <<n + 1>>
  OBVIOUS
<1>1. e \in Seq(Int) /\ Append(c, n + 1) = c \o e
  BY AppendIsConcat
<1>2. AudioIn(e) = {n + 1} /\ Ascending(e)
  <2>1. Len(e) = 1 /\ e[1] = n + 1 /\ DOMAIN e = {1} /\ n + 1 > 0
    OBVIOUS
  <2> QED
    BY <2>1 DEF AudioIn, Ascending, ToSet
<1>3. \A x \in 1..n : x < n + 1
  OBVIOUS
<1>4. /\ Below(AudioIn(d), AudioIn(e)) /\ Below(AudioIn(o), AudioIn(e))
      /\ Below(AudioIn(u), AudioIn(e)) /\ Below(AudioIn(c), AudioIn(e))
  BY <1>2, <1>3 DEF Below
<1>5. Ascending(c \o e) /\ AudioIn(c \o e) = AudioIn(c) \cup AudioIn(e)
  BY <1>1, <1>2, <1>4, AscendingJoined, AudioInJoined DEF Chain
<1> QED
  BY <1>1, <1>4, <1>5, BelowUnion DEF Chain

LEMMA CutInTwo ==
  ASSUME NEW s \in Seq(Pieces), NEW n \in 0..Len(s)
  PROVE  /\ SubSeq(s, 1, n) \in Seq(Int) /\ SubSeq(s, n + 1, Len(s)) \in Seq(Int)
         /\ s = SubSeq(s, 1, n) \o SubSeq(s, n + 1, Len(s))
<1>1. /\ 0 \in 0..Len(s) /\ Len(s) \in n..Len(s) /\ 0 + 1 = 1
      /\ 1 \in 1..Len(s) + 1 /\ n \in 1 - 1..Len(s)
  OBVIOUS
<1>2. SubSeq(s, 0 + 1, n) \in Seq(Pieces) /\ SubSeq(s, n + 1, Len(s)) \in Seq(Pieces)
  BY <1>1, Cut
<1>3. SubSeq(s, 1, n) \o SubSeq(s, n + 1, Len(s)) = SubSeq(s, 1, Len(s))
  BY <1>1, ConcatAdjacentSubSeq
<1>4. SubSeq(s, 1, Len(s)) = s
  BY SubSeqFull
<1> QED
  BY <1>1, <1>2, <1>3, <1>4, PiecesSeq

LEMMA InPlaceNext ==
  ASSUME pid' = pid,
         pid = 0 => \A p \in Procs : Chain(disk'.data, proc'[p].out, wire'[Camera].up, cam'.up)
  PROVE  InPlace'
  BY DEF InPlace, Chain, Ascending, Below, AudioIn, ToSet

\* At most one of the outputs holds audio, so in whatever order the processes
\* exit the outputs follow each other in order.
LEMMA AscendingFlatten ==
  ASSUME NEW s \in Seq(Seq(Int)), \A i \in 1..Len(s) : Ascending(s[i]),
         \A i, j \in 1..Len(s) : AudioIn(s[i]) # {} /\ AudioIn(s[j]) # {} => i = j
  PROVE  Ascending(FlattenSeq(s))
<1> DEFINE Lonely(t) == /\ \A i \in 1..Len(t) : Ascending(t[i])
                        /\ \A i, j \in 1..Len(t) :
                             AudioIn(t[i]) # {} /\ AudioIn(t[j]) # {} => i = j
           T == {t \in Seq(Seq(Int)) : Lonely(t) => Ascending(FlattenSeq(t))}
<1>1. << >> \in T
  <2>1. << >> \in Seq(Seq(Int))
    OBVIOUS
  <2> QED
    BY <2>1, FlattenEmpty, AudioInEmpty
<1>2. ASSUME NEW t \in T, NEW e \in Seq(Int) PROVE Append(t, e) \in T
  <2> PICK u : u = Append(t, e)
    OBVIOUS
  <2> PICK n : n = Len(t)
    OBVIOUS
  <2>1. /\ u \in Seq(Seq(Int)) /\ n \in Nat /\ Len(u) = n + 1 /\ u[n + 1] = e
        /\ \A i \in 1..n : u[i] = t[i]
    BY AppendProperties
  <2>2. FlattenSeq(u) = FlattenSeq(t) \o e /\ FlattenSeq(t) \in Seq(Int)
    BY FlattenAppend, FlattenType
  <2>3. SUFFICES ASSUME Lonely(u) PROVE Ascending(FlattenSeq(u))
    BY <2>1
  <2>4. /\ n + 1 \in 1..Len(u) /\ \A i \in 1..n : i \in 1..Len(u) /\ i # n + 1
    BY <2>1
  <2>5. Ascending(FlattenSeq(t))
    BY <2>1, <2>3, <2>4
  <2>6. Ascending(e)
    BY <2>1, <2>3, <2>4
  <2>7. Below(AudioIn(FlattenSeq(t)), AudioIn(e))
    <3>1. CASE AudioIn(e) = {}
      BY <3>1 DEF Below
    <3>2. CASE AudioIn(e) # {}
      <4>1. \A i \in 1..n : AudioIn(t[i]) = {}
        BY <2>1, <2>3, <2>4, <3>2
      <4>2. ToSet(FlattenSeq(t)) = UNION {ToSet(t[i]) : i \in 1..Len(t)}
        BY FlattenElements
      <4>3. AudioIn(FlattenSeq(t)) = {}
        BY <4>1, <4>2 DEF AudioIn
      <4> QED
        BY <4>3 DEF Below
    <3> QED
      BY <3>1, <3>2
  <2> QED
    BY <2>2, <2>5, <2>6, <2>7, AscendingJoined
<1>3. Lonely(s)
  OBVIOUS
<1> HIDE DEF T
<1>4. T = Seq(Seq(Int))
  <2>1. T \in SUBSET Seq(Seq(Int))
    BY DEF T
  <2> QED
    BY <1>1, <1>2, <2>1, AppendInduction
<1> QED
  BY <1>3, <1>4 DEF T

LEMMA ServingTypes ==
  ASSUME Base, NEW p \in Procs
  PROVE  /\ proc \in [Procs -> Process] /\ wire \in [Clients -> Line] /\ Camera \in Clients
         /\ disk.data \in Seq(Int) /\ proc[p].out \in Seq(Int) /\ cam.up \in Seq(Int)
         /\ \A c \in Clients : wire[c].up \in Seq(Pieces) /\ wire[c].up \in Seq(Int)
         /\ \A c \in Clients : c = Camera \/ c \in Readers
<1>1. /\ proc \in [Procs -> Process] /\ wire \in [Clients -> Line] /\ Camera \in Clients
      /\ disk.data \in Seq(Pieces) /\ cam.up \in Seq(Pieces)
      /\ \A c \in Clients : c = Camera \/ c \in Readers
  BY DEF Base, TypeOK, ServerTypeOK, Process, Line, Clients
<1>2. proc[p].out \in Seq(Pieces) /\ \A c \in Clients : wire[c].up \in Seq(Pieces)
  BY <1>1 DEF Process, Line
<1> QED
  BY <1>1, <1>2, PiecesSeq

\* A step by which nothing comes to the file.
LEMMA LessInPlace ==
  ASSUME Base, InPlace, pid' = pid, disk'.data = disk.data,
         \A p \in Procs : proc'[p].out \in {proc[p].out, << >>},
         Ascending(wire[Camera].up) => Ascending(wire'[Camera].up),
         AudioIn(wire'[Camera].up) \subseteq AudioIn(wire[Camera].up),
         Ascending(cam.up) => Ascending(cam'.up),
         AudioIn(cam'.up) \subseteq AudioIn(cam.up)
  PROVE  InPlace'
<1> SUFFICES ASSUME pid = 0, NEW p \in Procs
             PROVE  Chain(disk'.data, proc'[p].out, wire'[Camera].up, cam'.up)
  BY InPlaceNext
<1>1. Chain(disk.data, proc[p].out, wire[Camera].up, cam.up)
  BY DEF InPlace
<1>2. /\ Ascending(disk.data) /\ Ascending(proc[p].out) /\ Ascending(wire[Camera].up)
      /\ Ascending(cam.up)
  BY <1>1 DEF Chain
<1>3. Ascending(proc'[p].out) /\ AudioIn(proc'[p].out) \subseteq AudioIn(proc[p].out)
  BY <1>2, AudioInEmpty
<1> QED
  BY <1>1, <1>2, <1>3, ChainLess

\* A read takes the front of the stream, and what is left is in order.
LEMMA ReadsOrder ==
  ASSUME Base, NEW c \in Clients, NEW w, NEW n, Reads(c, w, n), Ascending(wire[c].up)
  PROVE  Ascending(w.up)
<1> PICK u : u = wire[c].up
  OBVIOUS
<1>1. u \in Seq(Pieces) /\ n \in 0..Len(u) /\ w.up = SubSeq(u, n + 1, Len(u))
  BY DEF Reads, Base, TypeOK, ServerTypeOK
<1> PICK v : v = SubSeq(u, n + 1, Len(u))
  OBVIOUS
<1> PICK x : x = SubSeq(u, 1, n)
  OBVIOUS
<1>2. x \in Seq(Int) /\ v \in Seq(Int) /\ u = x \o v
  BY <1>1, CutInTwo
<1>3. Ascending(u)
  OBVIOUS
<1>4. Ascending(v)
  <2>1. \A s : s = x \o v /\ Ascending(s) => Ascending(v)
    BY <1>2, AscendingHalves
  <2> QED
    BY <1>2, <1>3, <2>1
<1> QED
  BY <1>1, <1>4

\* The steps that serve, but for those that print.
LEMMA QuietInPlace ==
  ASSUME Base, InPlace, NEW p \in Procs, UNCHANGED clientVars,
         GetClientType(p) \/ Answer(p) \/ GetWrite(p)
  PROVE  InPlace'
<1>1. PICK c, r, w : /\ Serves(p, c, r, w) /\ disk'.data = disk.data /\ r.out = << >>
                     /\ (\E n : Reads(c, w, n)) \/ (\E data : Delivers(c, r, w, data))
  <2>1. CASE GetClientType(p)
    BY <2>1, GetClientTypeShape
  <2>2. CASE Answer(p)
    BY <2>2, AnswerShape
  <2>3. CASE GetWrite(p)
    BY <2>3, GetWriteShape
  <2> QED
    BY <2>1, <2>2, <2>3
<1>2. /\ proc \in [Procs -> Process] /\ wire \in [Clients -> Line] /\ Camera \in Clients
  BY ServingTypes
<1>3. /\ c \in Clients /\ proc' = [proc EXCEPT ![p] = r] /\ wire' = [wire EXCEPT ![c] = w]
      /\ pid' = pid /\ cam' = cam
  BY <1>1 DEF Serves, clientVars
<1>4. /\ Ascending(wire[c].up) => Ascending(w.up)
      /\ AudioIn(w.up) \subseteq AudioIn(wire[c].up)
  <2>1. CASE \E n : Reads(c, w, n)
    BY <1>3, <2>1, ReadsOrder, ReadsAudio
  <2>2. CASE \E data : Delivers(c, r, w, data)
    BY <2>2 DEF Delivers
  <2> QED
    BY <1>1, <2>1, <2>2
<1>5. \A q \in Procs : proc'[q].out \in {proc[q].out, << >>}
  BY <1>1, <1>2, <1>3
<1>6. /\ Ascending(wire[Camera].up) => Ascending(wire'[Camera].up)
      /\ AudioIn(wire'[Camera].up) \subseteq AudioIn(wire[Camera].up)
  BY <1>2, <1>3, <1>4
<1>7. cam'.up = cam.up
  BY <1>3
<1>8. disk'.data = disk.data
  BY <1>1
<1> QED
  BY <1>3, <1>5, <1>6, <1>7, <1>8, LessInPlace

LEMMA AcceptInPlace ==
  ASSUME Base, InPlace, NEW p \in Procs, Accept(p), UNCHANGED clientVars
  PROVE  InPlace'
<1> PICK c : c = Head(queue)
  OBVIOUS
<1>1. /\ c \in Clients /\ pid' = pid /\ wire' = wire /\ disk' = disk /\ cam' = cam
      /\ \A q \in Procs : proc'[q] = proc[q] \/ proc'[q] \in {Newcomer(c), Accepting}
  BY AcceptShape DEF clientVars
<1>2. \A q \in Procs : proc'[q].out \in {proc[q].out, << >>}
  BY <1>1, AtFork
<1>3. disk'.data = disk.data /\ wire'[Camera].up = wire[Camera].up /\ cam'.up = cam.up
  BY <1>1
<1> QED
  BY <1>1, <1>2, <1>3, LessInPlace

\* What a PostRead prints, and what it leaves on the connection, are in order
\* together, and hold the audio that was on it.
LEMMA PostReadOrder ==
  ASSUME Base, NEW c \in Clients, NEW w, NEW n, Reads(c, w, n), NEW line \in Seq(Pieces),
         \/ line = SubSeq(wire[c].up, 1, n)
         \/ line \in {<< >>, <<Junk>>} /\ w = wire[c],
         Ascending(wire[c].up)
  PROVE  \E v \in Seq(Int) : /\ w.up = v /\ Ascending(line \o v)
                             /\ AudioIn(line \o v) = AudioIn(wire[c].up)
<1> PICK u : u = wire[c].up
  OBVIOUS
<1>1. /\ u \in Seq(Pieces) /\ n \in 0..Len(u) /\ w.up = SubSeq(u, n + 1, Len(u))
      /\ u \in Seq(Int) /\ line \in Seq(Int) /\ Ascending(u)
  BY PiecesSeq DEF Reads, Base, TypeOK, ServerTypeOK
<1>2. CASE line = SubSeq(u, 1, n)
  <2> PICK v : v = SubSeq(u, n + 1, Len(u))
    OBVIOUS
  <2>1. v \in Seq(Int) /\ u = SubSeq(u, 1, n) \o v
    BY <1>1, CutInTwo
  <2>2. u = line \o v /\ w.up = v
    BY <1>1, <1>2, <2>1
  <2> QED
    BY <1>1, <2>1, <2>2
<1>3. CASE line \in {<< >>, <<Junk>>} /\ w.up = u
  <2>1. AudioIn(line) = {} /\ Ascending(line)
    BY <1>1, <1>3, JunkAudio, AscendingNone
  <2>2. AudioIn(line \o u) = AudioIn(u)
    <3>1. AudioIn(line \o u) = AudioIn(line) \cup AudioIn(u)
      BY <1>1, AudioInJoined
    <3> QED
      BY <2>1, <3>1
  <2>3. Ascending(line \o u)
    <3>1. Below(AudioIn(line), AudioIn(u))
      BY <2>1 DEF Below
    <3> QED
      BY <1>1, <2>1, <3>1, AscendingJoined
  <2> QED
    BY <1>1, <1>3, <2>2, <2>3
<1> QED
  BY <1>2, <1>3

LEMMA PostReadInPlace ==
  ASSUME Base, Conn, Source, InPlace, NEW p \in Procs, PostRead(p), UNCHANGED clientVars
  PROVE  InPlace'
<1>1. PICK c, r, w, n, line :
        /\ Serves(p, c, r, w) /\ Reads(c, w, n) /\ Prints(p, r, line)
        /\ \/ line = SubSeq(wire[c].up, 1, n)
           \/ line \in {<< >>, <<Junk>>} /\ w = wire[c]
  BY PostReadShape
<1>2. /\ proc \in [Procs -> Process] /\ wire \in [Clients -> Line] /\ Camera \in Clients
      /\ disk.data \in Seq(Int) /\ cam.up \in Seq(Int)
      /\ \A k \in Clients : k = Camera \/ k \in Readers
      /\ \A q \in Procs : proc[q].out \in Seq(Int)
  BY ServingTypes
<1>3. /\ c \in Clients /\ proc' = [proc EXCEPT ![p] = r] /\ wire' = [wire EXCEPT ![c] = w]
      /\ pid' = pid /\ cam' = cam /\ Sound(r) /\ c = proc[p].conn /\ proc[p].pc \in Serving
  BY <1>1 DEF Serves, clientVars
<1> PICK d : d = disk.data
  OBVIOUS
<1> PICK o : o = proc[p].out
  OBVIOUS
<1> PICK o2 : o2 = r.out
  OBVIOUS
<1>4. PICK t \in Seq(Int) : disk'.data = d \o t /\ o \o line = t \o o2
  <2>1. PICK t : Cuts(p, r, line, t)
    BY <1>1, <1>3, PrintsSplit
  <2> QED
    BY <2>1, PiecesSeq DEF Cuts
<1>5. line \in Seq(Pieces) /\ line \in Seq(Int) /\ o2 \in Seq(Int) /\ o \in Seq(Int) /\ d \in Seq(Int)
  <2>1. line \in Seq(Pieces) /\ o2 \in Seq(Pieces)
    BY <1>1, <1>3 DEF Prints, Sound, Process
  <2> QED
    BY <1>2, <2>1, PiecesSeq
<1> SUFFICES ASSUME pid = 0, NEW q \in Procs
             PROVE  Chain(disk'.data, proc'[q].out, wire'[Camera].up, cam'.up)
  BY <1>3, InPlaceNext
<1>6. /\ \A s \in Procs : Chain(d, proc[s].out, wire[Camera].up, cam.up)
      /\ Ascending(d) /\ Ascending(wire[Camera].up) /\ Ascending(cam.up)
      /\ \A s \in Procs : Ascending(proc[s].out)
  BY DEF InPlace, Chain
<1>7. CASE c = Camera
  <2>1. PICK v \in Seq(Int) : /\ w.up = v /\ Ascending(line \o v)
                              /\ AudioIn(line \o v) = AudioIn(wire[Camera].up)
    BY <1>1, <1>3, <1>5, <1>6, <1>7, PostReadOrder
  <2>2. Chain(d, o, line \o v, cam.up)
    BY <1>6, <2>1, ChainLess
  <2>3. Chain(d \o t, o2, v, cam.up)
    BY <1>4, <1>5, <2>2, ChainRead
  <2>4. wire'[Camera].up = v /\ cam'.up = cam.up /\ proc'[p].out = o2
    BY <1>2, <1>3, <1>7, <2>1
  <2>5. CASE q = p
    BY <1>4, <2>3, <2>4, <2>5
  <2>6. CASE q # p
    <3>1. proc'[q] = proc[q] /\ proc[q].conn # Camera
      BY <1>2, <1>3, <1>7, <2>6 DEF Conn, OneServes
    <3>2. AudioIn(proc[q].out) = {}
      BY <3>1 DEF Source, FromCamera
    <3>3. /\ Ascending(d \o t) /\ Ascending(v) /\ Ascending(cam.up)
      BY <2>3 DEF Chain
    <3>4. Chain(d \o t, proc[q].out, v, cam.up)
      BY <1>6, <2>3, <3>2, <3>3, ChainLess
    <3> QED
      BY <1>4, <2>4, <3>1, <3>4
  <2> QED
    BY <2>5, <2>6
<1>8. CASE c # Camera
  <2>1. AudioIn(wire[c].up) = {} /\ AudioIn(o) = {}
    BY <1>2, <1>3, <1>8 DEF Source, FromCamera
  <2>2. AudioIn(line) = {}
    BY <1>1, <1>3, <2>1, ReadsAudio, JunkAudio
  <2>3. AudioIn(t) = {} /\ AudioIn(o2) = {}
    <3>1. AudioIn(o \o line) = AudioIn(o) \cup AudioIn(line)
      BY <1>5, AudioInJoined
    <3>2. AudioIn(t \o o2) = AudioIn(t) \cup AudioIn(o2)
      BY <1>5, AudioInJoined
    <3> QED
      BY <1>4, <2>1, <2>2, <3>1, <3>2
  <2>4. Ascending(d \o t) /\ AudioIn(d \o t) = AudioIn(d)
    <3>1. Ascending(t) /\ Below(AudioIn(d), AudioIn(t))
      BY <2>3, AscendingNone DEF Below
    <3>2. AudioIn(d \o t) = AudioIn(d) \cup AudioIn(t)
      BY <1>5, AudioInJoined
    <3> QED
      BY <1>5, <1>6, <2>3, <3>1, <3>2, AscendingJoined
  <2>5. wire'[Camera].up = wire[Camera].up /\ cam'.up = cam.up
    BY <1>2, <1>3, <1>8
  <2>6. Ascending(proc'[q].out) /\ AudioIn(proc'[q].out) \subseteq AudioIn(proc[q].out)
    <3>1. proc'[q].out = IF q = p THEN o2 ELSE proc[q].out
      BY <1>2, <1>3
    <3> QED
      BY <1>5, <1>6, <2>3, <3>1, AscendingNone
  <2>7. Chain(d \o t, proc'[q].out, wire[Camera].up, cam.up)
    BY <1>6, <2>4, <2>6, ChainLess
  <2> QED
    BY <1>4, <2>5, <2>7
<1> QED
  BY <1>7, <1>8

LEMMA QuitInPlace ==
  ASSUME Base, Conn, Source, InPlace, Quit, UNCHANGED clientVars
  PROVE  InPlace'
<1>1. /\ pid' = pid /\ wire' = wire /\ cam' = cam
      /\ \A q \in Procs : \/ q \in Running /\ proc'[q] = [Free EXCEPT !.pc = "quit"]
                          \/ q \notin Running /\ proc'[q] = proc[q]
  BY QuitShape DEF clientVars
<1>2. PICK order, outs : Exits(order, outs)
  BY QuitShape
<1> SUFFICES ASSUME pid = 0, NEW q \in Procs
             PROVE  Chain(disk'.data, proc'[q].out, wire'[Camera].up, cam'.up)
  BY <1>1, InPlaceNext
<1> PICK d : d = disk.data
  OBVIOUS
<1> PICK t : t = FlattenSeq(outs)
  OBVIOUS
<1> DEFINE held == UNION {AudioIn(proc[p].out) : p \in Running}
<1>3. /\ \A p \in Procs : Chain(d, proc[p].out, wire[Camera].up, cam.up)
      /\ Ascending(d) /\ Ascending(wire[Camera].up) /\ Ascending(cam.up)
      /\ \A p \in Procs : Ascending(proc[p].out)
  BY DEF InPlace, Chain
<1>4. proc'[q].out = << >>
  <2>1. CASE q \in Running
    BY <1>1, <2>1 DEF Free
  <2>2. CASE q \notin Running
    <3>1. proc[q].pc # "post" /\ Sound(proc[q])
      BY <2>2 DEF Running, Base
    <3> QED
      BY <1>1, <2>2, <3>1 DEF Sound
  <2> QED
    BY <2>1, <2>2
<1>5. /\ order \in Seq(Running) /\ IsInjective(order) /\ Running \subseteq Procs
      /\ Len(outs) = Len(order) /\ DOMAIN order = 1..Len(order)
      /\ \A i \in 1..Len(order) : order[i] \in Running /\ outs[i] = proc[order[i]].out
  BY <1>2 DEF Exits, Running
<1>6. outs \in Seq(Seq(Int))
  <2>1. outs \in Seq(Seq(Pieces))
    BY <1>2 DEF Exits
  <2>2. \A i \in 1..Len(outs) : outs[i] \in Seq(Int)
    BY <2>1, PiecesSeq, Elements
  <2>3. Len(outs) \in Nat /\ outs = [i \in 1..Len(outs) |-> outs[i]]
    BY <2>1
  <2> QED
    BY <2>2, <2>3, IsASeq
<1>7. Ascending(t)
  <2>1. \A i \in 1..Len(outs) : Ascending(outs[i])
    BY <1>3, <1>5
  <2>2. ASSUME NEW i \in 1..Len(outs), NEW j \in 1..Len(outs),
               AudioIn(outs[i]) # {}, AudioIn(outs[j]) # {}
        PROVE  i = j
    <3>1. order[i] \in Procs /\ order[j] \in Procs
      BY <1>5
    <3>2. proc[order[i]].conn = Camera /\ proc[order[j]].conn = Camera
      BY <1>5, <2>2, <3>1 DEF Source, FromCamera
    <3>3. proc[order[i]].pc \in Serving
      <4>1. NoClient # Camera
        BY RelayAssumption DEF Clients
      <4> QED
        BY <3>1, <3>2, <4>1 DEF Base, Sound
    <3>4. order[i] = order[j]
      BY <3>1, <3>2, <3>3 DEF Conn, OneServes
    <3> QED
      BY <1>5, <3>4 DEF IsInjective
  <2> QED
    BY <1>6, <2>1, <2>2, AscendingFlatten
<1>8. /\ t \in Seq(Int) /\ d \in Seq(Int) /\ disk'.data = d \o t
      /\ AudioIn(disk'.data) = AudioIn(d) \cup held
  <2>1. t \in Seq(Pieces) /\ disk'.data = d \o t /\ AudioIn(disk'.data) = AudioIn(d) \cup held
    BY <1>2, ExitsType, ExitsAudio
  <2> QED
    BY <2>1, PiecesSeq, ServingTypes
<1>9. AudioIn(t) \subseteq AudioIn(d) \cup held
  <2>1. AudioIn(d \o t) = AudioIn(d) \cup AudioIn(t)
    BY <1>8, AudioInJoined
  <2> QED
    BY <1>8, <2>1
<1>10. AudioIn(t) = held
  <2>1. outs \in Seq(Seq(Int)) /\ ToSet(order) = Running
    BY <1>2, <1>6 DEF Exits
  <2>2. ToSet(t) = UNION {ToSet(outs[i]) : i \in 1..Len(outs)}
    BY <2>1, FlattenElements
  <2>3. ASSUME NEW x \in AudioIn(t) PROVE x \in held
    <3>1. PICK i \in 1..Len(outs) : x \in ToSet(outs[i]) /\ x > 0
      BY <2>2, <2>3 DEF AudioIn
    <3>2. order[i] \in Running /\ x \in AudioIn(proc[order[i]].out)
      BY <1>5, <3>1 DEF AudioIn
    <3> QED
      BY <3>2
  <2>4. ASSUME NEW x \in held PROVE x \in AudioIn(t)
    <3>1. PICK p \in Running : x \in AudioIn(proc[p].out)
      BY <2>4
    <3>2. PICK i \in 1..Len(order) : order[i] = p
      BY <1>5, <2>1, <3>1 DEF ToSet
    <3>3. x \in ToSet(outs[i]) /\ x > 0 /\ i \in 1..Len(outs)
      BY <1>5, <3>1, <3>2 DEF AudioIn
    <3> QED
      BY <2>2, <3>3 DEF AudioIn
  <2> QED
    BY <2>3, <2>4
<1>11. /\ Below(AudioIn(d), held) /\ Below(held, AudioIn(wire[Camera].up))
       /\ Below(held, AudioIn(cam.up))
  <2>1. \A p \in Running : /\ Below(AudioIn(d), AudioIn(proc[p].out))
                           /\ Below(AudioIn(proc[p].out), AudioIn(wire[Camera].up))
                           /\ Below(AudioIn(proc[p].out), AudioIn(cam.up))
    BY <1>3, <1>5 DEF Chain
  <2> QED
    BY <2>1 DEF Below
<1>12. Ascending(d \o t)
  BY <1>3, <1>7, <1>8, <1>10, <1>11, AscendingJoined
<1>13. /\ Below(AudioIn(d), AudioIn(wire[Camera].up)) /\ Below(AudioIn(d), AudioIn(cam.up))
       /\ Below(AudioIn(wire[Camera].up), AudioIn(cam.up))
  BY <1>3 DEF Chain
<1>14. /\ Below(AudioIn(d) \cup held, AudioIn(wire[Camera].up))
       /\ Below(AudioIn(d) \cup held, AudioIn(cam.up))
  BY <1>11, <1>13, BelowUnion
<1>15. AudioIn(<< >>) = {} /\ Ascending(<< >>) /\ AudioIn(d \o t) = AudioIn(d) \cup held
  BY <1>8, AudioInEmpty
<1> HIDE DEF held
<1>16. Chain(d \o t, << >>, wire[Camera].up, cam.up)
  BY <1>3, <1>12, <1>13, <1>14, <1>15 DEF Chain, Below
<1> QED
  BY <1>1, <1>4, <1>8, <1>16

LEMMA AttendsOrder ==
  ASSUME Base, NEW c, NEW w, Attends(c, w), ~(\E n, data : Relays(n, data)),
         Ascending(wire[Camera].up)
  PROVE  Ascending(wire'[Camera].up)
<1>1. /\ c \in Clients /\ wire' = [wire EXCEPT ![c] = w] /\ wire \in [Clients -> Line]
      /\ Camera \in Clients /\ (w.up = wire[c].up \/ w.up \in {<< >>, <<Get>>})
  BY DEF Attends, Base, TypeOK, ServerTypeOK, Line, Clients
<1>2. Ascending(<< >>) /\ Ascending(<<Get>>)
  <2>1. <<Get>> \in Seq(Int)
    BY DEF Get
  <2> QED
    BY <2>1, JunkAudio, AscendingNone, AudioInEmpty
<1> QED
  BY <1>1, <1>2

LEMMA RelaysInPlace ==
  ASSUME Base, InPlace, UNCHANGED <<pid, proc, disk>>, NEW n, NEW data, Relays(n, data)
  PROVE  InPlace'
<1> PICK f : f = Forwarded(data)
  OBVIOUS
<1> PICK c : c = cam.up
  OBVIOUS
<1> PICK c2 : c2 = SubSeq(c, n + 1, Len(c))
  OBVIOUS
<1> PICK u : u = wire[Camera].up
  OBVIOUS
<1>1. /\ c \in Seq(Pieces) /\ n \in 1..Len(c) /\ data = SubSeq(c, 1, n) /\ cam'.up = c2
      /\ n \in 0..Len(c)
  BY SMTT(30) DEF Relays, Base, TypeOK
<1>2. data \in Seq(Int) /\ c2 \in Seq(Int) /\ c = data \o c2
  <2>1. /\ SubSeq(c, 1, n) \in Seq(Int) /\ SubSeq(c, n + 1, Len(c)) \in Seq(Int)
        /\ c = SubSeq(c, 1, n) \o SubSeq(c, n + 1, Len(c))
    <3>1. c \in Seq(Pieces) /\ n \in 0..Len(c)
      BY <1>1
    <3> QED
      BY <3>1, CutInTwo, Zenon
  <2> QED
    BY <1>1, <2>1
<1>3. /\ data \in Seq(Pieces) /\ data # << >> /\ f \in Seq(Pieces)
      /\ wire'[Camera].up \in {u \o f, u}
  <2>1. PICK w \in Line : /\ wire' = [wire EXCEPT ![Camera] = w]
                          /\ w.up = IF wire[Camera].end = "up" /\ ~HungUp(Camera)
                                    THEN wire[Camera].up \o Forwarded(data)
                                    ELSE wire[Camera].up
    BY RelaysShape
  <2>2. wire \in [Clients -> Line] /\ Camera \in Clients
    BY DEF Base, TypeOK, ServerTypeOK, Line, Clients
  <2>3. wire'[Camera].up \in {u \o f, u}
    BY <2>1, <2>2
  <2> QED
    BY <2>3, RelaysShape
<1>4. f \in Seq(Int) /\ AudioIn(f) \subseteq AudioIn(data) /\ (Ascending(data) => Ascending(f))
  BY <1>3, ForwardedAudio, PiecesSeq
<1>5. u \in Seq(Int)
  BY PiecesSeq DEF Base, TypeOK, ServerTypeOK, Clients
<1> SUFFICES ASSUME pid = 0, NEW q \in Procs
             PROVE  Chain(disk'.data, proc'[q].out, wire'[Camera].up, cam'.up)
  BY InPlaceNext
<1> PICK d : d = disk.data
  OBVIOUS
<1> PICK o : o = proc[q].out
  OBVIOUS
<1>6. Chain(d, o, u, c)
  BY DEF InPlace
<1>7. Chain(d, o, u \o f, c2)
  BY <1>2, <1>4, <1>5, <1>6, ChainForward
<1>8. Chain(d, o, u, c2)
  <2>1. AudioIn(u) \subseteq AudioIn(u \o f)
    BY <1>4, <1>5, AudioInJoined
  <2>2. Ascending(d) /\ Ascending(o) /\ Ascending(u) /\ Ascending(c2)
    BY <1>6, <1>7 DEF Chain
  <2> QED
    BY <1>7, <2>1, <2>2, ChainLess
<1> QED
  BY <1>1, <1>3, <1>7, <1>8

LEMMA ClientInPlace ==
  ASSUME Base, Conn, Source, InPlace, Clientele
  PROVE  InPlace'
<1>1. UNCHANGED <<pid, proc, disk>> /\ Speaks
  BY ClientShape DEF Conn
<1>2. PICK c, w : Attends(c, w)
  BY ClientShape DEF Conn
<1>3. CASE \E n, data : Relays(n, data)
  BY <1>1, <1>3, RelaysInPlace
<1>4. CASE ~(\E n, data : Relays(n, data))
  <2>1. AudioIn(wire'[Camera].up) \subseteq AudioIn(wire[Camera].up)
    BY <1>2, <1>4, AttendsAudio
  <2>2. Ascending(wire[Camera].up) => Ascending(wire'[Camera].up)
    BY <1>2, <1>4, AttendsOrder
  <2>3. \A p \in Procs : proc'[p].out \in {proc[p].out, << >>}
    BY <1>1
  <2>4. CASE cam'.up = cam.up
    BY <1>1, <2>1, <2>2, <2>3, <2>4, LessInPlace
  <2>5. CASE cam'.up = <<Http>>
    <3>1. <<Http>> \in Seq(Int)
      BY DEF Http
    <3>2. Ascending(cam'.up) /\ AudioIn(cam'.up) \subseteq AudioIn(cam.up)
      BY <2>5, <3>1, JunkAudio, AscendingNone
    <3> QED
      BY <1>1, <2>1, <2>2, <2>3, <3>2, LessInPlace
  <2>6. CASE cam.sent >= 0 /\ wire' = wire /\ cam'.up = Append(cam.up, cam.sent + 1)
    <3> PICK n : n = cam.sent
      OBVIOUS
    <3>1. n \in Nat /\ cam.up \in Seq(Int)
      BY <2>6, ServingTypes, RelayAssumption, PiecesSeq DEF Base, TypeOK
    <3> SUFFICES ASSUME pid = 0, NEW q \in Procs
                 PROVE  Chain(disk'.data, proc'[q].out, wire'[Camera].up, cam'.up)
      BY <1>1, InPlaceNext
    <3>2. AudioIn(disk.data) \cup AudioIn(proc[q].out) \cup AudioIn(wire[Camera].up)
            \cup AudioIn(cam.up) \subseteq 1..n
      BY KeptIs DEF Source, AllSent, UnderWay
    <3>3. Chain(disk.data, proc[q].out, wire[Camera].up, cam.up)
      BY DEF InPlace
    <3>4. Chain(disk.data, proc[q].out, wire[Camera].up, Append(cam.up, n + 1))
      BY <3>1, <3>2, <3>3, ChainSend
    <3> QED
      BY <1>1, <2>6, <3>4
  <2> QED
    BY <1>1, <1>4, <2>4, <2>5, <2>6 DEF Speaks
<1> QED
  BY <1>3, <1>4

LEMMA InitInPlace == Init => InPlace
<1> SUFFICES ASSUME Init, NEW p \in Procs
             PROVE  Chain(disk.data, proc[p].out, wire[Camera].up, cam.up)
  BY DEF InPlace
<1>1. /\ disk.data = << >> /\ proc[p].out = << >> /\ wire[Camera].up = << >> /\ cam.up = << >>
  BY DEF Init, Free, Clients
<1> QED
  BY <1>1, AudioInEmpty DEF Chain, Below

LEMMA StutterInPlace == InPlace /\ UNCHANGED vars => InPlace'
<1> SUFFICES ASSUME InPlace, UNCHANGED vars PROVE InPlace'
  OBVIOUS
<1>1. pid' = pid /\ proc' = proc /\ wire' = wire /\ disk' = disk /\ cam' = cam
  BY DEF vars, serverVars, clientVars
<1> QED
  BY <1>1, InPlaceNext DEF InPlace

LEMMA StepInPlace == Base /\ Conn /\ Source /\ InPlace /\ [Next]_vars => InPlace'
<1> SUFFICES ASSUME Base, Conn, Source, InPlace, [Next]_vars PROVE InPlace'
  OBVIOUS
<1>1. CASE \E p \in Procs : ServerStep(p) /\ UNCHANGED clientVars
  BY <1>1, AcceptInPlace, QuietInPlace, PostReadInPlace DEF ServerStep
<1>2. CASE Quit /\ UNCHANGED clientVars
  BY <1>2, QuitInPlace
<1>3. CASE Clientele
  BY <1>3, ClientInPlace
<1> QED
  BY <1>1, <1>2, <1>3, StutterInPlace DEF Next, Clientele

LEMMA InPlaceOrders == Base /\ InPlace => PostedInOrder
<1> SUFFICES ASSUME Base, InPlace, pid = 0,
                    NEW i \in DOMAIN Audio(disk.data), NEW j \in DOMAIN Audio(disk.data), i < j
             PROVE  Audio(disk.data)[i] < Audio(disk.data)[j]
  BY DEF PostedInOrder
<1> PICK d : d = disk.data
  OBVIOUS
<1>1. d \in Seq(Int) /\ Main \in Procs
  BY PiecesSeq, RelayAssumption DEF Base, TypeOK, ServerTypeOK
<1>2. Ascending(d)
  BY <1>1 DEF InPlace, Chain
<1>3. \A k, l \in 1..Len(Audio(d)) : k < l => Audio(d)[k] < Audio(d)[l]
  BY <1>1, <1>2, AudioAscends
<1>4. DOMAIN Audio(d) = 1..Len(Audio(d))
  BY <1>1, AudioType
<1> QED
  BY <1>3, <1>4

\* Where the audio is, in every reachable state: it comes from the camera, and
\* with a main whose stack held 0 it is in order wherever it is.
LEMMA Invariant == Spec => [](Base /\ Conn /\ Source /\ InPlace)
<1>1. Init => Base /\ Conn /\ Source /\ InPlace
  BY InitBase, InitConn, InitSource, InitInPlace
<1>2. Base /\ Conn /\ Source /\ InPlace /\ [Next]_vars => (Base /\ Conn /\ Source /\ InPlace)'
  BY StepBase, StepConn, StepSource, StepInPlace
<1> QED
  BY <1>1, <1>2, PTL DEF Spec

\* The audio of the file ascends strictly: however the relay and the server cut
\* the stream, whatever stdio holds back, and in whatever order SIGINT makes
\* the processes write it, no piece is kept twice or before an earlier one.
THEOREM KeptInOrder == Spec => []PostedInOrder
  BY Invariant, InPlaceOrders, PTL

-----------------------------------------------------------------------------
(* What is lost on the way to the server.                                  *)

\* While the server's end is open, whoever has audio of the camera is posting.
Posting == \E p \in Procs : proc[p].conn = Camera /\ proc[p].pc = "post"
Posted == pid = 0 /\ Kept # {} /\ ~HungUp(Camera) => Posting

\* What is lost, but for what follows a zero byte, was sent before all that is
\* not.
LostBefore ==
  pid = 0 /\ ~HungUp(Camera) =>
    \A n \in (1..cam.sent) \ UnderWay :
      (\A z \in cam.zeros : n < z) => \A m \in UnderWay : n < m

LEMMA HungUpIs ==
  /\ HungUp(Camera) <=> /\ wire[Camera].end # "new" /\ Camera \notin ToSet(queue)
                        /\ \A p \in Procs : proc[p].conn # Camera
  /\ HungUp(Camera)' <=> /\ wire'[Camera].end # "new" /\ Camera \notin ToSet(queue')
                         /\ \A p \in Procs : proc'[p].conn # Camera
  BY DEF HungUp, Holders, ToSet

\* Once closed, the connection of the camera stays closed.
LEMMA ServingHung ==
  ASSUME Base, HungUp(Camera), NEW p \in Procs, NEW c, NEW r, NEW w, Serves(p, c, r, w)
  PROVE  HungUp(Camera)'
<1>1. /\ proc \in [Procs -> Process] /\ wire \in [Clients -> Line] /\ Camera \in Clients
      /\ NoClient # Camera
  BY RelayAssumption DEF Base, TypeOK, ServerTypeOK, Process, Line, Clients
<1>2. /\ c \in Clients /\ c = proc[p].conn
      /\ proc' = [proc EXCEPT ![p] = r] /\ wire' = [wire EXCEPT ![c] = w]
      /\ queue' = queue /\ r.conn \in {c, NoClient}
  BY DEF Serves, Sound
<1>3. c # Camera
  BY <1>2, HungUpIs
<1>4. wire'[Camera] = wire[Camera] /\ \A q \in Procs : proc'[q].conn # Camera
  BY <1>1, <1>2, <1>3, HungUpIs
<1> QED
  BY <1>2, <1>4, HungUpIs

LEMMA AcceptHung ==
  ASSUME Base, Conn, HungUp(Camera), NEW p \in Procs, Accept(p)
  PROVE  HungUp(Camera)'
<1> PICK c : c = Head(queue)
  OBVIOUS
<1>1. /\ c \in Clients /\ c \in ToSet(queue) /\ queue' = Tail(queue) /\ queue # << >>
      /\ wire' = wire
      /\ \A q \in Procs : proc'[q] = proc[q] \/ proc'[q] \in {Newcomer(c), Accepting}
  BY AcceptShape
<1>2. Newcomer(c).conn = c /\ Accepting.conn = NoClient /\ NoClient # Camera
  BY <1>1, AtFork, RelayAssumption DEF Clients
<1>3. ToSet(Tail(queue)) \subseteq ToSet(queue)
  <2>1. queue \in Seq(Clients)
    BY DEF Base, TypeOK, ServerTypeOK
  <2> QED
    BY <1>1, <2>1, TailQueue DEF Conn, Waiting
<1> QED
  BY <1>1, <1>2, <1>3, HungUpIs

LEMMA QuitHung ==
  ASSUME Base, HungUp(Camera), Quit
  PROVE  HungUp(Camera)'
<1>1. /\ wire' = wire /\ queue' = queue
      /\ \A p \in Procs : proc'[p] \in {[Free EXCEPT !.pc = "quit"], proc[p]}
  BY QuitShape
<1>2. [Free EXCEPT !.pc = "quit"].conn = NoClient /\ NoClient # Camera
  BY RelayAssumption DEF Free, Clients
<1> QED
  BY <1>1, <1>2, HungUpIs

LEMMA ClientHung ==
  ASSUME Base, HungUp(Camera), UNCHANGED proc, NEW c, NEW w, Attends(c, w)
  PROVE  HungUp(Camera)'
<1>1. /\ c \in Clients /\ wire' = [wire EXCEPT ![c] = w] /\ wire \in [Clients -> Line]
      /\ Camera \in Clients /\ queue \in Seq(Clients)
  BY DEF Attends, Base, TypeOK, ServerTypeOK, Line, Clients
<1>2. /\ wire[Camera].end # "new" /\ Camera \notin ToSet(queue)
      /\ \A p \in Procs : proc[p].conn # Camera
  BY HungUpIs
<1>3. /\ c = Camera => w.end # "new" /\ queue' = queue
      /\ queue' = queue \/ (queue' = Append(queue, c) /\ c # Camera)
  BY <1>2 DEF Attends
<1>4. Camera \notin ToSet(queue')
  <2>1. ToSet(Append(queue, c)) = ToSet(queue) \cup {c}
    BY <1>1, AppendedSet
  <2> QED
    BY <1>2, <1>3, <2>1
<1>5. wire'[Camera].end # "new"
  BY <1>1, <1>2, <1>3
<1> QED
  BY <1>2, <1>4, <1>5, HungUpIs

LEMMA StepHung ==
  ASSUME Base, Conn, [Next]_vars, HungUp(Camera)
  PROVE  HungUp(Camera)'
<1>1. CASE \E p \in Procs : ServerStep(p)
  <2>1. PICK p \in Procs : ServerStep(p)
    BY <1>1
  <2>2. CASE Accept(p)
    BY <2>2, AcceptHung
  <2>3. CASE GetClientType(p) \/ Answer(p) \/ PostRead(p) \/ GetWrite(p)
    <3>1. \E c, r, w : Serves(p, c, r, w)
      BY <2>3, GetClientTypeShape, AnswerShape, PostReadShape, GetWriteShape
    <3> QED
      BY <3>1, ServingHung
  <2> QED
    BY <2>1, <2>2, <2>3 DEF ServerStep
<1>2. CASE Quit
  BY <1>2, QuitHung
<1>3. CASE Clientele
  <2>1. UNCHANGED proc /\ \E c, w : Attends(c, w)
    BY <1>3, ClientShape DEF Conn
  <2> QED
    BY <2>1, ClientHung
<1>4. CASE UNCHANGED vars
  <2>1. wire' = wire /\ queue' = queue /\ proc' = proc
    BY <1>4 DEF vars, serverVars
  <2> QED
    BY <2>1, HungUpIs
<1> QED
  BY <1>1, <1>2, <1>3, <1>4 DEF Next, Clientele

\* A process that posts goes on posting until SIGINT.
LEMMA ServingPosting ==
  ASSUME Base, NEW p \in Procs, GetClientType(p) \/ Answer(p) \/ PostRead(p) \/ GetWrite(p),
         Posting
  PROVE  Posting'
<1>1. PICK q \in Procs : proc[q].conn = Camera /\ proc[q].pc = "post"
  BY DEF Posting
<1>2. PICK c, r, w : /\ Serves(p, c, r, w)
                     /\ proc[p].pc = "post" => r.pc = "post"
  BY GetClientTypeShape, AnswerShape, PostReadShape, GetWriteShape
<1>3. /\ proc \in [Procs -> Process] /\ proc' = [proc EXCEPT ![p] = r] /\ c = proc[p].conn
      /\ r.pc = "post" => r.conn = c
  BY <1>2 DEF Serves, Serving, Base, TypeOK, ServerTypeOK, Process
<1>4. proc'[q].conn = Camera /\ proc'[q].pc = "post"
  BY <1>1, <1>2, <1>3
<1> QED
  BY <1>4 DEF Posting

\* The first audio of the camera comes to a process that posts.
LEMMA ServingPosted ==
  ASSUME Base, Base', Conn, Source, Posted, NEW p \in Procs,
         GetClientType(p) \/ Answer(p) \/ PostRead(p) \/ GetWrite(p)
  PROVE  Posted'
<1>1. pid' = pid /\ (HungUp(Camera) => HungUp(Camera)')
  <2>1. \E c, r, w : Serves(p, c, r, w)
    BY GetClientTypeShape, AnswerShape, PostReadShape, GetWriteShape
  <2>2. pid' = pid
    BY <2>1 DEF Serves
  <2>3. HungUp(Camera) => HungUp(Camera)'
    BY <2>1, ServingHung
  <2> QED
    BY <2>2, <2>3
<1> SUFFICES ASSUME pid = 0, Kept' # {}, ~HungUp(Camera)
             PROVE  Posting'
  BY <1>1 DEF Posted
<1>2. CASE Kept # {}
  BY <1>2, ServingPosting DEF Posted
<1>3. CASE Kept = {} /\ PostRead(p)
  <2>1. PICK c, r, w, n, line :
          /\ Serves(p, c, r, w) /\ Reads(c, w, n) /\ Prints(p, r, line) /\ r.pc = "post"
          /\ \/ line = SubSeq(wire[c].up, 1, n)
             \/ line \in {<< >>, <<Junk>>}
    BY <1>3, PostReadShape
  <2>2. Kept' = Kept \cup AudioIn(line)
    BY <2>1, KeptPrints
  <2>3. c \in Clients
    BY <2>1 DEF Serves
  <2>4. AudioIn(line) \subseteq AudioIn(wire[c].up)
    BY <2>1, <2>3, ReadsAudio, JunkAudio
  <2>5. c = Camera
    BY <1>3, <2>2, <2>3, <2>4 DEF Source, FromCamera, Clients
  <2>6. proc \in [Procs -> Process] /\ proc' = [proc EXCEPT ![p] = r] /\ r.conn = Camera
    BY <2>1, <2>5 DEF Serves, Serving, Base, TypeOK, ServerTypeOK, Process
  <2> QED
    BY <2>1, <2>6 DEF Posting
<1>4. CASE Kept = {} /\ (GetClientType(p) \/ Answer(p) \/ GetWrite(p))
  <2>1. PICK c, r, w : /\ Serves(p, c, r, w) /\ disk'.data = disk.data /\ r.out = << >>
                       /\ proc[p].pc # "post"
    BY <1>4, GetClientTypeShape, AnswerShape, GetWriteShape
  <2>2. Kept' = Kept
    BY <2>1, KeptServes
  <2> QED
    BY <1>4, <2>2
<1> QED
  BY <1>2, <1>3, <1>4

LEMMA AcceptPosted ==
  ASSUME Base, Base', Conn, Posted, NEW p \in Procs, Accept(p)
  PROVE  Posted'
<1> PICK c : c = Head(queue)
  OBVIOUS
<1>1. /\ pid' = pid
      /\ \A q \in Procs : proc'[q] = proc[q] \/ proc[q].pc \in {"none", "accept"}
  BY AcceptShape
<1>2. Kept' = Kept /\ (HungUp(Camera) => HungUp(Camera)')
  BY KeptAccept, AcceptHung
<1>3. Posting => Posting'
  BY <1>1 DEF Posting
<1> QED
  BY <1>1, <1>2, <1>3 DEF Posted

\* SIGINT closes the connection of the camera, if it was served.
LEMMA QuitPosted ==
  ASSUME Base, Base', Conn, Posted, Quit
  PROVE  Posted'
<1>1. /\ pid' = pid /\ wire' = wire /\ queue' = queue
      /\ \A q \in Procs : \/ q \in Running /\ proc'[q] = [Free EXCEPT !.pc = "quit"]
                          \/ q \notin Running /\ proc'[q] = proc[q]
  BY QuitShape
<1>2. Kept' = Kept /\ (HungUp(Camera) => HungUp(Camera)')
  BY KeptQuit, QuitHung
<1>3. SUFFICES ASSUME Posting PROVE HungUp(Camera)'
  BY <1>1, <1>2 DEF Posted
<1>4. PICK p \in Procs : proc[p].conn = Camera /\ proc[p].pc = "post"
  BY <1>3 DEF Posting
<1>5. wire[Camera].end # "new" /\ Camera \notin ToSet(queue)
  BY <1>4 DEF Base, Fresh, Conn, Waiting, Clients
<1>6. NoClient # Camera
  BY RelayAssumption DEF Clients
<1>7. ASSUME NEW q \in Procs PROVE proc'[q].conn # Camera
  <2>1. CASE q \in Running
    BY <1>1, <1>6, <2>1 DEF Free
  <2>2. CASE q \notin Running
    <3>1. proc[q].pc \notin Serving /\ Sound(proc[q])
      BY <2>2 DEF Running, Serving, Base
    <3> QED
      BY <1>1, <1>6, <2>2, <3>1 DEF Sound
  <2> QED
    BY <2>1, <2>2
<1> QED
  BY <1>1, <1>5, <1>7, HungUpIs

LEMMA StepPosted == Base /\ Conn /\ Source /\ Posted /\ [Next]_vars => Posted'
<1> SUFFICES ASSUME Base, Conn, Source, Posted, [Next]_vars PROVE Posted'
  OBVIOUS
<1>0. Base'
  BY StepBase
<1>1. CASE \E p \in Procs : ServerStep(p)
  BY <1>0, <1>1, AcceptPosted, ServingPosted DEF ServerStep
<1>2. CASE Quit
  BY <1>0, <1>2, QuitPosted
<1>3. CASE Clientele \/ UNCHANGED vars
  <2>1. UNCHANGED <<pid, proc, disk>>
    BY <1>3, ClientShape DEF Conn, vars, serverVars
  <2>2. Kept' = Kept
    BY <1>0, <2>1, SameKept
  <2>3. HungUp(Camera) => HungUp(Camera)'
    BY StepHung
  <2>4. Posting => Posting'
    BY <2>1 DEF Posting
  <2> QED
    BY <2>1, <2>2, <2>3, <2>4 DEF Posted
<1> QED
  BY <1>1, <1>2, <1>3 DEF Next, Clientele

LEMMA CutOrder ==
  ASSUME NEW s \in Seq(Pieces), NEW n \in 0..Len(s), Ascending(s)
  PROVE  /\ Below(AudioIn(SubSeq(s, 1, n)), AudioIn(SubSeq(s, n + 1, Len(s))))
         /\ AudioIn(s) = AudioIn(SubSeq(s, 1, n)) \cup AudioIn(SubSeq(s, n + 1, Len(s)))
<1> PICK u : u = SubSeq(s, 1, n)
  OBVIOUS
<1> PICK v : v = SubSeq(s, n + 1, Len(s))
  OBVIOUS
<1>1. u \in Seq(Int) /\ v \in Seq(Int) /\ s = u \o v
  BY CutInTwo
<1>2. Below(AudioIn(u), AudioIn(v)) /\ AudioIn(s) = AudioIn(u) \cup AudioIn(v)
  BY <1>1, AscendingHalves
<1> QED
  BY <1>2

LEMMA UnderWayNext ==
  UnderWay' = Kept' \cup AudioIn(wire'[Camera].up) \cup AudioIn(cam'.up)
  BY DEF UnderWay, AudioIn

\* A step by which the camera sends nothing.
LEMMA LostLess ==
  ASSUME Base, LostBefore, pid' = pid, HungUp(Camera) => HungUp(Camera)',
         cam'.sent = cam.sent, cam'.zeros = cam.zeros,
         pid = 0 /\ ~HungUp(Camera) =>
           /\ UnderWay' \subseteq UnderWay
           /\ \A n \in UnderWay \ UnderWay' :
                (\A z \in cam.zeros : n < z) => \A m \in UnderWay' : n < m
  PROVE  LostBefore'
<1> PICK u2 : u2 = UnderWay'
  OBVIOUS
<1>1. SUFFICES ASSUME pid = 0, ~HungUp(Camera), NEW n \in (1..cam.sent) \ u2,
                      \A z \in cam.zeros : n < z, NEW m \in u2
               PROVE  n < m
  BY DEF LostBefore
<1>2. CASE n \in UnderWay
  BY <1>1, <1>2
<1>3. CASE n \notin UnderWay
  BY <1>1, <1>3 DEF LostBefore
<1> QED
  BY <1>2, <1>3

\* The rest of the read that tells the type of the request is dropped: nothing
\* has been kept by then.
LEMMA GetClientTypeLost ==
  ASSUME Base, Base', Conn, Source, InPlace, Posted, LostBefore,
         NEW p \in Procs, GetClientType(p), UNCHANGED clientVars
  PROVE  LostBefore'
<1>1. PICK c, r, w, n : /\ Serves(p, c, r, w) /\ Reads(c, w, n) /\ disk' = disk
                        /\ proc[p].pc = "type" /\ r.out = << >>
  BY GetClientTypeShape
<1>2. Kept' = Kept /\ (HungUp(Camera) => HungUp(Camera)')
  BY <1>1, KeptServes, ServingHung
<1>3. /\ wire \in [Clients -> Line] /\ Camera \in Clients /\ c \in Clients /\ c = proc[p].conn
      /\ wire' = [wire EXCEPT ![c] = w] /\ pid' = pid /\ cam' = cam
  BY <1>1, ServingTypes DEF Serves, clientVars
<1>4. ASSUME pid = 0, ~HungUp(Camera)
      PROVE  /\ UnderWay' \subseteq UnderWay
             /\ \A k \in UnderWay \ UnderWay' : \A m \in UnderWay' : k < m
  <2>1. CASE c # Camera
    <3>1. wire'[Camera] = wire[Camera]
      BY <1>3, <2>1
    <3>2. UnderWay' = UnderWay
      BY <1>2, <1>3, <3>1, UnderWayNext DEF UnderWay
    <3> QED
      BY <3>2
  <2>2. CASE c = Camera
    <3> PICK u : u = wire[Camera].up
      OBVIOUS
    <3> PICK x : x = SubSeq(u, 1, n)
      OBVIOUS
    <3> PICK v : v = SubSeq(u, n + 1, Len(u))
      OBVIOUS
    <3>1. u \in Seq(Pieces) /\ n \in 0..Len(u) /\ w.up = v /\ wire'[Camera].up = v
      <4>1. u \in Seq(Pieces)
        BY ServingTypes
      <4> QED
        BY <1>1, <1>3, <2>2, <4>1 DEF Reads
    <3>2. u \in Seq(Int)
      BY <3>1, PiecesSeq
    <3>3. Kept = {}
      <4>1. proc[p].conn = Camera /\ proc[p].pc \in Serving /\ proc[p].pc # "post"
        BY <1>1, <1>3, <2>2 DEF Serving
      <4>2. ~Posting
        BY <1>4, <4>1 DEF Conn, OneServes, Posting
      <4> QED
        BY <1>4, <4>2 DEF Posted
    <3>4. Ascending(u) /\ Below(AudioIn(u), AudioIn(cam.up))
      BY <1>4 DEF InPlace, Chain
    <3>5. Below(AudioIn(x), AudioIn(v)) /\ AudioIn(u) = AudioIn(x) \cup AudioIn(v)
      <4>1. /\ Below(AudioIn(SubSeq(u, 1, n)), AudioIn(SubSeq(u, n + 1, Len(u))))
            /\ AudioIn(u) = AudioIn(SubSeq(u, 1, n)) \cup AudioIn(SubSeq(u, n + 1, Len(u)))
        <5>1. u \in Seq(Pieces) /\ n \in 0..Len(u) /\ Ascending(u)
          BY <3>1, <3>2, <3>4
        <5> QED
          BY <5>1, CutOrder, Zenon
      <4> QED
        BY <4>1
    <3>6. UnderWay = AudioIn(x) \cup AudioIn(v) \cup AudioIn(cam.up)
      BY <3>3, <3>5 DEF UnderWay
    <3>7. UnderWay' = AudioIn(v) \cup AudioIn(cam.up)
      BY <1>2, <1>3, <3>1, <3>3, UnderWayNext
    <3> QED
      BY <3>4, <3>5, <3>6, <3>7 DEF Below
  <2> QED
    BY <2>1, <2>2
<1> QED
  BY <1>2, <1>3, <1>4, LostLess

\* A process that posts keeps what it reads, and one that answers or sends
\* reads nothing.
LEMMA ServingLost ==
  ASSUME Base, Base', Conn, Source, InPlace, LostBefore, UNCHANGED clientVars,
         NEW p \in Procs, Answer(p) \/ PostRead(p) \/ GetWrite(p)
  PROVE  LostBefore'
<1>1. CASE Answer(p) \/ GetWrite(p)
  <2>1. PICK c, r, w, data : /\ Serves(p, c, r, w) /\ Delivers(c, r, w, data)
                             /\ disk'.data = disk.data /\ r.out = << >>
                             /\ proc[p].pc # "post"
    BY <1>1, AnswerShape, GetWriteShape
  <2>2. Kept' = Kept /\ (HungUp(Camera) => HungUp(Camera)')
    BY <2>1, KeptServes, ServingHung
  <2>3. /\ wire \in [Clients -> Line] /\ Camera \in Clients /\ c \in Clients
        /\ wire' = [wire EXCEPT ![c] = w] /\ pid' = pid /\ cam' = cam /\ w.up = wire[c].up
    BY <2>1, ServingTypes DEF Serves, Delivers, clientVars
  <2>4. wire'[Camera].up = wire[Camera].up
    BY <2>3
  <2>5. UnderWay' = UnderWay
    BY <2>2, <2>3, <2>4, UnderWayNext DEF UnderWay
  <2> QED
    BY <2>2, <2>3, <2>5, LostLess
<1>2. CASE PostRead(p)
  <2>1. PICK c, r, w, n, line :
          /\ Serves(p, c, r, w) /\ Reads(c, w, n) /\ Prints(p, r, line)
          /\ \/ line = SubSeq(wire[c].up, 1, n)
             \/ line \in {<< >>, <<Junk>>} /\ w = wire[c]
    BY <1>2, PostReadShape
  <2>2. Kept' = Kept \cup AudioIn(line) /\ (HungUp(Camera) => HungUp(Camera)')
    BY <2>1, KeptPrints, ServingHung
  <2>3. /\ wire \in [Clients -> Line] /\ Camera \in Clients /\ c \in Clients
        /\ wire' = [wire EXCEPT ![c] = w] /\ pid' = pid /\ cam' = cam
        /\ line \in Seq(Pieces) /\ line \in Seq(Int)
    BY <2>1, ServingTypes, PiecesSeq DEF Serves, Prints, clientVars
  <2>4. ASSUME pid = 0 PROVE UnderWay' = UnderWay
    <3>1. CASE c = Camera
      <4>1. Ascending(wire[c].up)
        BY <2>4, <3>1 DEF InPlace, Chain
      <4>2. PICK v \in Seq(Int) : w.up = v /\ AudioIn(line \o v) = AudioIn(wire[c].up)
        BY <2>1, <2>3, <4>1, PostReadOrder
      <4>3. AudioIn(line \o v) = AudioIn(line) \cup AudioIn(v)
        BY <2>3, AudioInJoined
      <4>4. wire'[Camera].up = v /\ AudioIn(wire[Camera].up) = AudioIn(line) \cup AudioIn(v)
        BY <2>3, <3>1, <4>2, <4>3
      <4> QED
        BY <2>2, <2>3, <4>4, UnderWayNext DEF UnderWay
    <3>2. CASE c # Camera
      <4>1. wire'[Camera].up = wire[Camera].up /\ c \in Readers
        BY <2>3, <3>2 DEF Clients
      <4>2. AudioIn(line) = {}
        <5>1. AudioIn(line) \subseteq AudioIn(wire[c].up)
          BY <2>1, <2>3, ReadsAudio, JunkAudio
        <5> QED
          BY <4>1, <5>1 DEF Source, FromCamera
      <4> QED
        BY <2>2, <2>3, <4>1, <4>2, UnderWayNext DEF UnderWay
    <3> QED
      BY <3>1, <3>2
  <2> QED
    BY <2>2, <2>3, <2>4, LostLess
<1> QED
  BY <1>1, <1>2

\* The relay sends on all it has read, unless that begins with the status line
\* or holds a zero byte, behind which the rest is lost.
LEMMA ForwardedLost ==
  ASSUME Base, NEW data \in Seq(Pieces), data # << >>, Ascending(data),
         cam.zeros \subseteq Nat \ {0},
         NEW y \in AudioIn(data) \ AudioIn(Forwarded(data))
  PROVE  data[1] = Http \/ \E z \in cam.zeros : z < y
<1> PICK f : f = Forwarded(data)
  OBVIOUS
<1> PICK n : n = Len(data)
  OBVIOUS
<1>1. data \in Seq(Int) /\ <<Junk>> \in Seq(Int) /\ DOMAIN data = 1..n /\ n \in Nat
  BY PiecesSeq DEF Junk
<1>2. CASE f = Append(data, Junk)
  <2>1. f = data \o <<Junk>>
    BY <1>1, <1>2, AppendIsConcat DEF Junk
  <2>2. AudioIn(data) \subseteq AudioIn(data \o <<Junk>>)
    BY <1>1, AudioInJoined
  <2> QED
    BY <2>1, <2>2
<1>3. CASE \E k \in 1..n : f = SubSeq(data, 1, k) /\ (k = n \/ data[k] \in cam.zeros)
  <2>1. PICK k \in 1..n : f = SubSeq(data, 1, k) /\ (k = n \/ data[k] \in cam.zeros)
    BY <1>3
  <2>2. PICK j \in 1..n : data[j] = y /\ y > 0
    BY <1>1 DEF AudioIn, ToSet
  <2>3. 0 \in 0..n /\ k \in 0..n /\ 0 + 1 = 1 /\ k - 0 = k
    BY <1>1
  <2>4. f \in Seq(Pieces) /\ Len(f) = k /\ \A i \in 1..k : f[i] = data[i]
    <3>1. /\ SubSeq(data, 0 + 1, k) \in Seq(Pieces) /\ Len(SubSeq(data, 0 + 1, k)) = k - 0
          /\ \A i \in 1..k - 0 : SubSeq(data, 0 + 1, k)[i] = data[i + 0]
      BY <2>3, Cut
    <3>2. \A i \in 1..k : i + 0 = i
      OBVIOUS
    <3> QED
      BY <2>1, <2>3, <3>1, <3>2
  <2>5. k < j
    <3>1. CASE j \in 1..k
      <4>1. f[j] = y /\ DOMAIN f = 1..k
        BY <2>2, <2>4, <3>1
      <4> QED
        BY <2>2, <3>1, <4>1 DEF AudioIn, ToSet
    <3> QED
      BY <1>1, <3>1
  <2>6. k # n /\ data[k] \in cam.zeros
    BY <1>1, <2>1, <2>5
  <2>7. data[k] > 0
    BY <2>6
  <2>8. data[k] < data[j]
    BY <2>2, <2>5, <2>7 DEF Ascending
  <2> QED
    BY <2>2, <2>6, <2>8
<1> QED
  BY <1>2, <1>3, ForwardedShape

LEMMA RelaysLost ==
  ASSUME Base, Base', Conn, Source, InPlace, Posted, LostBefore,
         UNCHANGED <<pid, proc, disk>>, HungUp(Camera) => HungUp(Camera)',
         relay.pc = "select", NEW n, NEW data, Relays(n, data)
  PROVE  LostBefore'
<1> PICK f : f = Forwarded(data)
  OBVIOUS
<1> PICK c : c = cam.up
  OBVIOUS
<1> PICK c2 : c2 = SubSeq(c, n + 1, Len(c))
  OBVIOUS
<1> PICK u : u = wire[Camera].up
  OBVIOUS
<1>1. /\ c \in Seq(Pieces) /\ n \in 1..Len(c) /\ data = SubSeq(c, 1, n) /\ cam'.up = c2
      /\ n \in 0..Len(c) /\ cam'.sent = cam.sent /\ cam'.zeros = cam.zeros
  <2>1. c \in Seq(Pieces) /\ n \in 1..Len(c) /\ data = SubSeq(c, 1, n) /\ cam'.up = c2
    BY DEF Relays, Base, TypeOK
  <2>2. n \in 0..Len(c)
    BY <2>1
  <2> QED
    BY <2>1, <2>2, RelaysAudio
<1>2. PICK w \in Line : /\ wire' = [wire EXCEPT ![Camera] = w]
                        /\ w.up = IF wire[Camera].end = "up" /\ ~HungUp(Camera)
                                  THEN wire[Camera].up \o Forwarded(data)
                                  ELSE wire[Camera].up
  BY RelaysShape
<1>3. data \in Seq(Pieces) /\ data # << >> /\ f \in Seq(Pieces)
  BY RelaysShape
<1>4. wire'[Camera].up = IF wire[Camera].end = "up" /\ ~HungUp(Camera) THEN u \o f ELSE u
  <2>1. wire \in [Clients -> Line] /\ Camera \in Clients
    BY DEF Base, TypeOK, ServerTypeOK, Line, Clients
  <2> QED
    BY <1>2, <2>1
<1>5. f \in Seq(Int) /\ u \in Seq(Int)
  <2>1. u \in Seq(Pieces)
    BY DEF Base, TypeOK, ServerTypeOK, Clients
  <2> QED
    BY <1>3, <2>1, PiecesSeq
<1>6. AudioIn(f) \subseteq AudioIn(data)
  BY <1>3, ForwardedAudio
<1>7. Kept' = Kept
  BY SameKept
<1>8. ASSUME pid = 0, ~HungUp(Camera)
      PROVE  /\ UnderWay' \subseteq UnderWay
             /\ \A k \in UnderWay \ UnderWay' :
                  (\A z \in cam.zeros : k < z) => \A m \in UnderWay' : k < m
  <2>1. Main \in Procs
    BY RelayAssumption
  <2>2. Ascending(c)
    BY <1>8, <2>1 DEF InPlace, Chain
  <2>3. Below(AudioIn(data), AudioIn(c2)) /\ AudioIn(c) = AudioIn(data) \cup AudioIn(c2)
    <3>1. c \in Seq(Pieces) /\ n \in 0..Len(c) /\ Ascending(c)
      BY <1>1, <2>2
    <3>2. /\ Below(AudioIn(SubSeq(c, 1, n)), AudioIn(SubSeq(c, n + 1, Len(c))))
          /\ AudioIn(c) = AudioIn(SubSeq(c, 1, n)) \cup AudioIn(SubSeq(c, n + 1, Len(c)))
      BY <3>1, CutOrder, Zenon
    <3> QED
      BY <1>1, <3>2
  <2>4. Ascending(data)
    <3>1. /\ SubSeq(c, 1, n) \in Seq(Int) /\ SubSeq(c, n + 1, Len(c)) \in Seq(Int)
          /\ c = SubSeq(c, 1, n) \o SubSeq(c, n + 1, Len(c))
      <4>1. c \in Seq(Pieces) /\ n \in 0..Len(c)
        BY <1>1
      <4> QED
        BY <4>1, CutInTwo, Zenon
    <3>2. data \in Seq(Int) /\ c2 \in Seq(Int) /\ c = data \o c2
      BY <1>1, <3>1
    <3> QED
      BY <2>2, <3>2, AscendingHalves
  <2>5. UnderWay = Kept \cup AudioIn(u) \cup AudioIn(data) \cup AudioIn(c2)
    BY <2>3 DEF UnderWay
  <2>6. CASE wire[Camera].end = "up"
    <3>1. UnderWay' = Kept \cup AudioIn(u) \cup AudioIn(f) \cup AudioIn(c2)
      <4>1. AudioIn(u \o f) = AudioIn(u) \cup AudioIn(f)
        BY <1>5, AudioInJoined
      <4>2. wire'[Camera].up = u \o f
        BY <1>4, <1>8, <2>6
      <4> QED
        BY <1>1, <1>7, <4>1, <4>2, UnderWayNext
    <3>2. SUFFICES ASSUME NEW k \in UnderWay \ UnderWay', \A z \in cam.zeros : k < z,
                          NEW m \in UnderWay'
                   PROVE  k < m
      BY <1>6, <2>5, <3>1
    <3>3. k \in AudioIn(data) \ AudioIn(f)
      BY <2>5, <3>1, <3>2
    <3>4. cam.zeros \subseteq Nat \ {0} /\ k \in Nat
      <4>1. k \in Nat
        BY <1>3, <3>3, PiecesSeq, AudioInInt
      <4> QED
        BY <4>1 DEF Conn, Asked
    <3>5. data[1] = Http
      <4>1. data[1] = Http \/ \E z \in cam.zeros : z < k
        BY <1>3, <2>4, <3>3, <3>4, ForwardedLost
      <4> QED
        BY <3>2, <3>4, <4>1
    <3>6. Kept = {} /\ AudioIn(u) = {}
      <4>1. c[1] = Http /\ 1 \in 1..Len(c)
        <5>1. \A i \in 1..n : SubSeq(c, 1, n)[i] = c[i]
          BY <1>1
        <5> QED
          BY <1>1, <3>5, <5>1
      <4> QED
        BY <4>1 DEF Source, AfterHttp
    <3>7. AudioIn(f) = {}
      <4>1. f = <<Post>>
        BY <1>3, <3>5, ForwardedShape
      <4> QED
        BY <4>1, JunkAudio
    <3>8. m \in AudioIn(c2)
      BY <3>1, <3>6, <3>7
    <3> QED
      BY <2>3, <3>3, <3>8 DEF Below
  <2>7. CASE wire[Camera].end = "new"
    <3>1. Kept = {}
      <4>1. ~Posting
        BY <2>7 DEF Base, Fresh, Clients, Posting
      <4> QED
        BY <1>8, <4>1 DEF Posted
    <3>2. u = << >> /\ wire'[Camera].up = u
      BY <1>4, <2>7 DEF Base, Fresh, Clients
    <3>3. UnderWay' = AudioIn(c2)
      BY <1>1, <1>7, <3>1, <3>2, UnderWayNext, AudioInEmpty
    <3>4. UnderWay = AudioIn(data) \cup AudioIn(c2)
      BY <2>5, <3>1, <3>2, AudioInEmpty
    <3> QED
      BY <2>3, <3>3, <3>4 DEF Below
  <2>8. wire[Camera].end \in {"new", "up"}
    <3>1. wire[Camera].end \in {"new", "up", "shut", "reset"}
      BY DEF Base, TypeOK, ServerTypeOK, Clients
    <3> QED
      BY <3>1 DEF Conn, Dialled
  <2> QED
    BY <2>6, <2>7, <2>8
<1> QED
  BY <1>1, <1>8, LostLess

\* accept() and SIGINT touch no audio on its way.
LEMMA AcceptLost ==
  ASSUME Base, Base', Conn, LostBefore, NEW p \in Procs, Accept(p), UNCHANGED clientVars
  PROVE  LostBefore'
<1> PICK c : c = Head(queue)
  OBVIOUS
<1>1. pid' = pid /\ wire' = wire /\ cam' = cam
  BY AcceptShape DEF clientVars
<1>2. Kept' = Kept /\ (HungUp(Camera) => HungUp(Camera)')
  BY KeptAccept, AcceptHung
<1>3. UnderWay' = UnderWay
  BY <1>1, <1>2, UnderWayNext DEF UnderWay
<1> QED
  BY <1>1, <1>2, <1>3, LostLess

LEMMA QuitLost ==
  ASSUME Base, Base', LostBefore, Quit, UNCHANGED clientVars
  PROVE  LostBefore'
<1>1. pid' = pid /\ wire' = wire /\ cam' = cam
  BY QuitShape DEF clientVars
<1>2. Kept' = Kept /\ (HungUp(Camera) => HungUp(Camera)')
  BY KeptQuit, QuitHung
<1>3. UnderWay' = UnderWay
  BY <1>1, <1>2, UnderWayNext DEF UnderWay
<1> QED
  BY <1>1, <1>2, <1>3, LostLess

\* Nobody but the relay writes audio to the server.
LEMMA AttendsSame ==
  ASSUME Base, NEW c, NEW w, Attends(c, w)
  PROVE  \/ relay.pc = "select" /\ \E n, data : Relays(n, data)
         \/ AudioIn(wire'[Camera].up) = AudioIn(wire[Camera].up)
<1>1. /\ c \in Clients /\ wire' = [wire EXCEPT ![c] = w] /\ wire \in [Clients -> Line]
      /\ Camera \in Clients
  BY DEF Attends, Base, TypeOK, ServerTypeOK, Line, Clients
<1>2. \/ relay.pc = "select" /\ \E n, data : Relays(n, data)
      \/ w.up = wire[c].up
      \/ wire[c].end = "new" /\ c = Camera /\ w.up \in {<< >>, <<Get>>}
      \/ c # Camera
  BY DEF Attends
<1>3. CASE w.up = wire[c].up \/ c # Camera
  BY <1>1, <1>3
<1>4. CASE wire[c].end = "new" /\ c = Camera /\ w.up \in {<< >>, <<Get>>}
  <2>1. wire[Camera].up = << >>
    BY <1>1, <1>4 DEF Base, Fresh
  <2>2. AudioIn(w.up) = {} /\ AudioIn(<< >>) = {}
    BY <1>4, JunkAudio
  <2> QED
    BY <1>1, <1>4, <2>1, <2>2
<1> QED
  BY <1>2, <1>3, <1>4

\* What the camera sends is the last so far.
LEMMA SendsLost ==
  ASSUME Base, Base', LostBefore, HungUp(Camera) => HungUp(Camera)', pid' = pid,
         Kept' = Kept, AudioIn(wire'[Camera].up) = AudioIn(wire[Camera].up),
         cam.sent >= 0, cam'.sent = cam.sent + 1, cam'.up = Append(cam.up, cam.sent + 1),
         cam.zeros \subseteq cam'.zeros
  PROVE  LostBefore'
<1> PICK s : s = cam.sent
  OBVIOUS
<1> PICK t : t = cam'.sent
  OBVIOUS
<1> PICK u2 : u2 = UnderWay'
  OBVIOUS
<1>1. s \in Nat /\ t = s + 1 /\ cam.up \in Seq(Int)
  BY RelayAssumption, PiecesSeq DEF Base, TypeOK
<1>2. u2 = UnderWay \cup {s + 1}
  <2>1. /\ <<s + 1>> \in Seq(Int) /\ Append(cam.up, s + 1) = cam.up \o <<s + 1>>
        /\ AudioIn(<<s + 1>>) = {s + 1}
    <3>1. s + 1 \in Int /\ s + 1 > 0
      BY <1>1
    <3>2. Append(cam.up, s + 1) = cam.up \o <<s + 1>>
      BY <1>1, <3>1, AppendIsConcat
    <3>3. ToSet(<<s + 1>>) = {s + 1}
      BY <3>1 DEF ToSet
    <3> QED
      BY <3>1, <3>2, <3>3 DEF AudioIn
  <2>2. AudioIn(cam.up \o <<s + 1>>) = AudioIn(cam.up) \cup AudioIn(<<s + 1>>)
    BY <1>1, <2>1, AudioInJoined
  <2>3. AudioIn(cam'.up) = AudioIn(cam.up) \cup {s + 1}
    BY <2>1, <2>2
  <2> QED
    BY <2>3, UnderWayNext DEF UnderWay
<1>3. SUFFICES ASSUME pid = 0, ~HungUp(Camera), NEW n \in (1..t) \ u2,
                      \A z \in cam'.zeros : n < z, NEW m \in u2
               PROVE  n < m
  BY DEF LostBefore
<1>4. n \in (1..s) \ UnderWay /\ n < s + 1
  BY <1>1, <1>2
<1>5. CASE m = s + 1
  BY <1>4, <1>5
<1>6. CASE m \in UnderWay
  BY <1>3, <1>4, <1>6 DEF LostBefore
<1> QED
  BY <1>2, <1>5, <1>6

LEMMA ClientLost ==
  ASSUME Base, Base', Conn, Source, InPlace, Posted, LostBefore, [Next]_vars, Clientele
  PROVE  LostBefore'
<1>1. UNCHANGED <<pid, proc, disk>> /\ Speaks
  BY ClientShape DEF Conn
<1>2. PICK c, w : Attends(c, w)
  BY ClientShape DEF Conn
<1>3. Kept' = Kept /\ (HungUp(Camera) => HungUp(Camera)')
  BY <1>1, SameKept, StepHung
<1>4. CASE relay.pc = "select" /\ \E n, data : Relays(n, data)
  BY <1>1, <1>3, <1>4, RelaysLost
<1>5. CASE ~(relay.pc = "select" /\ \E n, data : Relays(n, data))
  <2>1. AudioIn(wire'[Camera].up) = AudioIn(wire[Camera].up)
    BY <1>2, <1>5, AttendsSame
  <2>2. CASE UNCHANGED <<cam.up, cam.sent, cam.zeros>>
    <3>1. UnderWay' = UnderWay
      BY <1>3, <2>1, <2>2, UnderWayNext DEF UnderWay
    <3> QED
      BY <1>1, <1>3, <2>2, <3>1, LostLess
  <2>3. CASE cam'.sent = 0
    <3>1. 1..0 = {}
      OBVIOUS
    <3> QED
      BY <2>3, <3>1 DEF LostBefore
  <2>4. CASE /\ cam.sent >= 0 /\ cam'.sent = cam.sent + 1
             /\ cam'.up = Append(cam.up, cam.sent + 1) /\ cam.zeros \subseteq cam'.zeros
    BY <1>1, <1>3, <2>1, <2>4, SendsLost
  <2> QED
    BY <1>1, <1>5, <2>2, <2>3, <2>4 DEF Speaks
<1> QED
  BY <1>4, <1>5

LEMMA InitLost == Init => Posted /\ LostBefore
<1> SUFFICES ASSUME Init PROVE Posted /\ LostBefore
  OBVIOUS
<1>1. cam.sent = -1 /\ disk.data = << >> /\ \A p \in Procs : proc[p].out = << >>
  BY DEF Init, Free
<1>2. Kept = {}
  <2>1. Kept = AudioIn(disk.data) \cup (UNION {AudioIn(proc[p].out) : p \in Procs})
    BY InitBase, KeptIs
  <2> QED
    BY <1>1, <2>1, AudioInEmpty
<1>3. 1..(-1) = {}
  OBVIOUS
<1> QED
  BY <1>1, <1>2, <1>3 DEF Posted, LostBefore

LEMMA StutterLost == LostBefore /\ UNCHANGED vars => LostBefore'
<1> SUFFICES ASSUME LostBefore, UNCHANGED vars PROVE LostBefore'
  OBVIOUS
<1>1. /\ pid' = pid /\ proc' = proc /\ queue' = queue /\ wire' = wire /\ disk' = disk
      /\ cam' = cam
  BY DEF vars, serverVars, clientVars
<1>2. Kept' = Kept
  BY <1>1 DEF Kept
<1>3. UnderWay' = UnderWay
  BY <1>1, <1>2, UnderWayNext DEF UnderWay
<1>4. HungUp(Camera)' <=> HungUp(Camera)
  BY <1>1, HungUpIs
<1> PICK u2 : u2 = UnderWay'
  OBVIOUS
<1>5. SUFFICES ASSUME pid = 0, ~HungUp(Camera), NEW n \in (1..cam.sent) \ u2,
                      \A z \in cam.zeros : n < z, NEW m \in u2
               PROVE  n < m
  BY <1>1, <1>4 DEF LostBefore
<1> QED
  BY <1>3, <1>5 DEF LostBefore

LEMMA StepLost ==
  Base /\ Conn /\ Source /\ InPlace /\ Posted /\ LostBefore /\ [Next]_vars => LostBefore'
<1> SUFFICES ASSUME Base, Conn, Source, InPlace, Posted, LostBefore, [Next]_vars
             PROVE  LostBefore'
  OBVIOUS
<1>0. Base'
  BY StepBase
<1>1. CASE \E p \in Procs : ServerStep(p) /\ UNCHANGED clientVars
  BY <1>0, <1>1, AcceptLost, GetClientTypeLost, ServingLost DEF ServerStep
<1>2. CASE Quit /\ UNCHANGED clientVars
  BY <1>0, <1>2, QuitLost
<1>3. CASE Clientele
  BY <1>0, <1>3, ClientLost
<1> QED
  BY <1>1, <1>2, <1>3, StutterLost DEF Next, Clientele

LEMMA LostLeavesNoGap == Base /\ Source /\ LostBefore => NoGap
<1> SUFFICES ASSUME Base, Source, LostBefore, pid = 0, ~HungUp(Camera),
                    NEW m \in Kept, NEW n \in 1..MaxPieces,
                    m < n, n <= cam.sent, \A z \in cam.zeros : n < z
             PROVE  n \in Kept \cup ToSet(cam.up) \cup ToSet(wire[Camera].up)
  BY DEF NoGap
<1>1. m \in UnderWay
  BY DEF UnderWay
<1>2. cam.sent \in Int /\ m \in Int
  <2>1. cam.sent \in Int
    BY RelayAssumption DEF Base, TypeOK
  <2>2. m \in 1..cam.sent
    BY <1>1 DEF Source, AllSent
  <2> QED
    BY <2>1, <2>2
<1>3. CASE n \in UnderWay
  BY <1>3 DEF UnderWay, AudioIn
<1>4. CASE n \notin UnderWay
  <2>1. n \in (1..cam.sent) \ UnderWay
    BY <1>2, <1>4
  <2>2. n < m
    BY <1>1, <2>1 DEF LostBefore
  <2> QED
    BY <1>2, <2>2
<1> QED
  BY <1>3, <1>4

\* From the first piece in the file or held back for it, every later piece the
\* camera has sent is there too or still on its way, as long as the server's
\* end is open and no zero byte has cut what recvline held: what the relay and
\* the first read of the server drop comes before all that is not dropped.
THEOREM NothingMissing == Spec => []NoGap
<1>1. Init => Base /\ Conn /\ Source /\ InPlace /\ Posted /\ LostBefore
  BY InitBase, InitConn, InitSource, InitInPlace, InitLost
<1>2. Base /\ Conn /\ Source /\ InPlace /\ Posted /\ LostBefore /\ [Next]_vars
        => (Base /\ Conn /\ Source /\ InPlace /\ Posted /\ LostBefore)'
  BY StepBase, StepConn, StepSource, StepInPlace, StepPosted, StepLost
<1>3. Base /\ Conn /\ Source /\ InPlace /\ Posted /\ LostBefore => NoGap
  BY LostLeavesNoGap
<1> QED
  BY <1>1, <1>2, <1>3, PTL DEF Spec

-----------------------------------------------------------------------------
(* A process at accept().                                                  *)

Used == {p \in Procs : proc[p].pc # "none"}
Attended == \E p \in Procs : proc[p].pc \in {"accept", "quit"}

\* fork() makes one process for each connection accepted, and one that serves
\* comes back to accept() or ends: only a limit on processes can leave nobody
\* there.
Staffed ==
  /\ IsFiniteSet(Accepted)
  /\ pid = 0 => Cardinality(Used) <= Cardinality(Accepted) + 1
  /\ pid = 0 /\ Cardinality(Accepted) < Cardinality(Procs) => Attended

LEMMA AcceptedNext ==
  Accepted' = {c \in Clients : wire'[c].end # "new" /\ c \notin ToSet(queue')}
  BY DEF Accepted, ToSet

LEMMA UsedFinite ==
  /\ IsFiniteSet(Procs) /\ IsFiniteSet(Used) /\ Cardinality(Used) \in Nat
  /\ Used = Procs => Cardinality(Used) = Cardinality(Procs)
<1>1. IsFiniteSet(Procs) /\ Used \in SUBSET Procs
  BY RelayAssumption DEF Used
<1>2. IsFiniteSet(Used)
  BY <1>1, FS_Subset
<1> QED
  BY <1>1, <1>2, FS_CardinalityType

\* A step other than accept().
LEMMA SameStaff ==
  ASSUME Staffed, pid' = pid, Accepted' = Accepted, Used' \subseteq Used,
         Attended => Attended'
  PROVE  Staffed'
<1> PICK a : a = Accepted
  OBVIOUS
<1> PICK u : u = Used'
  OBVIOUS
<1>1. IsFiniteSet(a) /\ Cardinality(a) \in Nat /\ Accepted' = a
  BY FS_CardinalityType DEF Staffed
<1>2. Cardinality(u) \in Nat /\ Cardinality(u) <= Cardinality(Used)
  <2>1. u \in SUBSET Used
    OBVIOUS
  <2> QED
    BY <2>1, UsedFinite, FS_Subset, FS_CardinalityType
<1>3. pid = 0 => Cardinality(u) <= Cardinality(a) + 1
  BY <1>1, <1>2, UsedFinite DEF Staffed
<1> QED
  BY <1>1, <1>3 DEF Staffed

LEMMA ServingStaff ==
  ASSUME Base, Staffed, NEW p \in Procs,
         GetClientType(p) \/ Answer(p) \/ PostRead(p) \/ GetWrite(p)
  PROVE  Staffed'
<1>1. PICK c, r, w : Serves(p, c, r, w)
  BY GetClientTypeShape, AnswerShape, PostReadShape, GetWriteShape
<1>2. /\ proc \in [Procs -> Process] /\ proc' = [proc EXCEPT ![p] = r] /\ proc[p].pc \in Serving
      /\ wire \in [Clients -> Line] /\ wire' = [wire EXCEPT ![c] = w] /\ c \in Clients
      /\ queue' = queue /\ pid' = pid
      /\ w.end = wire[c].end \/ (wire[c].end = "shut" /\ w.end = "reset")
  BY <1>1 DEF Serves, Base, TypeOK, ServerTypeOK, Process, Line
<1>3. Accepted' = Accepted
  <2>1. \A k \in Clients : wire'[k].end = "new" <=> wire[k].end = "new"
    BY <1>2
  <2> QED
    BY <1>2, <2>1, AcceptedNext DEF Accepted
<1>4. Used' \subseteq Used
  BY <1>2 DEF Used, Serving
<1>5. Attended => Attended'
  BY <1>2 DEF Attended, Serving
<1> QED
  BY <1>2, <1>3, <1>4, <1>5, SameStaff

LEMMA QuitStaff ==
  ASSUME Base, Staffed, Quit
  PROVE  Staffed'
<1>1. /\ wire' = wire /\ queue' = queue /\ pid' = pid
      /\ \A p \in Procs : \/ p \in Running /\ proc'[p] = [Free EXCEPT !.pc = "quit"]
                          \/ p \notin Running /\ proc'[p] = proc[p]
  BY QuitShape
<1>2. [Free EXCEPT !.pc = "quit"].pc = "quit"
  BY DEF Free
<1>3. Accepted' = Accepted
  BY <1>1, AcceptedNext DEF Accepted
<1>4. Used' \subseteq Used
  BY <1>1 DEF Used, Running
<1>5. Attended => Attended'
  BY <1>1, <1>2 DEF Attended, Running
<1> QED
  BY <1>1, <1>3, <1>4, <1>5, SameStaff

LEMMA ClientStaff ==
  ASSUME Base, Conn, Staffed, Clientele
  PROVE  Staffed'
<1>1. pid' = pid /\ proc' = proc
  BY ClientShape DEF Conn
<1>2. PICK c, w : Attends(c, w)
  BY ClientShape DEF Conn
<1>3. /\ c \in Clients /\ wire' = [wire EXCEPT ![c] = w] /\ wire \in [Clients -> Line]
      /\ queue \in Seq(Clients)
  BY <1>2 DEF Attends, Base, TypeOK, ServerTypeOK, Line
<1>4. \/ queue' = queue /\ (w.end = "new" <=> wire[c].end = "new")
      \/ queue' = Append(queue, c) /\ wire[c].end = "new"
  BY <1>2 DEF Attends
<1>5. Accepted' = Accepted
  <2>1. CASE queue' = queue /\ (w.end = "new" <=> wire[c].end = "new")
    <3>1. \A k \in Clients : wire'[k].end = "new" <=> wire[k].end = "new"
      BY <1>3, <2>1
    <3> QED
      BY <2>1, <3>1, AcceptedNext DEF Accepted
  <2>2. CASE queue' = Append(queue, c) /\ wire[c].end = "new"
    <3>1. ToSet(queue') = ToSet(queue) \cup {c}
      BY <1>3, <2>2, AppendedSet
    <3>2. \A k \in Clients \ {c} : wire'[k] = wire[k]
      BY <1>3
    <3>3. c \notin Accepted /\ c \notin Accepted'
      BY <2>2, <3>1, AcceptedNext DEF Accepted
    <3> QED
      BY <3>1, <3>2, <3>3, AcceptedNext DEF Accepted
  <2> QED
    BY <1>4, <2>1, <2>2
<1>6. Used' \subseteq Used /\ (Attended => Attended')
  BY <1>1 DEF Used, Attended
<1> QED
  BY <1>1, <1>5, <1>6, SameStaff

\* accept() takes one connection more, and fork() makes one process at most.
LEMMA AcceptStaff ==
  ASSUME Base, Conn, Staffed, NEW p \in Procs, Accept(p)
  PROVE  Staffed'
<1> PICK c : c = Head(queue)
  OBVIOUS
<1> PICK a : a = Accepted
  OBVIOUS
<1> PICK a2 : a2 = Accepted'
  OBVIOUS
<1>1. /\ c \in Clients /\ c \in ToSet(queue) /\ queue' = Tail(queue) /\ queue # << >>
      /\ pid' = pid /\ wire' = wire /\ proc[p].pc = "accept"
      /\ pid = 0 => \/ proc' = proc
                    \/ /\ proc'[p] = Newcomer(c)
                       /\ \/ \E q \in Procs : proc[q].pc = "none" /\ proc'[q] = Accepting
                               /\ \A s \in Procs \ {p, q} : proc'[s] = proc[s]
                          \/ /\ \A q \in Procs : proc[q].pc # "none"
                             /\ \A q \in Procs \ {p} : proc'[q] = proc[q]
  BY AcceptShape
<1>2. a2 = a \cup {c} /\ c \notin a
  <2>1. queue \in Seq(Clients) /\ IsInjective(queue)
    BY DEF Base, TypeOK, ServerTypeOK, Conn, Waiting
  <2>2. ToSet(queue) = ToSet(queue') \cup {c} /\ c \notin ToSet(queue')
    BY <1>1, <2>1, QueueHead
  <2>3. wire[c].end # "new"
    BY <1>1 DEF Base, Fresh
  <2> QED
    BY <1>1, <2>2, <2>3, AcceptedNext DEF Accepted
<1>3. /\ IsFiniteSet(a) /\ IsFiniteSet(a2) /\ Cardinality(a) \in Nat
      /\ Cardinality(a2) = Cardinality(a) + 1
  <2>1. IsFiniteSet(a)
    BY DEF Staffed
  <2> QED
    BY <1>2, <2>1, FS_AddElement, FS_CardinalityType
<1>4. SUFFICES ASSUME pid = 0
               PROVE  /\ Cardinality(Used') <= Cardinality(a2) + 1
                      /\ Cardinality(a2) < Cardinality(Procs) => Attended'
  BY <1>1, <1>3 DEF Staffed
<1>5. Cardinality(Used) <= Cardinality(a) + 1 /\ Cardinality(Used) \in Nat
  BY <1>4, UsedFinite DEF Staffed
<1>6. CASE proc' = proc
  <2>1. Used' = Used /\ Attended'
    BY <1>1, <1>6 DEF Used, Attended
  <2> QED
    BY <1>3, <1>5, <2>1
<1>7. CASE /\ proc'[p] = Newcomer(c)
           /\ \E q \in Procs : proc[q].pc = "none" /\ proc'[q] = Accepting
                /\ \A s \in Procs \ {p, q} : proc'[s] = proc[s]
  <2>1. PICK q \in Procs : /\ proc[q].pc = "none" /\ proc'[q] = Accepting
                           /\ \A s \in Procs \ {p, q} : proc'[s] = proc[s]
    BY <1>7
  <2>2. Accepting.pc = "accept" /\ Newcomer(c).pc = "type"
    BY <1>1, AtFork
  <2>3. Used' = Used \cup {q} /\ q \notin Used
    BY <1>1, <1>7, <2>1, <2>2 DEF Used
  <2>4. Cardinality(Used') = Cardinality(Used) + 1
    BY <2>3, UsedFinite, FS_AddElement
  <2>5. Attended'
    BY <2>1, <2>2 DEF Attended
  <2> QED
    BY <1>3, <1>5, <2>4, <2>5
<1>8. CASE /\ proc'[p] = Newcomer(c)
           /\ \A q \in Procs : proc[q].pc # "none"
           /\ \A q \in Procs \ {p} : proc'[q] = proc[q]
  <2>1. Used = Procs /\ Used' = Procs
    BY <1>1, <1>8, AtFork DEF Used
  <2>2. Cardinality(Procs) <= Cardinality(a2)
    BY <1>3, <1>5, <2>1
  <2>3. Cardinality(Procs) \in Nat
    BY UsedFinite, FS_CardinalityType
  <2> QED
    BY <1>3, <2>1, <2>2, <2>3
<1> QED
  BY <1>1, <1>4, <1>6, <1>7, <1>8

LEMMA InitStaff == Init => Staffed
<1> SUFFICES ASSUME Init PROVE Staffed
  OBVIOUS
<1>1. /\ proc = [p \in Procs |-> IF p = Main THEN [Free EXCEPT !.pc = "accept"] ELSE Free]
      /\ wire = [c \in Clients |-> [end |-> "new", up |-> << >>, down |-> << >>]]
      /\ Main \in Procs
  BY RelayAssumption DEF Init
<1>2. proc[Main].pc = "accept" /\ \A p \in Procs \ {Main} : proc[p].pc = "none"
  BY <1>1 DEF Free
<1>3. Accepted = {} /\ Used = {Main} /\ Attended
  BY <1>1, <1>2 DEF Accepted, Used, Attended
<1>4. IsFiniteSet(Accepted) /\ Cardinality(Accepted) = 0 /\ Cardinality(Used) = 1
  BY <1>3, FS_EmptySet, FS_Singleton
<1> QED
  BY <1>3, <1>4 DEF Staffed

LEMMA StutterStaff == Staffed /\ UNCHANGED vars => Staffed'
<1> SUFFICES ASSUME Staffed, UNCHANGED vars PROVE Staffed'
  OBVIOUS
<1>1. pid' = pid /\ proc' = proc /\ queue' = queue /\ wire' = wire
  BY DEF vars, serverVars
<1>2. Accepted' = Accepted
  BY <1>1, AcceptedNext DEF Accepted
<1>3. Used' \subseteq Used /\ (Attended => Attended')
  BY <1>1 DEF Used, Attended
<1> QED
  BY <1>1, <1>2, <1>3, SameStaff

LEMMA StepStaff == Base /\ Conn /\ Staffed /\ [Next]_vars => Staffed'
<1> SUFFICES ASSUME Base, Conn, Staffed, [Next]_vars PROVE Staffed'
  OBVIOUS
<1>1. CASE \E p \in Procs : ServerStep(p)
  BY <1>1, AcceptStaff, ServingStaff DEF ServerStep
<1>2. CASE Quit
  BY <1>2, QuitStaff
<1>3. CASE Clientele
  BY <1>3, ClientStaff
<1> QED
  BY <1>1, <1>2, <1>3, StutterStaff DEF Next, Clientele

\* As long as fewer connections were accepted than there may be processes, a
\* process is at accept(), or SIGINT has stopped one: neither a client that is
\* gone, nor a missing file, nor a loop that does not end takes the last one.
THEOREM SomebodyAccepts == Spec => []Available
<1>1. Init => Base /\ Conn /\ Staffed
  BY InitBase, InitConn, InitStaff
<1>2. Base /\ Conn /\ Staffed /\ [Next]_vars => (Base /\ Conn /\ Staffed)'
  BY StepBase, StepConn, StepStaff
<1>3. Staffed => Available
  BY DEF Staffed, Available, Attended
<1> QED
  BY <1>1, <1>2, <1>3, PTL DEF Spec

-----------------------------------------------------------------------------
(* What a reader hears.                                                    *)

\* A process that is about to answer has sent nothing, and one that sends the
\* file to a reader who is there has sent the audio before its place in it.
Hears(d, q, l) ==
  /\ q.pc \in {"type", "answer"} => l.down = << >>
  /\ q.pc = "get" /\ q.conn \in Readers /\ l.end = "up" =>
       Audio(l.down) = Audio(SubSeq(d, 1, q.pos))

Hearing ==
  pid = 0 => \A p \in Procs :
    proc[p].pc \in Serving => Hears(disk.data, proc[p], wire[proc[p].conn])

LEMMA HearingNext ==
  ASSUME pid' = pid,
         pid = 0 => \A p \in Procs : proc'[p].pc \in Serving =>
                      Hears(disk'.data, proc'[p], wire'[proc'[p].conn]),
         pid = 0 => \A c \in Readers : IsPrefix(Audio(wire'[c].down), Audio(disk'.data))
  PROVE  Hearing' /\ Heard'
<1>1. Hearing'
  BY DEF Hearing, Hears, Audio
<1>2. Heard'
  BY DEF Heard, Audio, IsPrefix
<1> QED
  BY <1>1, <1>2

\* The file may grow in the meantime.
LEMMA HearsMore ==
  ASSUME NEW d \in Seq(Pieces), NEW x \in Seq(Pieces), NEW q, NEW l, Hears(d, q, l),
         q.pos \in 0..Len(d)
  PROVE  Hears(d \o x, q, l)
<1> PICK n \in 0..Len(d) : n = q.pos
  OBVIOUS
<1>1. SubSeq(d \o x, 1, n) = SubSeq(d, 1, n)
  <2>1. CASE n = 0
    BY <2>1
  <2>2. CASE n # 0
    <3>1. 1 \in 1..Len(d) /\ n \in 1..Len(d)
      BY <2>2
    <3> QED
      BY <3>1, SubSeqOfConcat1
  <2> QED
    BY <2>1, <2>2
<1> QED
  BY <1>1 DEF Hears

LEMMA PrefixMore ==
  ASSUME NEW a, NEW d \in Seq(Pieces), NEW x \in Seq(Pieces), a \in Seq(Int),
         IsPrefix(a, Audio(d))
  PROVE  IsPrefix(a, Audio(d \o x))
<1> PICK b : b = Audio(d)
  OBVIOUS
<1> PICK y : y = Audio(x)
  OBVIOUS
<1>1. b \in Seq(Int) /\ y \in Seq(Int) /\ Audio(d \o x) = b \o y
  BY PiecesSeq, AudioType, AudioJoined
<1>2. IsPrefix(a, b \o y)
  <2>1. Len(a) <= Len(b) /\ SubSeq(a, 1, Len(a)) = SubSeq(b, 1, Len(a))
    BY DEF IsPrefix
  <2>2. SubSeq(b \o y, 1, Len(a)) = SubSeq(b, 1, Len(a))
    <3>1. CASE a = << >>
      BY <3>1
    <3>2. CASE a # << >>
      <4>1. 1 \in 1..Len(b) /\ Len(a) \in 1..Len(b)
        BY <1>1, <2>1, <3>2
      <4> QED
        BY <1>1, <4>1, SubSeqOfConcat1
    <3> QED
      BY <3>1, <3>2
  <2>3. Len(a) <= Len(b \o y)
    BY <1>1, <2>1
  <2> QED
    BY <2>1, <2>2, <2>3 DEF IsPrefix
<1> QED
  BY <1>1, <1>2

\* It is enough to look at the file as it was.
LEMMA GrowsHearing ==
  ASSUME Base, pid' = pid, NEW x \in Seq(Pieces), disk'.data = disk.data \o x,
         \A p \in Procs : proc'[p].pos \in 0..Len(disk.data),
         \A c \in Readers : wire'[c].down \in Seq(Pieces),
         pid = 0 => \A p \in Procs : proc'[p].pc \in Serving =>
                      Hears(disk.data, proc'[p], wire'[proc'[p].conn]),
         pid = 0 => \A c \in Readers : IsPrefix(Audio(wire'[c].down), Audio(disk.data))
  PROVE  Hearing' /\ Heard'
<1> PICK d : d = disk.data
  OBVIOUS
<1>1. d \in Seq(Pieces)
  BY DEF Base, TypeOK, ServerTypeOK
<1>2. ASSUME pid = 0, NEW p \in Procs, proc'[p].pc \in Serving
      PROVE  Hears(disk'.data, proc'[p], wire'[proc'[p].conn])
  <2> PICK q : q = proc'[p]
    OBVIOUS
  <2> PICK l : l = wire'[proc'[p].conn]
    OBVIOUS
  <2>1. Hears(d, q, l) /\ q.pos \in 0..Len(d)
    BY <1>2
  <2>2. Hears(d \o x, q, l)
    BY <1>1, <2>1, HearsMore
  <2> QED
    BY <2>2
<1>3. ASSUME pid = 0, NEW c \in Readers
      PROVE  IsPrefix(Audio(wire'[c].down), Audio(disk'.data))
  <2> PICK a : a = Audio(wire'[c].down)
    OBVIOUS
  <2>1. a \in Seq(Int) /\ IsPrefix(a, Audio(d))
    BY <1>3, PiecesSeq, AudioType
  <2>2. IsPrefix(a, Audio(d \o x))
    BY <1>1, <2>1, PrefixMore
  <2> QED
    BY <2>2
<1> QED
  BY <1>2, <1>3, HearingNext

\* A step that serves is about its own connection: no other process has it.
LEMMA ServingHearing ==
  ASSUME Base, Conn, Hearing, Heard, NEW p \in Procs, NEW c, NEW r, NEW w, Serves(p, c, r, w),
         NEW x \in Seq(Pieces), disk'.data = disk.data \o x, r.pos \in 0..Len(disk.data),
         pid = 0 /\ r.pc \in Serving => Hears(disk.data, r, w),
         pid = 0 /\ c \in Readers => IsPrefix(Audio(w.down), Audio(disk.data))
  PROVE  Hearing' /\ Heard'
<1>1. /\ proc \in [Procs -> Process] /\ wire \in [Clients -> Line]
      /\ proc' = [proc EXCEPT ![p] = r] /\ wire' = [wire EXCEPT ![c] = w]
      /\ c \in Clients /\ c = proc[p].conn /\ proc[p].pc \in Serving /\ pid' = pid
      /\ r.pc \in Serving => r.conn = c
      /\ w.down \in Seq(Pieces) /\ Readers \subseteq Clients
  BY DEF Serves, Base, TypeOK, ServerTypeOK, Process, Line, Clients
<1>2. ASSUME NEW q \in Procs PROVE proc'[q].pos \in 0..Len(disk.data)
  <2>1. proc[q].pos \in 0..Len(disk.data)
    BY DEF Base, TypeOK, ServerTypeOK
  <2> QED
    BY <1>1, <2>1
<1>3. ASSUME NEW k \in Readers PROVE wire'[k].down \in Seq(Pieces)
  <2>1. wire[k].down \in Seq(Pieces)
    BY <1>1 DEF Line
  <2> QED
    BY <1>1, <2>1
<1>4. ASSUME pid = 0, NEW q \in Procs, proc'[q].pc \in Serving
      PROVE  Hears(disk.data, proc'[q], wire'[proc'[q].conn])
  <2>1. CASE q = p
    <3>1. proc'[q] = r /\ wire'[c] = w
      BY <1>1, <2>1
    <3> QED
      BY <1>1, <1>4, <3>1
  <2>2. CASE q # p
    <3>1. proc'[q] = proc[q] /\ proc[q].pc \in Serving
      BY <1>1, <1>4, <2>2
    <3>2. proc[q].conn # c
      BY <1>1, <1>4, <2>2 DEF Conn, OneServes
    <3>3. wire'[proc[q].conn] = wire[proc[q].conn]
      <4>1. proc[q].conn \in Clients
        BY <3>1, Served
      <4> QED
        BY <1>1, <3>2, <4>1
    <3> QED
      BY <1>4, <3>1, <3>3 DEF Hearing
  <2> QED
    BY <2>1, <2>2
<1>5. ASSUME pid = 0, NEW k \in Readers
      PROVE  IsPrefix(Audio(wire'[k].down), Audio(disk.data))
  <2>1. CASE k = c
    BY <1>1, <1>5, <2>1
  <2>2. CASE k # c
    <3>1. wire'[k] = wire[k]
      BY <1>1, <2>2
    <3> QED
      BY <1>5, <3>1 DEF Heard
  <2> QED
    BY <2>1, <2>2
<1> QED
  BY <1>1, <1>2, <1>3, <1>4, <1>5, GrowsHearing

LEMMA EmptyIsPrefix == \A s \in Seq(Int) : IsPrefix(<< >>, s)
  BY DEF IsPrefix

\* Nothing is sent while a request is read or a POST is taken.
LEMMA ReadingHearing ==
  ASSUME Base, Conn, Hearing, Heard, NEW p \in Procs, GetClientType(p) \/ PostRead(p)
  PROVE  Hearing' /\ Heard'
<1> PICK d : d = disk.data
  OBVIOUS
<1>1. d \in Seq(Pieces)
  BY DEF Base, TypeOK, ServerTypeOK
<1>2. \E c, r, w, n, x :
        /\ Serves(p, c, r, w) /\ Reads(c, w, n) /\ r.pos = 0
        /\ x \in Seq(Pieces) /\ disk'.data = d \o x
        /\ r.pc = "post" \/ (r.pc = "answer" /\ proc[p].pc = "type")
  <2>1. CASE GetClientType(p)
    <3>1. << >> \in Seq(Pieces) /\ d \o << >> = d
      BY <1>1, ConcatEmptySeq
    <3> QED
      BY <2>1, <3>1, GetClientTypeShape
  <2>2. CASE PostRead(p)
    <3>1. PICK c, r, w, n, line : /\ Serves(p, c, r, w) /\ Reads(c, w, n) /\ Prints(p, r, line)
                                  /\ r.pc = "post" /\ r.pos = 0
      BY <2>2, PostReadShape
    <3>2. Sound(r)
      BY <3>1 DEF Serves
    <3>3. PICK t : Cuts(p, r, line, t)
      BY <3>1, <3>2, PrintsSplit
    <3>4. t \in Seq(Pieces) /\ disk'.data = d \o t
      BY <3>3 DEF Cuts
    <3> QED
      BY <3>1, <3>4
  <2> QED
    BY <2>1, <2>2
<1>3. PICK c, r, w, n, x :
        /\ Serves(p, c, r, w) /\ Reads(c, w, n) /\ r.pos = 0
        /\ x \in Seq(Pieces) /\ disk'.data = d \o x
        /\ r.pc = "post" \/ (r.pc = "answer" /\ proc[p].pc = "type")
  BY <1>2
<1>4. w.down = wire[c].down /\ c = proc[p].conn
  BY <1>3 DEF Serves, Reads
<1>5. r.pos \in 0..Len(d)
  BY <1>1, <1>3
<1>6. pid = 0 => Hears(d, r, w)
  BY <1>3, <1>4 DEF Hearing, Hears, Serving
<1>7. pid = 0 /\ c \in Readers => IsPrefix(Audio(w.down), Audio(d))
  BY <1>4 DEF Heard
<1> QED
  BY <1>3, <1>5, <1>6, <1>7, ServingHearing

\* The start of a file is the start of its audio.
LEMMA StartOfFile ==
  ASSUME NEW d \in Seq(Pieces), NEW n \in 0..Len(d)
  PROVE  IsPrefix(Audio(SubSeq(d, 1, n)), Audio(d))
<1> PICK u : u = SubSeq(d, 1, n)
  OBVIOUS
<1> PICK v : v = SubSeq(d, n + 1, Len(d))
  OBVIOUS
<1>1. u \in Seq(Int) /\ v \in Seq(Int) /\ d = u \o v
  BY CutInTwo
<1>2. Audio(d) = Audio(u) \o Audio(v) /\ Audio(u) \in Seq(Int) /\ Audio(v) \in Seq(Int)
  <2>1. Audio(u \o v) = Audio(u) \o Audio(v)
    BY <1>1, AudioJoined
  <2>2. Audio(u) \in Seq(Int) /\ Audio(v) \in Seq(Int)
    BY <1>1, AudioType
  <2> QED
    BY <1>1, <2>1, <2>2
<1>3. IsPrefix(Audio(u), Audio(u) \o Audio(v))
  BY <1>2, PrefixJoined
<1> QED
  BY <1>2, <1>3

\* Who has sent the audio before a place of the file and sends what is there
\* has sent the audio before the next place: junk behind it is not heard.
HeardTo(a, d, k) == Audio(a) = Audio(SubSeq(d, 1, k))
Piece(data, d, m, k) == data \in {SubSeq(d, m + 1, k), SubSeq(d, m + 1, k) \o <<Junk>>}

LEMMA SendsNext ==
  ASSUME NEW d \in Seq(Pieces), NEW m \in 0..Len(d), NEW k \in m..Len(d),
         NEW a \in Seq(Int), HeardTo(a, d, m), NEW data, Piece(data, d, m, k)
  PROVE  HeardTo(a \o data, d, k)
<1> PICK chunk : chunk = SubSeq(d, m + 1, k)
  OBVIOUS
<1> PICK u : u = SubSeq(d, 1, m)
  OBVIOUS
<1>1. /\ m \in 0..k /\ 0 \in 0..Len(d) /\ 0 + 1 = 1
      /\ 1 \in 1..Len(d) + 1 /\ m \in 1 - 1..Len(d)
  OBVIOUS
<1>2. chunk \in Seq(Int) /\ u \in Seq(Int)
  <2>1. SubSeq(d, m + 1, k) \in Seq(Pieces) /\ SubSeq(d, 0 + 1, m) \in Seq(Pieces)
    BY <1>1, Cut
  <2> QED
    BY <1>1, <2>1, PiecesSeq
<1>3. u \o chunk = SubSeq(d, 1, k)
  <2>1. SubSeq(d, 1, m) \o SubSeq(d, m + 1, k) = SubSeq(d, 1, k)
    BY <1>1, ConcatAdjacentSubSeq
  <2> QED
    BY <2>1
<1>4. Audio(data) = Audio(chunk) /\ data \in Seq(Int)
  <2> PICK j : j = <<Junk>>
    OBVIOUS
  <2>1. j \in Seq(Int) /\ Audio(j) = << >>
    <3>1. <<Junk>> \in Seq(Int)
      BY DEF Junk
    <3> QED
      BY <3>1, JunkAudio, AudioNone
  <2>2. Audio(chunk \o j) = Audio(chunk) \o << >> /\ chunk \o j \in Seq(Int)
    <3>1. Audio(chunk \o j) = Audio(chunk) \o Audio(j)
      BY <1>2, <2>1, AudioJoined
    <3>2. chunk \o j \in Seq(Int)
      BY <1>2, <2>1
    <3> QED
      BY <2>1, <3>1, <3>2
  <2>3. Audio(chunk) \o << >> = Audio(chunk)
    BY <1>2, AudioType, ConcatEmptySeq
  <2> QED
    BY <1>2, <2>2, <2>3 DEF Piece
<1>5. Audio(a \o data) = Audio(a) \o Audio(data)
  BY <1>4, AudioJoined
<1>6. Audio(u \o chunk) = Audio(u) \o Audio(chunk)
  BY <1>2, AudioJoined
<1> QED
  BY <1>3, <1>4, <1>5, <1>6 DEF HeardTo

LEMMA GetWriteHearing ==
  ASSUME Base, Conn, Hearing, Heard, NEW p \in Procs, GetWrite(p)
  PROVE  Hearing' /\ Heard'
<1>1. PICK c, r, w, data :
        /\ Serves(p, c, r, w) /\ Delivers(c, r, w, data) /\ disk' = disk
        /\ proc[p].pc = "get" /\ r.pc \in {"get", "dead"}
        /\ r.pc = "get" => Passes(p, r, data)
        /\ r.pc = "dead" => w.end = "reset" /\ r.pos = 0
  BY GetWriteShape
<1> PICK d : d = disk.data
  OBVIOUS
<1> PICK m : m = proc[p].pos
  OBVIOUS
<1>2. /\ d \in Seq(Pieces) /\ m \in 0..Len(d) /\ c \in Clients /\ c = proc[p].conn
      /\ << >> \in Seq(Pieces) /\ d \o << >> = d
  <2>1. d \in Seq(Pieces) /\ m \in 0..Len(d)
    BY DEF Base, TypeOK, ServerTypeOK
  <2>2. c \in Clients /\ c = proc[p].conn
    BY <1>1 DEF Serves
  <2> QED
    BY <2>1, <2>2, ConcatEmptySeq
<1>3. wire[c].down \in Seq(Int)
  <2>1. wire[c].down \in Seq(Pieces)
    BY <1>2 DEF Base, TypeOK, ServerTypeOK
  <2> QED
    BY <2>1, PiecesSeq
<1>4. CASE w.end = "reset"
  <2>1. w.down = wire[c].down
    BY <1>1, <1>4 DEF Delivers
  <2>2. pid = 0 /\ c \in Readers => IsPrefix(Audio(w.down), Audio(d))
    BY <2>1 DEF Heard
  <2>3. Hears(d, r, w)
    BY <1>1, <1>4 DEF Hears
  <2>4. r.pos \in 0..Len(d)
    BY <1>1, <1>2 DEF Passes
  <2> QED
    BY <1>1, <1>2, <2>2, <2>3, <2>4, ServingHearing
<1>5. CASE wire[c].end = "up" /\ w.end = "up" /\ w.down = wire[c].down \o data
  <2>1. PICK n \in {0, 1} :
          /\ m + n <= Len(d) /\ r.pos = m + n
          /\ data \in {SubSeq(d, m + 1, m + n), SubSeq(d, m + 1, m + n) \o <<Junk>>}
    BY <1>1, <1>5 DEF Passes
  <2>2. r.pos \in 0..Len(d)
    <3> PICK z \in Nat : z = Len(d)
      BY <1>2
    <3>1. m \in 0..z /\ m + n <= z
      BY <1>2, <2>1
    <3>2. m + n \in 0..z
      BY <3>1
    <3> QED
      BY <2>1, <3>2
  <2>3. ASSUME pid = 0, c \in Readers PROVE Audio(w.down) = Audio(SubSeq(d, 1, r.pos))
    <3>1. Audio(wire[c].down) = Audio(SubSeq(d, 1, m))
      <4>1. Hears(d, proc[p], wire[c])
        BY <1>1, <1>2, <2>3 DEF Hearing, Serving
      <4> QED
        BY <1>1, <1>2, <1>5, <2>3, <4>1 DEF Hears
    <3> PICK a \in Seq(Int) : a = wire[c].down
      BY <1>3
    <3> PICK k : k = m + n
      OBVIOUS
    <3>2. k \in m..Len(d)
      <4> PICK z \in Nat : z = Len(d)
        BY <1>2
      <4>1. m \in 0..z /\ m + n <= z
        BY <1>2, <2>1
      <4>2. m + n \in m..z
        BY <4>1
      <4> QED
        BY <4>2
    <3>3. HeardTo(a, d, m) /\ Piece(data, d, m, k)
      BY <2>1, <3>1 DEF HeardTo, Piece
    <3>4. HeardTo(a \o data, d, k)
      BY <1>2, <3>2, <3>3, SendsNext
    <3> QED
      BY <1>5, <2>1, <3>4 DEF HeardTo
  <2>4. pid = 0 /\ c \in Readers => IsPrefix(Audio(w.down), Audio(d))
    BY <1>2, <2>2, <2>3, StartOfFile
  <2>5. pid = 0 /\ r.pc \in Serving => Hears(d, r, w)
    <3>1. r.pc \in Serving => r.conn = c
      BY <1>1 DEF Serves
    <3> QED
      BY <1>1, <2>3, <3>1 DEF Hears, Serving
  <2> QED
    BY <1>1, <1>2, <2>2, <2>4, <2>5, ServingHearing
<1> QED
  BY <1>1, <1>4, <1>5 DEF Delivers

LEMMA AnswerHearing ==
  ASSUME Base, Conn, Hearing, Heard, NEW p \in Procs, Answer(p)
  PROVE  Hearing' /\ Heard'
<1>1. PICK c, r, w, data :
        /\ Serves(p, c, r, w) /\ Delivers(c, r, w, data) /\ data = <<Header>>
        /\ proc[p].pc = "answer" /\ r.pc \in {"post", "get", "accept", "dead"}
        /\ r.pos = 0 /\ disk'.data = disk.data
  BY AnswerShape
<1> PICK d : d = disk.data
  OBVIOUS
<1>2. /\ d \in Seq(Pieces) /\ 0 \in 0..Len(d) /\ << >> \in Seq(Pieces) /\ d \o << >> = d
      /\ c \in Clients /\ c = proc[p].conn
  <2>1. d \in Seq(Pieces)
    BY DEF Base, TypeOK, ServerTypeOK
  <2>2. c \in Clients /\ c = proc[p].conn
    BY <1>1 DEF Serves
  <2> QED
    BY <2>1, <2>2, ConcatEmptySeq
<1>3. pid = 0 => wire[c].down = << >>
  BY <1>1, <1>2 DEF Hearing, Hears, Serving
<1>4. pid = 0 => Audio(w.down) = << >> \/ w.down = << >>
  <2> PICK h : h = <<Header>>
    OBVIOUS
  <2>1. h \in Seq(Int) /\ << >> \o h = h
    <3>1. <<Header>> \in Seq(Int)
      BY DEF Header
    <3> QED
      BY <3>1, ConcatEmptySeq
  <2>2. Audio(h) = << >>
    BY <2>1, JunkAudio, AudioNone
  <2>3. w.down = wire[c].down \/ w.down = wire[c].down \o h
    BY <1>1 DEF Delivers
  <2> QED
    BY <1>3, <2>1, <2>2, <2>3
<1>5. pid = 0 => Audio(w.down) = << >>
  BY <1>4, AudioEmpty
<1>6. pid = 0 => IsPrefix(Audio(w.down), Audio(d))
  <2>1. Audio(d) \in Seq(Int)
    BY <1>2, PiecesSeq, AudioType
  <2> QED
    BY <1>5, <2>1, EmptyIsPrefix
<1>7. pid = 0 /\ r.pc \in Serving => Hears(d, r, w)
  <2>1. SubSeq(d, 1, 0) = << >>
    BY <1>2
  <2> QED
    BY <1>1, <1>5, <2>1, AudioEmpty DEF Hears
<1> QED
  BY <1>1, <1>2, <1>6, <1>7, ServingHearing

\* Nothing has been sent on a connection that is accepted.
LEMMA AcceptHearing ==
  ASSUME Base, Conn, Hearing, Heard, NEW p \in Procs, Accept(p)
  PROVE  Hearing' /\ Heard'
<1> PICK c : c = Head(queue)
  OBVIOUS
<1>1. /\ c \in Clients /\ c \in ToSet(queue) /\ pid' = pid /\ wire' = wire /\ disk' = disk
      /\ \A q \in Procs : proc'[q] = proc[q] \/ proc'[q] \in {Newcomer(c), Accepting}
  BY AcceptShape
<1>2. /\ Newcomer(c).pc = "type" /\ Newcomer(c).conn = c /\ Newcomer(c).pos = 0
      /\ Accepting.pc = "accept" /\ Accepting.pos = 0
  BY <1>1, AtFork
<1>3. /\ disk.data \in Seq(Pieces) /\ << >> \in Seq(Pieces) /\ disk'.data = disk.data \o << >>
      /\ 0 \in 0..Len(disk.data)
  <2>1. disk.data \in Seq(Pieces)
    BY DEF Base, TypeOK, ServerTypeOK
  <2> QED
    BY <1>1, <2>1, ConcatEmptySeq
<1>4. ASSUME NEW q \in Procs PROVE proc'[q].pos \in 0..Len(disk.data)
  <2>1. proc[q].pos \in 0..Len(disk.data)
    BY <1>3 DEF Base, TypeOK, ServerTypeOK
  <2> QED
    BY <1>1, <1>2, <1>3, <2>1
<1>5. \A k \in Readers : wire'[k].down \in Seq(Pieces)
  BY <1>1 DEF Base, TypeOK, ServerTypeOK, Clients
<1>6. ASSUME pid = 0, NEW q \in Procs, proc'[q].pc \in Serving
      PROVE  Hears(disk.data, proc'[q], wire'[proc'[q].conn])
  <2>1. CASE proc'[q] = proc[q]
    BY <1>1, <1>6, <2>1 DEF Hearing
  <2>2. CASE proc'[q] = Newcomer(c)
    <3>1. wire[c].down = << >>
      BY <1>1 DEF Conn, Waiting
    <3> QED
      BY <1>1, <1>2, <2>2, <3>1 DEF Hears
  <2>3. CASE proc'[q] = Accepting
    BY <1>2, <1>6, <2>3 DEF Serving
  <2> QED
    BY <1>1, <2>1, <2>2, <2>3
<1>7. pid = 0 => \A k \in Readers : IsPrefix(Audio(wire'[k].down), Audio(disk.data))
  BY <1>1 DEF Heard
<1> QED
  BY <1>1, <1>3, <1>4, <1>5, <1>6, <1>7, GrowsHearing

\* Nobody serves after SIGINT, and the file only grows.
LEMMA QuitHearing ==
  ASSUME Base, Hearing, Heard, Quit
  PROVE  Hearing' /\ Heard'
<1>1. /\ pid' = pid /\ wire' = wire
      /\ \A p \in Procs : \/ p \in Running /\ proc'[p] = [Free EXCEPT !.pc = "quit"]
                          \/ p \notin Running /\ proc'[p] = proc[p]
  BY QuitShape
<1>2. PICK order, outs : Exits(order, outs)
  BY QuitShape
<1> PICK x : x = FlattenSeq(outs)
  OBVIOUS
<1>3. disk.data \in Seq(Pieces) /\ x \in Seq(Pieces) /\ disk'.data = disk.data \o x
  <2>1. disk \in [made : BOOLEAN, data : Seq(Pieces)]
    BY DEF Base, TypeOK, ServerTypeOK
  <2>2. x \in Seq(Pieces)
    BY <1>2, FlattenType DEF Exits
  <2> QED
    BY <1>2, <2>1, <2>2 DEF Exits
<1>4. /\ [Free EXCEPT !.pc = "quit"].pc = "quit" /\ [Free EXCEPT !.pc = "quit"].pos = 0
      /\ 0 \in 0..Len(disk.data)
  BY <1>3 DEF Free
<1>5. ASSUME NEW q \in Procs PROVE proc'[q].pos \in 0..Len(disk.data)
  <2>1. proc[q].pos \in 0..Len(disk.data)
    BY <1>3 DEF Base, TypeOK, ServerTypeOK
  <2> QED
    BY <1>1, <1>4, <2>1
<1>6. \A k \in Readers : wire'[k].down \in Seq(Pieces)
  BY <1>1 DEF Base, TypeOK, ServerTypeOK, Clients
<1>7. \A q \in Procs : proc'[q].pc \notin Serving
  BY <1>1, <1>4 DEF Running, Serving, Base, TypeOK, ServerTypeOK
<1>8. pid = 0 => \A k \in Readers : IsPrefix(Audio(wire'[k].down), Audio(disk.data))
  BY <1>1 DEF Heard
<1> QED
  BY <1>1, <1>3, <1>5, <1>6, <1>7, <1>8, GrowsHearing

\* Only the relay takes from what the server has sent it, and a client that
\* leaves hears no more.
LEMMA ClientHearing ==
  ASSUME Base, Conn, Hearing, Heard, Clientele
  PROVE  Hearing' /\ Heard'
<1>1. pid' = pid /\ proc' = proc /\ disk' = disk
  BY ClientShape DEF Conn
<1>2. PICK c, w : Attends(c, w)
  BY ClientShape DEF Conn
<1>3. /\ c \in Clients /\ w \in Line /\ wire' = [wire EXCEPT ![c] = w]
      /\ wire \in [Clients -> Line] /\ Readers \subseteq Clients /\ Camera \notin Readers
  BY <1>2, RelayAssumption DEF Attends, Base, TypeOK, ServerTypeOK, Line, Clients
<1>4. /\ w.down = wire[c].down \/ w.down = << >>
      /\ c \in Readers => w.down = wire[c].down
      /\ w.end = "up" => wire[c].end \in {"up", "new"}
  <2>1. wire[c].end = "new" => wire[c].down = << >>
    BY <1>3 DEF Base, Fresh
  <2> QED
    BY <1>2, <1>3, <2>1 DEF Attends
<1>5. /\ disk.data \in Seq(Pieces) /\ << >> \in Seq(Pieces) /\ disk'.data = disk.data \o << >>
      /\ \A q \in Procs : proc'[q].pos \in 0..Len(disk.data)
  <2>1. disk.data \in Seq(Pieces) /\ \A q \in Procs : proc[q].pos \in 0..Len(disk.data)
    BY DEF Base, TypeOK, ServerTypeOK
  <2> QED
    BY <1>1, <2>1, ConcatEmptySeq
<1>6. \A k \in Readers : wire'[k].down = wire[k].down /\ wire[k].down \in Seq(Pieces)
  <2>1. \A k \in Readers : wire[k].down \in Seq(Pieces)
    BY <1>3 DEF Line
  <2> QED
    BY <1>3, <1>4, <2>1
<1>7. ASSUME pid = 0, NEW q \in Procs, proc'[q].pc \in Serving
      PROVE  Hears(disk.data, proc'[q], wire'[proc'[q].conn])
  <2> PICK k : k = proc[q].conn
    OBVIOUS
  <2>1. /\ proc'[q] = proc[q] /\ proc[q].pc \in Serving /\ k \in Clients
        /\ wire[k].end \in {"up", "shut", "reset"} /\ Hears(disk.data, proc[q], wire[k])
    <3>1. proc'[q] = proc[q] /\ proc[q].pc \in Serving
      BY <1>1, <1>7
    <3>2. k \in Clients /\ wire[k].end \in {"up", "shut", "reset"}
      BY <3>1, Served
    <3> QED
      BY <1>7, <3>1, <3>2 DEF Hearing
  <2>2. CASE k # c
    <3>1. wire'[k] = wire[k]
      BY <1>3, <2>1, <2>2
    <3> QED
      BY <2>1, <3>1
  <2>3. CASE k = c
    <3>1. wire'[k] = w
      BY <1>3, <2>3
    <3>2. /\ wire[k].down = << >> => w.down = << >>
          /\ k \in Readers => w.down = wire[k].down
          /\ w.end = "up" => wire[k].end = "up"
      BY <1>4, <2>1, <2>3
    <3>3. Hears(disk.data, proc[q], w)
      BY <2>1, <3>2 DEF Hears
    <3> QED
      BY <2>1, <3>1, <3>3
  <2> QED
    BY <2>2, <2>3
<1>8. pid = 0 => \A k \in Readers : IsPrefix(Audio(wire'[k].down), Audio(disk.data))
  BY <1>6 DEF Heard
<1>9. \A k \in Readers : wire'[k].down \in Seq(Pieces)
  BY <1>6
<1> QED
  BY <1>1, <1>5, <1>7, <1>8, <1>9, GrowsHearing

LEMMA InitHearing == Init => Hearing /\ Heard
<1> SUFFICES ASSUME Init PROVE Hearing /\ Heard
  OBVIOUS
<1>1. /\ wire = [c \in Clients |-> [end |-> "new", up |-> << >>, down |-> << >>]]
      /\ proc = [p \in Procs |-> IF p = Main THEN [Free EXCEPT !.pc = "accept"] ELSE Free]
      /\ disk.data = << >> /\ Readers \subseteq Clients
  BY DEF Init, Clients
<1>2. \A p \in Procs : proc[p].pc \notin Serving
  BY <1>1 DEF Free, Serving
<1>3. \A c \in Readers : wire[c].down = << >>
  BY <1>1
<1>4. Audio(<< >>) = << >> /\ IsPrefix(<< >>, << >>)
  <2>1. << >> \in Seq(Int)
    OBVIOUS
  <2> QED
    BY <2>1, AudioEmpty, EmptyIsPrefix
<1>5. Hearing
  BY <1>2 DEF Hearing
<1>6. Heard
  BY <1>1, <1>3, <1>4 DEF Heard
<1> QED
  BY <1>5, <1>6

LEMMA StutterHearing == Hearing /\ Heard /\ UNCHANGED vars => Hearing' /\ Heard'
<1> SUFFICES ASSUME Hearing, Heard, UNCHANGED vars PROVE Hearing' /\ Heard'
  OBVIOUS
<1>1. pid' = pid /\ proc' = proc /\ wire' = wire /\ disk' = disk
  BY DEF vars, serverVars
<1>2. pid = 0 => \A p \in Procs : proc'[p].pc \in Serving =>
                   Hears(disk'.data, proc'[p], wire'[proc'[p].conn])
  BY <1>1 DEF Hearing
<1>3. pid = 0 => \A c \in Readers : IsPrefix(Audio(wire'[c].down), Audio(disk'.data))
  BY <1>1 DEF Heard
<1> QED
  BY <1>1, <1>2, <1>3, HearingNext

LEMMA StepHearing == Base /\ Conn /\ Hearing /\ Heard /\ [Next]_vars => Hearing' /\ Heard'
<1> SUFFICES ASSUME Base, Conn, Hearing, Heard, [Next]_vars PROVE Hearing' /\ Heard'
  OBVIOUS
<1>1. CASE \E p \in Procs : ServerStep(p)
  BY <1>1, AcceptHearing, ReadingHearing, AnswerHearing, GetWriteHearing DEF ServerStep
<1>2. CASE Quit
  BY <1>2, QuitHearing
<1>3. CASE Clientele
  BY <1>3, ClientHearing
<1> QED
  BY <1>1, <1>2, <1>3, StutterHearing DEF Next, Clientele

\* Whatever a reader has been sent, up to its leaving, is the audio at the start
\* of the file: the junk that goes along is not heard, no other process writes
\* to its connection, and the file is only added to while it is read.
THEOREM ReadersHearTheFile == Spec => []Heard
<1>1. Init => Base /\ Conn /\ Hearing /\ Heard
  BY InitBase, InitConn, InitHearing
<1>2. Base /\ Conn /\ Hearing /\ Heard /\ [Next]_vars => (Base /\ Conn /\ Hearing /\ Heard)'
  BY StepBase, StepConn, StepHearing
<1> QED
  BY <1>1, <1>2, PTL DEF Spec
=============================================================================

------------------------- MODULE CloudCommandProofs -------------------------
(***************************************************************************)
(* Proofs about CloudCommand, for all users, descriptors and parameters:   *)
(* what the parser makes of a text, and what a command that is answered    *)
(* has done.                                                               *)
(***************************************************************************)
EXTENDS CloudCommand, CloudApiProofs, FiniteSetTheorems

-----------------------------------------------------------------------------
(* The parser.                                                             *)

\* No name is one of the tokens that the parser looks for.
PlainNames == Users \cap (Keys \cup {NewLine, "REGISTER", "BIND"}) = {}

Tokens == Users \cup Keys \cup {NewLine, "REGISTER", "BIND"}

\* A text of cmd as it should be: k are the keys of its lines, v their values.
Whole(text, cmd, user, k, v) ==
  /\ Len(text) = 11
  /\ text[1] = cmd /\ text[2] = NewLine
  /\ text[3] = k[1] /\ text[4] = v[1] /\ text[5] = NewLine
  /\ text[6] = k[2] /\ text[7] = v[2] /\ text[8] = NewLine
  /\ text[9] = k[3] /\ text[10] = v[3] /\ text[11] = NewLine
  /\ {k[1], k[2], k[3]} = {"USERNAME:", "PASSWORD:", Other(cmd)}
  /\ k[1] # k[2] /\ k[1] # k[3] /\ k[2] # k[3]
  /\ \A i \in 1..3 : v[i] \in Users /\ (k[i] = "USERNAME:" => v[i] = user)

\* Where the first of a token is.
LEMMA FirstIs ==
  ASSUME NEW d, Len(d) \in Nat, NEW tok, NEW from \in Nat \ {0}, NEW n \in from..Len(d),
         d[n] = tok, \A j \in from..n - 1 : d[j] # tok
  PROVE  First(d, tok, from) = n /\ Occurrences(d, tok, from) # {}
<1> DEFINE S == Occurrences(d, tok, from)
<1>1. n \in S /\ \A y \in S : n <= y
  BY DEF Occurrences
<1>2. S \subseteq Nat
  BY DEF Occurrences
<1> HIDE DEF S
<1>3. Min(S) \in S /\ \A y \in S : Min(S) <= y
  BY <1>1 DEF Min
<1> PICK m : m = Min(S)
  OBVIOUS
<1>4. m \in Nat /\ n \in Nat /\ m <= n /\ n <= m
  BY <1>1, <1>2, <1>3
<1>5. Min(S) = n
  BY <1>4
<1> QED
  BY <1>1, <1>5 DEF First, S

LEMMA NotFound ==
  ASSUME NEW d, Len(d) \in Nat, NEW tok, NEW from \in Nat \ {0},
         \A j \in from..Len(d) : d[j] # tok
  PROVE  Occurrences(d, tok, from) = {}
  BY DEF Occurrences

LEMMA OtherKey ==
  ASSUME NEW cmd
  PROVE  /\ Other(cmd) \in {"ACCOUNT:", "DEVICENAME:"}
         /\ {"USERNAME:", "PASSWORD:", Other(cmd)} \subseteq Keys
  BY DEF Other, Keys

\* The three lines in one of their orders.
LEMMA LinesInOrder ==
  ASSUME NEW cmd, NEW user \in Users, NEW name \in Users,
         NEW lines \in SetToSeqs(Lines(cmd, user, name))
  PROVE  /\ lines \in [1..3 -> Lines(cmd, user, name)]
         /\ lines[1] # lines[2] /\ lines[1] # lines[3] /\ lines[2] # lines[3]
<1> PICK a : a = <<"USERNAME:", user, NewLine>>
  OBVIOUS
<1> PICK b : b = <<"PASSWORD:", name, NewLine>>
  OBVIOUS
<1> PICK c : c = <<Other(cmd), name, NewLine>>
  OBVIOUS
<1>1. a[1] = "USERNAME:" /\ b[1] = "PASSWORD:" /\ c[1] = Other(cmd)
  OBVIOUS
<1>2. a # b /\ a # c /\ b # c
  BY <1>1, OtherKey
<1>3. IsFiniteSet({a}) /\ Cardinality({a}) = 1
  BY FS_Singleton
<1>4. IsFiniteSet({a, b}) /\ Cardinality({a, b}) = 2
  <2>1. {a, b} = {a} \cup {b} /\ b \notin {a}
    BY <1>2
  <2> QED
    BY <1>3, <2>1, FS_AddElement
<1>5. Cardinality({a, b, c}) = 3
  <2> PICK S : S = {a, b}
    OBVIOUS
  <2>1. IsFiniteSet(S) /\ Cardinality(S) = 2 /\ c \notin S
    BY <1>2, <1>4
  <2>2. Cardinality(S \cup {c}) = Cardinality(S) + 1
    BY <2>1, FS_AddElement, Zenon
  <2>3. S \cup {c} = {a, b, c}
    OBVIOUS
  <2> QED
    BY <2>1, <2>2, <2>3
<1>6. Lines(cmd, user, name) = {a, b, c}
  BY DEF Lines
<1>7. /\ lines \in [1..3 -> Lines(cmd, user, name)]
      /\ \A i, j \in 1..3 : i # j => lines[i] # lines[j]
  BY <1>5, <1>6 DEF SetToSeqs
<1>8. 1 \in 1..3 /\ 2 \in 1..3 /\ 3 \in 1..3 /\ 1 # 2 /\ 1 # 3 /\ 2 # 3
  OBVIOUS
<1> QED
  BY <1>7, <1>8

LEMMA ThreeJoined ==
  ASSUME NEW s, Len(s) = 3
  PROVE  FlattenSeq(s) = (s[1] \o s[2]) \o s[3]
<1> PICK n : n = Len(s)
  OBVIOUS
<1>1. n \in Nat \ {0} /\ n = 3
  OBVIOUS
<1>2. PICK f : Joins(f, s, n) /\ FlattenSeq(s) = f[n]
  BY <1>1, FlattenJoins
<1>3. f = [i \in 1..3 |-> IF i = 1 THEN s[i] ELSE f[i - 1] \o s[i]]
  BY <1>1, <1>2 DEF Joins
<1>4. ASSUME NEW i \in 1..3
      PROVE  f[i] = IF i = 1 THEN s[i] ELSE f[i - 1] \o s[i]
  BY <1>3, Zenon
<1>5. f[1] = s[1]
  BY <1>4
<1>6. f[2] = f[1] \o s[2]
  BY <1>4
<1>7. f[3] = f[2] \o s[3]
  BY <1>4
<1> QED
  BY <1>1, <1>2, <1>5, <1>6, <1>7

\* l is a line of a text of cmd for user, with key k and value v.
IsLine(l, cmd, user, k, v) ==
  /\ k \in {"USERNAME:", "PASSWORD:", Other(cmd)} /\ v \in Users
  /\ l = <<k, v, NewLine>>
  /\ k = "USERNAME:" => v = user

LEMMA OneLine ==
  ASSUME NEW cmd, NEW user \in Users, NEW name \in Users, NEW l \in Lines(cmd, user, name)
  PROVE  \E k, v : IsLine(l, cmd, user, k, v)
<1>1. Other(cmd) # "USERNAME:"
  BY OtherKey
<1>2. CASE l = <<"USERNAME:", user, NewLine>>
  BY <1>2 DEF IsLine
<1>3. CASE l = <<"PASSWORD:", name, NewLine>>
  BY <1>3 DEF IsLine
<1>4. CASE l = <<Other(cmd), name, NewLine>>
  BY <1>1, <1>4 DEF IsLine
<1> QED
  BY <1>2, <1>3, <1>4 DEF Lines

LEMMA DifferentKeys ==
  ASSUME NEW cmd, NEW user \in Users, NEW name \in Users,
         NEW l \in Lines(cmd, user, name), NEW m \in Lines(cmd, user, name), l # m
  PROVE  l[1] # m[1]
<1>1. Other(cmd) # "USERNAME:" /\ Other(cmd) # "PASSWORD:"
  BY OtherKey
<1> QED
  BY <1>1 DEF Lines

\* Two lines.
LEMMA TwoLines ==
  ASSUME NEW S, NEW s \in Seq(S), NEW l \in Seq(S), Len(s) = 3, Len(l) = 3
  PROVE  \E t \in Seq(S) :
           /\ t = s \o l /\ Len(t) = 6
           /\ t[1] = s[1] /\ t[2] = s[2] /\ t[3] = s[3]
           /\ t[4] = l[1] /\ t[5] = l[2] /\ t[6] = l[3]
<1>1. PICK u : u = s \o l
  OBVIOUS
<1>2. /\ u \in Seq(S) /\ Len(u) = Len(s) + Len(l)
      /\ \A i \in 1..Len(s) + Len(l) :
           u[i] = IF i <= Len(s) THEN s[i] ELSE l[i - Len(s)]
  BY <1>1, ConcatProperties, Zenon
<1>3. Len(s) = 3 /\ Len(s) + Len(l) = 6
  OBVIOUS
<1>5. u \in Seq(S) /\ Len(u) = 6
  BY <1>2, <1>3, Zenon
<1>6. \A i \in 1..6 : u[i] = IF i <= 3 THEN s[i] ELSE l[i - 3]
  BY <1>2, <1>3, Zenon
<1>7. /\ u[1] = s[1] /\ u[2] = s[2] /\ u[3] = s[3]
      /\ u[4] = l[1] /\ u[5] = l[2] /\ u[6] = l[3]
  BY <1>6
<1> QED
  BY <1>1, <1>5, <1>7, Zenon

\* A line behind two.
LEMMA ThreeLines ==
  ASSUME NEW S, NEW s \in Seq(S), NEW l \in Seq(S), Len(s) = 6, Len(l) = 3
  PROVE  \E t \in Seq(S) :
           /\ t = s \o l /\ Len(t) = 9
           /\ t[1] = s[1] /\ t[2] = s[2] /\ t[3] = s[3]
           /\ t[4] = s[4] /\ t[5] = s[5] /\ t[6] = s[6]
           /\ t[7] = l[1] /\ t[8] = l[2] /\ t[9] = l[3]
<1>1. PICK u : u = s \o l
  OBVIOUS
<1>2. /\ u \in Seq(S) /\ Len(u) = Len(s) + Len(l)
      /\ \A i \in 1..Len(s) + Len(l) :
           u[i] = IF i <= Len(s) THEN s[i] ELSE l[i - Len(s)]
  BY <1>1, ConcatProperties, Zenon
<1>3. Len(s) = 6 /\ Len(s) + Len(l) = 9
  OBVIOUS
<1>5. u \in Seq(S) /\ Len(u) = 9
  BY <1>2, <1>3, Zenon
<1>6. \A i \in 1..9 : u[i] = IF i <= 6 THEN s[i] ELSE l[i - 6]
  BY <1>2, <1>3, Zenon
<1>7. /\ u[1] = s[1] /\ u[2] = s[2] /\ u[3] = s[3]
      /\ u[4] = s[4] /\ u[5] = s[5] /\ u[6] = s[6]
      /\ u[7] = l[1] /\ u[8] = l[2] /\ u[9] = l[3]
  BY <1>6
<1> QED
  BY <1>1, <1>5, <1>7, Zenon

\* Three lines below the command's.
LEMMA UnderCommand ==
  ASSUME NEW S, NEW s \in Seq(S), NEW l \in Seq(S), Len(s) = 2, Len(l) = 9
  PROVE  \E t \in Seq(S) :
           /\ t = s \o l /\ Len(t) = 11
           /\ t[1] = s[1] /\ t[2] = s[2] /\ t[3] = l[1]
           /\ t[4] = l[2] /\ t[5] = l[3] /\ t[6] = l[4]
           /\ t[7] = l[5] /\ t[8] = l[6] /\ t[9] = l[7]
           /\ t[10] = l[8] /\ t[11] = l[9]
<1>1. PICK u : u = s \o l
  OBVIOUS
<1>2. /\ u \in Seq(S) /\ Len(u) = Len(s) + Len(l)
      /\ \A i \in 1..Len(s) + Len(l) :
           u[i] = IF i <= Len(s) THEN s[i] ELSE l[i - Len(s)]
  BY <1>1, ConcatProperties, Zenon
<1>3. Len(s) = 2 /\ Len(s) + Len(l) = 11
  OBVIOUS
<1>5. u \in Seq(S) /\ Len(u) = 11
  BY <1>2, <1>3, Zenon
<1>6. \A i \in 1..11 : u[i] = IF i <= 2 THEN s[i] ELSE l[i - 2]
  BY <1>2, <1>3, Zenon
<1>7. /\ u[1] = s[1] /\ u[2] = s[2] /\ u[3] = l[1]
      /\ u[4] = l[2] /\ u[5] = l[3] /\ u[6] = l[4]
      /\ u[7] = l[5] /\ u[8] = l[6] /\ u[9] = l[7]
      /\ u[10] = l[8] /\ u[11] = l[9]
  BY <1>6
<1> QED
  BY <1>1, <1>5, <1>7, Zenon

LEMMA WholeText ==
  ASSUME NEW cmd \in Words, NEW user \in Users, NEW name \in Users,
         NEW text \in Texts(cmd, user, name)
  PROVE  text \in Seq(Tokens) /\ \E k, v : Whole(text, cmd, user, k, v)
<1>1. PICK lines \in SetToSeqs(Lines(cmd, user, name)) :
        text = <<cmd, NewLine>> \o FlattenSeq(lines)
  BY DEF Texts
<1>2. /\ lines \in [1..3 -> Lines(cmd, user, name)]
      /\ lines[1] # lines[2] /\ lines[1] # lines[3] /\ lines[2] # lines[3]
  BY LinesInOrder
<1>3. PICK a, b, c : a = lines[1] /\ b = lines[2] /\ c = lines[3]
  OBVIOUS
<1>4. /\ a \in Lines(cmd, user, name) /\ b \in Lines(cmd, user, name)
      /\ c \in Lines(cmd, user, name) /\ a # b /\ a # c /\ b # c
  BY <1>2, <1>3
<1>5. PICK k1, v1 : IsLine(a, cmd, user, k1, v1)
  BY <1>4, OneLine
<1>6. PICK k2, v2 : IsLine(b, cmd, user, k2, v2)
  BY <1>4, OneLine
<1>7. PICK k3, v3 : IsLine(c, cmd, user, k3, v3)
  BY <1>4, OneLine
<1>8. k1 # k2 /\ k1 # k3 /\ k2 # k3
  <2>1. a[1] = k1 /\ b[1] = k2 /\ c[1] = k3
    BY <1>5, <1>6, <1>7 DEF IsLine
  <2> QED
    BY <1>4, <2>1, DifferentKeys
<1>9. /\ k1 \in Tokens /\ k2 \in Tokens /\ k3 \in Tokens /\ NewLine \in Tokens
      /\ v1 \in Tokens /\ v2 \in Tokens /\ v3 \in Tokens /\ cmd \in Tokens
  <2>1. /\ k1 \in Keys /\ k2 \in Keys /\ k3 \in Keys
        /\ v1 \in Users /\ v2 \in Users /\ v3 \in Users
    BY <1>5, <1>6, <1>7, OtherKey DEF IsLine
  <2> QED
    BY <2>1, CommandAssumption DEF Tokens
<1>10. /\ a \in Seq(Tokens) /\ Len(a) = 3 /\ a[1] = k1 /\ a[2] = v1 /\ a[3] = NewLine
  BY <1>5, <1>9 DEF IsLine
<1>11. /\ b \in Seq(Tokens) /\ Len(b) = 3 /\ b[1] = k2 /\ b[2] = v2 /\ b[3] = NewLine
  BY <1>6, <1>9 DEF IsLine
<1>12. /\ c \in Seq(Tokens) /\ Len(c) = 3 /\ c[1] = k3 /\ c[2] = v3 /\ c[3] = NewLine
  BY <1>7, <1>9 DEF IsLine
<1>13. PICK h : h = <<cmd, NewLine>>
  OBVIOUS
<1>14. h \in Seq(Tokens) /\ Len(h) = 2 /\ h[1] = cmd /\ h[2] = NewLine
  BY <1>9, <1>13
<1>15. FlattenSeq(lines) = (a \o b) \o c
  <2>1. Len(lines) = 3
    BY <1>2
  <2>2. FlattenSeq(lines) = (lines[1] \o lines[2]) \o lines[3]
    BY <2>1, ThreeJoined
  <2> QED
    BY <1>3, <2>2
<1>16. text = h \o ((a \o b) \o c)
  <2>1. text = h \o FlattenSeq(lines)
    BY <1>1, <1>13
  <2> QED
    BY <1>15, <2>1
<1>17. PICK two \in Seq(Tokens) :
         /\ two = a \o b /\ Len(two) = 6
         /\ two[1] = a[1] /\ two[2] = a[2] /\ two[3] = a[3]
         /\ two[4] = b[1] /\ two[5] = b[2] /\ two[6] = b[3]
  <2>1. a \in Seq(Tokens) /\ Len(a) = 3 /\ b \in Seq(Tokens) /\ Len(b) = 3
    BY <1>10, <1>11
  <2> QED
    BY <2>1, TwoLines
<1>18. PICK three \in Seq(Tokens) :
         /\ three = two \o c /\ Len(three) = 9
         /\ three[1] = two[1] /\ three[2] = two[2] /\ three[3] = two[3]
         /\ three[4] = two[4] /\ three[5] = two[5] /\ three[6] = two[6]
         /\ three[7] = c[1] /\ three[8] = c[2] /\ three[9] = c[3]
  <2>1. two \in Seq(Tokens) /\ Len(two) = 6 /\ c \in Seq(Tokens) /\ Len(c) = 3
    BY <1>12, <1>17
  <2> QED
    BY <2>1, ThreeLines
<1>19. PICK t \in Seq(Tokens) :
         /\ t = h \o three /\ Len(t) = 11
         /\ t[1] = h[1] /\ t[2] = h[2] /\ t[3] = three[1]
         /\ t[4] = three[2] /\ t[5] = three[3] /\ t[6] = three[4]
         /\ t[7] = three[5] /\ t[8] = three[6] /\ t[9] = three[7]
         /\ t[10] = three[8] /\ t[11] = three[9]
  <2>1. h \in Seq(Tokens) /\ Len(h) = 2 /\ three \in Seq(Tokens) /\ Len(three) = 9
    BY <1>14, <1>18
  <2> QED
    BY <2>1, UnderCommand
<1>20. /\ text \in Seq(Tokens) /\ Len(text) = 11
       /\ text[1] = cmd /\ text[2] = NewLine
       /\ text[3] = k1 /\ text[4] = v1 /\ text[5] = NewLine
       /\ text[6] = k2 /\ text[7] = v2 /\ text[8] = NewLine
       /\ text[9] = k3 /\ text[10] = v3 /\ text[11] = NewLine
  <2>1. t = text
    BY <1>16, <1>17, <1>18, <1>19
  <2>2. /\ t[1] = cmd /\ t[2] = NewLine
        /\ t[3] = k1 /\ t[4] = v1 /\ t[5] = NewLine
    BY <1>10, <1>14, <1>17, <1>18, <1>19, Zenon
  <2>3. t[6] = k2 /\ t[7] = v2 /\ t[8] = NewLine
    BY <1>11, <1>17, <1>18, <1>19, Zenon
  <2>4. t[9] = k3 /\ t[10] = v3 /\ t[11] = NewLine
    BY <1>12, <1>18, <1>19, Zenon
  <2>5. t \in Seq(Tokens) /\ Len(t) = 11
    BY <1>19, Zenon
  <2> QED
    BY <2>1, <2>2, <2>3, <2>4, <2>5, Zenon
<1>21. PICK k, v : k = <<k1, k2, k3>> /\ v = <<v1, v2, v3>>
  OBVIOUS
<1>22. /\ k[1] = k1 /\ k[2] = k2 /\ k[3] = k3
       /\ v[1] = v1 /\ v[2] = v2 /\ v[3] = v3
  BY <1>21
<1>23. \A i \in 1..3 : v[i] \in Users /\ (k[i] = "USERNAME:" => v[i] = user)
  BY <1>5, <1>6, <1>7, <1>22 DEF IsLine
<1>24. {k[1], k[2], k[3]} = {"USERNAME:", "PASSWORD:", Other(cmd)}
  <2>1. {k1, k2, k3} \subseteq {"USERNAME:", "PASSWORD:", Other(cmd)}
    BY <1>5, <1>6, <1>7 DEF IsLine
  <2> QED
    BY <1>8, <1>22, <2>1
<1>25. Whole(text, cmd, user, k, v)
  BY <1>8, <1>20, <1>22, <1>23, <1>24 DEF Whole
<1> QED
  BY <1>20, <1>25

\* The keys, the names and the other tokens of a text are all different.
LEMMA TokensDiffer ==
  ASSUME PlainNames, NEW cmd \in Words, NEW text, NEW user, NEW k, NEW v,
         Whole(text, cmd, user, k, v)
  PROVE  /\ cmd # NewLine
         /\ \A i \in 1..3 : /\ k[i] \in Keys /\ k[i] # NewLine /\ k[i] # cmd
                            /\ v[i] # NewLine
         /\ \A i, j \in 1..3 : v[i] # k[j] /\ (i # j => k[i] # k[j])
<1>1. cmd \in {"REGISTER", "BIND"}
  BY CommandAssumption
<1>2. {k[1], k[2], k[3]} \subseteq Keys
  BY OtherKey DEF Whole
<1>3. \A i \in 1..3 : k[i] \in Keys
  <2>1. \A i \in 1..3 : i = 1 \/ i = 2 \/ i = 3
    OBVIOUS
  <2> QED
    BY <1>2, <2>1
<1>4. \A i \in 1..3 : v[i] \in Users
  BY DEF Whole
<1>5. \A i \in 1..3 : v[i] \notin Keys \cup {NewLine}
  BY <1>4 DEF PlainNames
<1>6. NewLine \notin Keys /\ cmd \notin Keys /\ cmd # NewLine
  BY <1>1 DEF Keys, NewLine
<1>7. \A i, j \in 1..3 : i # j => k[i] # k[j]
  <2>1. \A i \in 1..3 : i = 1 \/ i = 2 \/ i = 3
    OBVIOUS
  <2>2. k[1] # k[2] /\ k[1] # k[3] /\ k[2] # k[3]
    BY DEF Whole
  <2> QED
    BY <2>1, <2>2
<1> QED
  BY <1>3, <1>5, <1>6, <1>7

\* In d the parser finds key at at, and the end of its value at end.
KeyFound(d, key, at, end) ==
  /\ Occurrences(d, key, 1) # {} /\ First(d, key, 1) = at
  /\ Occurrences(d, NewLine, at) # {} /\ First(d, NewLine, at) = end

LEMMA KeyIsFound ==
  ASSUME NEW d, Len(d) \in Nat, NEW key,
         NEW at \in 1..Len(d), d[at] = key, \A j \in 1..at - 1 : d[j] # key,
         NEW end \in at..Len(d), d[end] = NewLine, \A j \in at..end - 1 : d[j] # NewLine
  PROVE  KeyFound(d, key, at, end)
<1>1. PICK len \in Nat : len = Len(d)
  OBVIOUS
<1>2. at \in Nat \ {0} /\ 1 \in Nat \ {0} /\ at \in 1..Len(d) /\ end \in at..Len(d)
  BY <1>1
<1>3. First(d, key, 1) = at /\ Occurrences(d, key, 1) # {}
  BY <1>2, FirstIs, Zenon
<1>4. First(d, NewLine, at) = end /\ Occurrences(d, NewLine, at) # {}
  BY <1>2, FirstIs, Zenon
<1> QED
  BY <1>3, <1>4 DEF KeyFound

LEMMA WholeFound ==
  ASSUME PlainNames, NEW cmd \in Words, NEW text, NEW user, NEW k, NEW v,
         Whole(text, cmd, user, k, v)
  PROVE  /\ KeyFound(text, k[1], 3, 5)
         /\ KeyFound(text, k[2], 6, 8)
         /\ KeyFound(text, k[3], 9, 11)
<1>1. /\ cmd # NewLine
      /\ \A i \in 1..3 : /\ k[i] \in Keys /\ k[i] # NewLine /\ k[i] # cmd
                         /\ v[i] # NewLine
      /\ \A i, j \in 1..3 : v[i] # k[j] /\ (i # j => k[i] # k[j])
  BY TokensDiffer
<1>2. /\ Len(text) = 11
      /\ text[1] = cmd /\ text[2] = NewLine
      /\ text[3] = k[1] /\ text[4] = v[1] /\ text[5] = NewLine
      /\ text[6] = k[2] /\ text[7] = v[2] /\ text[8] = NewLine
      /\ text[9] = k[3] /\ text[10] = v[3] /\ text[11] = NewLine
  BY DEF Whole
<1>3. \A j \in 1..11 : \/ j = 1 \/ j = 2 \/ j = 3 \/ j = 4 \/ j = 5 \/ j = 6
                       \/ j = 7 \/ j = 8 \/ j = 9 \/ j = 10 \/ j = 11
  OBVIOUS
<1>4. KeyFound(text, k[1], 3, 5)
  <2>1. /\ \A j \in 1..3 - 1 : text[j] # k[1]
        /\ \A j \in 3..5 - 1 : text[j] # NewLine
    BY <1>1, <1>2, <1>3
  <2>2. 3 \in 1..Len(text) /\ 5 \in 3..Len(text) /\ Len(text) \in Nat
    BY <1>2
  <2> QED
    BY <1>2, <2>1, <2>2, KeyIsFound, Zenon
<1>5. KeyFound(text, k[2], 6, 8)
  <2>1. /\ \A j \in 1..6 - 1 : text[j] # k[2]
        /\ \A j \in 6..8 - 1 : text[j] # NewLine
    BY <1>1, <1>2, <1>3
  <2>2. 6 \in 1..Len(text) /\ 8 \in 6..Len(text) /\ Len(text) \in Nat
    BY <1>2
  <2> QED
    BY <1>2, <2>1, <2>2, KeyIsFound, Zenon
<1>6. KeyFound(text, k[3], 9, 11)
  <2>1. /\ \A j \in 1..9 - 1 : text[j] # k[3]
        /\ \A j \in 9..11 - 1 : text[j] # NewLine
    BY <1>1, <1>2, <1>3
  <2>2. 9 \in 1..Len(text) /\ 11 \in 9..Len(text) /\ Len(text) \in Nat
    BY <1>2
  <2> QED
    BY <1>2, <2>1, <2>2, KeyIsFound, Zenon
<1> QED
  BY <1>4, <1>5, <1>6

\* The parser reads in a text what it asks for, whatever the order of its lines.
LEMMA WholeRead ==
  ASSUME PlainNames, NEW cmd \in Words, NEW user \in Users, NEW name \in Users,
         NEW text \in Texts(cmd, user, name)
  PROVE  Read(text) = [call |-> cmd, user |-> <<user>>]
<1>1. text \in Seq(Tokens)
  BY WholeText
<1>2. PICK k, v : Whole(text, cmd, user, k, v)
  BY WholeText
<1>3. /\ KeyFound(text, k[1], 3, 5)
      /\ KeyFound(text, k[2], 6, 8)
      /\ KeyFound(text, k[3], 9, 11)
  BY <1>2, WholeFound, Zenon
<1>4. PICK keys : keys = {"USERNAME:", "PASSWORD:", Other(cmd)}
  OBVIOUS
<1>5. keys = {k[1], k[2], k[3]} /\ text[1] = cmd
  BY <1>2, <1>4 DEF Whole
<1>6. ValuesEnd(text, keys)
  <2>1. \A key \in keys : key = k[1] \/ key = k[2] \/ key = k[3]
    BY <1>5
  <2>2. \A key \in keys : \E at, end : KeyFound(text, key, at, end)
    BY <1>3, <2>1, Zenon
  <2>3. \A key \in keys : /\ Occurrences(text, key, 1) # {}
                          /\ Occurrences(text, NewLine, First(text, key, 1)) # {}
    BY <2>2, Zenon DEF KeyFound
  <2>4. ASSUME NEW j \in keys, NEW l \in keys, j # l
        PROVE  First(text, NewLine, First(text, j, 1))
                 # First(text, NewLine, First(text, l, 1))
    <3>1. /\ First(text, NewLine, First(text, k[1], 1)) = 5
          /\ First(text, NewLine, First(text, k[2], 1)) = 8
          /\ First(text, NewLine, First(text, k[3], 1)) = 11
      BY <1>3, Zenon DEF KeyFound
    <3>2. 5 # 8 /\ 5 # 11 /\ 8 # 11
      OBVIOUS
    <3> DEFINE End(key) == First(text, NewLine, First(text, key, 1))
    <3>3. End(k[1]) # End(k[2]) /\ End(k[1]) # End(k[3]) /\ End(k[2]) # End(k[3])
      BY <3>1, <3>2
    <3> HIDE DEF End
    <3>4. End(j) # End(l)
      BY <2>1, <2>4, <3>3
    <3> QED
      BY <3>4 DEF End
  <2> QED
    BY <2>3, <2>4, Zenon DEF ValuesEnd
<1>7. PICK i \in 1..3 : k[i] = "USERNAME:"
  <2>1. "USERNAME:" \in {k[1], k[2], k[3]}
    BY <1>4, <1>5
  <2> QED
    BY <2>1
<1>8. \E n \in 3..9 : /\ n + 2 <= 11 /\ KeyFound(text, "USERNAME:", n, n + 2)
                      /\ text[n + 1] = user
  <2>1. i = 1 \/ i = 2 \/ i = 3
    OBVIOUS
  <2>2. v[i] = user
    BY <1>2, <1>7 DEF Whole
  <2>3. 3 + 2 = 5 /\ 6 + 2 = 8 /\ 9 + 2 = 11 /\ 3 + 1 = 4 /\ 6 + 1 = 7 /\ 9 + 1 = 10
    OBVIOUS
  <2>4. text[4] = v[1] /\ text[7] = v[2] /\ text[10] = v[3]
    BY <1>2 DEF Whole
  <2>5. CASE i = 1
    <3>1. KeyFound(text, "USERNAME:", 3, 3 + 2) /\ text[3 + 1] = user
      BY <1>3, <1>7, <2>2, <2>3, <2>4, <2>5, Zenon
    <3> QED
      BY <3>1
  <2>6. CASE i = 2
    <3>1. KeyFound(text, "USERNAME:", 6, 6 + 2) /\ text[6 + 1] = user
      BY <1>3, <1>7, <2>2, <2>3, <2>4, <2>6, Zenon
    <3> QED
      BY <3>1
  <2>7. CASE i = 3
    <3>1. KeyFound(text, "USERNAME:", 9, 9 + 2) /\ text[9 + 1] = user
      BY <1>3, <1>7, <2>2, <2>3, <2>4, <2>7, Zenon
    <3> QED
      BY <3>1
  <2> QED
    BY <2>1, <2>5, <2>6, <2>7
<1>9. PICK n \in 3..9 : /\ n + 2 <= 11 /\ KeyFound(text, "USERNAME:", n, n + 2)
                        /\ text[n + 1] = user
  BY <1>8
<1>10. Value(text, "USERNAME:") = SubSeq(text, n + 1, (n + 2) - 1)
  BY <1>9, Zenon DEF Value, KeyFound
<1>11. (n + 2) - 1 = n + 1 /\ n + 1 \in 1..11
  OBVIOUS
<1>12. SubSeq(text, n + 1, n + 1) = <<user>>
  <2>1. PICK m : m = n + 1
    OBVIOUS
  <2>2. m \in 1..Len(text) /\ text[m] = user
    BY <1>2, <1>9, <1>11, <2>1 DEF Whole
  <2>3. SubSeq(text, m, m) = <<text[m]>>
    BY <1>1, <2>2, OnePiece
  <2> QED
    BY <2>1, <2>2, <2>3
<1> QED
  BY <1>4, <1>5, <1>6, <1>10, <1>11, <1>12 DEF Read

-----------------------------------------------------------------------------
(* A text that has lost a token.                                           *)

LEMMA Removed ==
  ASSUME NEW S, NEW s \in Seq(S), NEW i \in 1..Len(s)
  PROVE  /\ Len(RemoveAt(s, i)) = Len(s) - 1
         /\ \A j \in 1..Len(s) - 1 : RemoveAt(s, i)[j] = IF j < i THEN s[j] ELSE s[j + 1]
<1>1. PICK n \in Nat : n = Len(s)
  OBVIOUS
<1>2. PICK a : a = SubSeq(s, 1, i - 1)
  OBVIOUS
<1>3. PICK b : b = SubSeq(s, i + 1, n)
  OBVIOUS
<1>4. /\ a \in Seq(S) /\ Len(a) = i - 1
      /\ \A j \in 1..i - 1 : a[j] = s[j]
  <2>1. 0 \in 0..Len(s) /\ i - 1 \in 0..Len(s) /\ 0 + 1 = 1 /\ (i - 1) - 0 = i - 1
    OBVIOUS
  <2>2. /\ SubSeq(s, 0 + 1, i - 1) \in Seq(S) /\ Len(SubSeq(s, 0 + 1, i - 1)) = (i - 1) - 0
        /\ \A j \in 1..(i - 1) - 0 : SubSeq(s, 0 + 1, i - 1)[j] = s[j + 0]
    BY <2>1, Cut
  <2> QED
    BY <1>2, <2>1, <2>2
<1>5. /\ b \in Seq(S) /\ Len(b) = n - i
      /\ \A j \in 1..n - i : b[j] = s[j + i]
  <2>1. i \in 0..Len(s) /\ n \in i..Len(s)
    BY <1>1
  <2> QED
    BY <1>3, <2>1, Cut
<1>6. PICK d : d = a \o b
  OBVIOUS
<1>7. /\ d \in Seq(S) /\ Len(d) = Len(a) + Len(b)
      /\ \A j \in 1..Len(a) + Len(b) :
           d[j] = IF j <= Len(a) THEN a[j] ELSE b[j - Len(a)]
  BY <1>4, <1>5, <1>6, ConcatProperties, Zenon
<1>8. Len(a) + Len(b) = n - 1 /\ i \in 1..n
  BY <1>1, <1>4, <1>5
<1>9. ASSUME NEW j \in 1..n - 1
      PROVE  d[j] = IF j < i THEN s[j] ELSE s[j + 1]
  <2>1. d[j] = IF j <= i - 1 THEN a[j] ELSE b[j - (i - 1)]
    BY <1>4, <1>7, <1>8
  <2>2. CASE j < i
    <3>1. j <= i - 1 /\ j \in 1..i - 1
      BY <1>8, <2>2
    <3> QED
      BY <1>4, <2>1, <2>2, <3>1
  <2>3. CASE ~(j < i)
    <3>1. ~(j <= i - 1) /\ j - (i - 1) \in 1..n - i /\ (j - (i - 1)) + i = j + 1
      BY <1>8, <2>3
    <3> QED
      BY <1>5, <2>1, <2>3, <3>1
  <2> QED
    BY <2>2, <2>3
<1>10. RemoveAt(s, i) = d
  BY <1>1, <1>2, <1>3, <1>6 DEF RemoveAt
<1> QED
  BY <1>1, <1>7, <1>8, <1>9, <1>10

\* Which token is lost.
LEMMA LostToken ==
  ASSUME PlainNames, NEW cmd \in Words, NEW user \in Users, NEW text, NEW k, NEW v,
         Whole(text, cmd, user, k, v), NEW i \in 1..11,
         \/ text[i] \in Keys \cup Words
         \/ text[i] = NewLine /\ i > 2
  PROVE  i \in {1, 3, 5, 6, 8, 9, 11}
<1>1. /\ text[2] = NewLine
      /\ text[4] = v[1] /\ text[7] = v[2] /\ text[10] = v[3]
  BY DEF Whole
<1>2. \A m \in 1..3 : v[m] \in Users
  BY DEF Whole
<1>3. \A u \in Users : u \notin Keys /\ u \notin Words /\ u # NewLine
  BY CommandAssumption DEF PlainNames
<1>4. NewLine \notin Keys /\ NewLine \notin Words
  BY CommandAssumption DEF Keys, NewLine
<1>5. v[1] \in Users /\ v[2] \in Users /\ v[3] \in Users
  BY <1>2
<1>6. i # 2 /\ i # 4 /\ i # 7 /\ i # 10
  BY <1>1, <1>3, <1>4, <1>5
<1> QED
  BY <1>6

\* Without a key, or an end behind it, a text is refused.
LEMMA Incomplete ==
  ASSUME NEW d, NEW cmd, d[1] = cmd, NEW key \in {"USERNAME:", "PASSWORD:", Other(cmd)},
         \/ Occurrences(d, key, 1) = {}
         \/ Occurrences(d, NewLine, First(d, key, 1)) = {}
  PROVE  Read(d) = Refused
  BY DEF Read, ValuesEnd

\* With one end behind two keys, it is refused.
LEMMA OneEnd ==
  ASSUME NEW d, NEW cmd, d[1] = cmd,
         NEW j \in {"USERNAME:", "PASSWORD:", Other(cmd)},
         NEW l \in {"USERNAME:", "PASSWORD:", Other(cmd)}, j # l,
         NEW at, NEW behind, NEW end,
         KeyFound(d, j, at, end), KeyFound(d, l, behind, end)
  PROVE  Read(d) = Refused
<1>1. First(d, NewLine, First(d, j, 1)) = First(d, NewLine, First(d, l, 1))
  BY Zenon DEF KeyFound
<1> QED
  BY <1>1 DEF Read, ValuesEnd

\* The parser refuses a text that has lost any token it needs.
LEMMA DamagedRefused ==
  ASSUME PlainNames, NEW cmd \in Words, NEW user \in Users, NEW name \in Users,
         NEW text \in Texts(cmd, user, name), NEW d \in Damaged(text)
  PROVE  Read(d) = Refused
<1>1. text \in Seq(Tokens)
  BY WholeText
<1>2. PICK k, v : Whole(text, cmd, user, k, v)
  BY WholeText
<1>3. /\ cmd # NewLine
      /\ \A m \in 1..3 : /\ k[m] \in Keys /\ k[m] # NewLine /\ k[m] # cmd
                         /\ v[m] # NewLine
      /\ \A m, n \in 1..3 : v[m] # k[n] /\ (m # n => k[m] # k[n])
  BY <1>2, TokensDiffer
<1>4. /\ Len(text) = 11
      /\ text[1] = cmd /\ text[2] = NewLine
      /\ text[3] = k[1] /\ text[4] = v[1] /\ text[5] = NewLine
      /\ text[6] = k[2] /\ text[7] = v[2] /\ text[8] = NewLine
      /\ text[9] = k[3] /\ text[10] = v[3] /\ text[11] = NewLine
  BY <1>2 DEF Whole
<1>5. /\ k[1] \in {"USERNAME:", "PASSWORD:", Other(cmd)}
      /\ k[2] \in {"USERNAME:", "PASSWORD:", Other(cmd)}
      /\ k[3] \in {"USERNAME:", "PASSWORD:", Other(cmd)}
  BY <1>2 DEF Whole
<1>6. PICK i \in 1..11 : /\ d = RemoveAt(text, i)
                         /\ \/ text[i] \in Keys \cup Words
                            \/ text[i] = NewLine /\ i > 2
  BY <1>1, <1>4 DEF Damaged
<1>7. i \in {1, 3, 5, 6, 8, 9, 11}
  BY <1>2, <1>6, LostToken, Zenon
<1>8. Len(d) = 10 /\ \A j \in 1..10 : d[j] = IF j < i THEN text[j] ELSE text[j + 1]
  <2>1. i \in 1..Len(text) /\ Len(text) - 1 = 10
    BY <1>4
  <2> QED
    BY <1>1, <1>6, <2>1, Removed
<1>9. \A j \in 1..11 : \/ j = 1 \/ j = 2 \/ j = 3 \/ j = 4 \/ j = 5 \/ j = 6
                       \/ j = 7 \/ j = 8 \/ j = 9 \/ j = 10 \/ j = 11
  OBVIOUS
<1>10. i # 1 => d[1] = cmd
  BY <1>4, <1>8
<1>11. CASE i = 1
  <2>1. d[1] = NewLine
    BY <1>4, <1>8, <1>11
  <2>2. NewLine \notin Words
    BY CommandAssumption DEF NewLine
  <2> QED
    BY <2>1, <2>2 DEF Read
<1>12. ASSUME NEW m \in 1..3, i # 1, text[i] = k[m],
              \A j \in 1..11 : j # i => text[j] # k[m]
       PROVE  Read(d) = Refused
  <2>1. \A j \in 1..Len(d) : d[j] # k[m]
    BY <1>8, <1>12
  <2>2. Occurrences(d, k[m], 1) = {}
    BY SMTT(30), <1>8, <2>1, NotFound
  <2>3. k[m] \in {"USERNAME:", "PASSWORD:", Other(cmd)}
    BY <1>5
  <2> QED
    BY <1>10, <1>12, <2>2, <2>3, Incomplete, Zenon
<1>13. CASE i = 3
  <2>1. \A j \in 1..11 : j # i => text[j] # k[1]
    BY <1>3, <1>4, <1>9, <1>13
  <2> QED
    BY <1>4, <1>12, <1>13, <2>1
<1>14. CASE i = 6
  <2>1. \A j \in 1..11 : j # i => text[j] # k[2]
    BY <1>3, <1>4, <1>9, <1>14
  <2> QED
    BY <1>4, <1>12, <1>14, <2>1
<1>15. CASE i = 9
  <2>1. \A j \in 1..11 : j # i => text[j] # k[3]
    BY <1>3, <1>4, <1>9, <1>15
  <2> QED
    BY <1>4, <1>12, <1>15, <2>1
<1>16. CASE i = 5
  <2>1. /\ d[1] = cmd /\ d[2] = NewLine /\ d[3] = k[1] /\ d[4] = v[1] /\ d[5] = k[2]
        /\ d[6] = v[2] /\ d[7] = NewLine
    BY <1>4, <1>8, <1>16
  <2>2. /\ \A j \in 1..3 - 1 : d[j] # k[1]
        /\ \A j \in 3..7 - 1 : d[j] # NewLine
    BY <1>3, <1>9, <2>1
  <2>3. \A j \in 1..5 - 1 : d[j] # k[2]
    BY <1>3, <1>9, <2>1
  <2>4. \A j \in 5..7 - 1 : d[j] # NewLine
    BY <1>3, <1>9, <2>1
  <2>5. /\ Len(d) \in Nat /\ 3 \in 1..Len(d) /\ 5 \in 1..Len(d)
        /\ 7 \in 3..Len(d) /\ 7 \in 5..Len(d)
    BY <1>8
  <2>6. KeyFound(d, k[1], 3, 7)
    BY <2>1, <2>2, <2>5, KeyIsFound, Zenon
  <2>7. KeyFound(d, k[2], 5, 7)
    BY <2>1, <2>3, <2>4, <2>5, KeyIsFound, Zenon
  <2>8. k[1] # k[2]
    BY <1>3
  <2> QED
    BY <1>5, <2>1, <2>6, <2>7, <2>8, OneEnd, Zenon
<1>17. CASE i = 8
  <2>1. /\ d[1] = cmd /\ d[2] = NewLine /\ d[3] = k[1] /\ d[4] = v[1] /\ d[5] = NewLine
        /\ d[6] = k[2] /\ d[7] = v[2] /\ d[8] = k[3] /\ d[9] = v[3] /\ d[10] = NewLine
    BY <1>4, <1>8, <1>17
  <2>2. \A j \in 1..6 - 1 : d[j] # k[2]
    BY <1>3, <1>9, <2>1
  <2>3. \A j \in 1..8 - 1 : d[j] # k[3]
    BY <1>3, <1>9, <2>1
  <2>4. /\ \A j \in 6..10 - 1 : d[j] # NewLine
        /\ \A j \in 8..10 - 1 : d[j] # NewLine
    BY <1>3, <1>9, <2>1
  <2>5. /\ Len(d) \in Nat /\ 6 \in 1..Len(d) /\ 8 \in 1..Len(d)
        /\ 10 \in 6..Len(d) /\ 10 \in 8..Len(d)
    BY <1>8
  <2>6. KeyFound(d, k[2], 6, 10)
    BY <2>1, <2>2, <2>4, <2>5, KeyIsFound, Zenon
  <2>7. KeyFound(d, k[3], 8, 10)
    BY <2>1, <2>3, <2>4, <2>5, KeyIsFound, Zenon
  <2>8. k[2] # k[3]
    BY <1>3
  <2> QED
    BY <1>5, <2>1, <2>6, <2>7, <2>8, OneEnd, Zenon
<1>18. CASE i = 11
  <2>1. /\ d[1] = cmd /\ d[2] = NewLine /\ d[3] = k[1] /\ d[4] = v[1] /\ d[5] = NewLine
        /\ d[6] = k[2] /\ d[7] = v[2] /\ d[8] = NewLine /\ d[9] = k[3] /\ d[10] = v[3]
    BY <1>4, <1>8, <1>18
  <2>2. \A j \in 1..9 - 1 : d[j] # k[3]
    BY <1>3, <1>9, <2>1
  <2>3. First(d, k[3], 1) = 9
    <3>1. Len(d) \in Nat /\ 1 \in Nat \ {0} /\ 9 \in 1..Len(d)
      BY <1>8
    <3>2. d[9] = k[3]
      BY <2>1
    <3>3. First(d, k[3], 1) = 9 /\ Occurrences(d, k[3], 1) # {}
      BY <2>2, <3>1, <3>2, FirstIs, Zenon
    <3> QED
      BY <3>3
  <2>4. \A j \in 9..Len(d) : d[j] # NewLine
    BY <1>3, <1>8, <1>9, <2>1
  <2>5. Occurrences(d, NewLine, 9) = {}
    <3>1. Len(d) \in Nat /\ 9 \in Nat \ {0}
      BY <1>8
    <3> QED
      BY <2>4, <3>1, NotFound, Zenon
  <2> QED
    BY <1>5, <2>1, <2>3, <2>5, Incomplete, Zenon
<1> QED
  BY <1>7, <1>11, <1>13, <1>14, <1>15, <1>16, <1>17, <1>18

\* A text that asks for something is read so; any other one is refused.
THEOREM ParserAgrees ==
  ASSUME PlainNames, NEW r \in Inputs
  PROVE  /\ \/ /\ r.cmd \in Words /\ r.user \in Users
               /\ r.read = [call |-> r.cmd, user |-> <<r.user>>]
            \/ r.cmd = "damaged" /\ r.read = Refused
         /\ r.cmd \in Words => r.read # Refused
<1>1. PICK cmd \in Words, user \in Users, name \in Users :
        r \in {[cmd |-> cmd, user |-> user, read |-> Read(text)] :
                  text \in Texts(cmd, user, name)}
                \cup {[cmd |-> "damaged", user |-> NoUser, read |-> Read(d)] :
                        d \in UNION {Damaged(text) : text \in Texts(cmd, user, name)}}
  BY DEF Inputs
<1>2. "damaged" \notin Words /\ \A w \in Words : w # "none"
  BY CommandAssumption
<1>3. CASE \E text \in Texts(cmd, user, name) :
             r = [cmd |-> cmd, user |-> user, read |-> Read(text)]
  <2>1. PICK text \in Texts(cmd, user, name) :
          r = [cmd |-> cmd, user |-> user, read |-> Read(text)]
    BY <1>3
  <2>2. Read(text) = [call |-> cmd, user |-> <<user>>]
    BY WholeRead
  <2>3. r.cmd = cmd /\ r.user = user /\ r.read = [call |-> cmd, user |-> <<user>>]
    BY <2>1, <2>2
  <2>4. r.read.call = cmd /\ Refused.call = "none"
    BY <2>3 DEF Refused
  <2> QED
    BY <1>2, <2>3, <2>4
<1>4. CASE \E text \in Texts(cmd, user, name) : \E d \in Damaged(text) :
             r = [cmd |-> "damaged", user |-> NoUser, read |-> Read(d)]
  <2>. PICK text \in Texts(cmd, user, name) : \E d \in Damaged(text) :
         r = [cmd |-> "damaged", user |-> NoUser, read |-> Read(d)]
    BY <1>4
  <2>1. PICK d \in Damaged(text) :
          r = [cmd |-> "damaged", user |-> NoUser, read |-> Read(d)]
    OBVIOUS
  <2>2. Read(d) = Refused
    BY DamagedRefused
  <2>3. r.cmd = "damaged" /\ r.read = Refused
    BY <2>1, <2>2
  <2> QED
    BY <1>2, <2>3
<1> QED
  BY <1>1, <1>3, <1>4

-----------------------------------------------------------------------------
(* What a caller knows of its command.                                     *)

RegLabels == {"reg_linked", "reg_done", "reg_check", "reg_offline"}

\* Where a caller may be, and where its routines return to.
CommandPlaces(t) ==
  /\ \/ pc[t] \in {"idle", "return"} \/ pc[t] \in RoutineLabels
     \/ pc[t] \in BindLabels \/ pc[t] \in RegLabels \/ pc[t] \in PingLabels
  /\ pc[t] \in Closes => frame[t].back \in {"bind_connect", "bind_unlock", "reg_offline"}
  /\ pc[t] \in Connects => frame[t].back \in {"bind_linked", "reg_linked"}
  /\ pc[t] \in Requests =>
       frame[t].back \in {"bind_authed", "bind_bound", "bind_updated", "reg_done"}

\* What the device is bound to, as the program and the file have it.
BoundTo(user) ==
  /\ cloud.account = user
  /\ conf.account = user \/ ("UNBIND" \in Controls /\ conf.account = NoUser)

\* A caller works on the command it was given, and for the user that it names.
Registers(t) ==
  pc[t] \in RegLabels \/ (pc[t] \in RoutineLabels /\ frame[t].back \in RegLabels)
Works(t) ==
  /\ pc[t] # "idle" => command[t].answer = "none" /\ command[t].cmd # "damaged"
  /\ Binds(t) => command[t].cmd = "BIND" /\ frame[t].user = command[t].user
  /\ Registers(t) => command[t].cmd = "REGISTER"
  /\ pc[t] \in PingLabels => command[t].cmd = "none"

\* From the store of the account on, the program names that user, and from the
\* end of the store in the file the file does.
Names(t) == pc[t] \in Named \/ (pc[t] \in RoutineLabels /\ frame[t].back \in Named)
Finishes(t) ==
  \/ pc[t] = "bind_unlock" /\ frame[t].res = "ok"
  \/ pc[t] = "return" /\ frame[t].res = "ok" /\ command[t].cmd = "BIND"
  \/ pc[t] = "idle" /\ command[t].answer = "OK" /\ command[t].cmd = "BIND"
Stores(t) ==
  /\ Names(t) => cloud.account = command[t].user
  /\ pc[t] = "bind_save_password" \/ Finishes(t) => BoundTo(command[t].user)
  /\ pc[t] \in Closes /\ frame[t].back = "bind_unlock" => frame[t].res # "ok"
  /\ command[t].answer = "OK" => command[t].cmd # "damaged"

\* The daemon authenticates or updates only a device that it found bound.
Heeds ==
  /\ At({"auth_done", "need_update", "need_read", "need_clear"}) => cloud.binded
  /\ At(Requests) /\ (Back({"auth_done"}) \/ frame[Daemon].cmd \in {"AUTH", "UPDEV"}) =>
       cloud.binded

Records ==
  [cmd : {"none", "damaged"} \cup Words, user : Users \cup {NoUser},
   answer : {"none", "OK", "1000", "1004", "1006", "2001"}]
CommandTypeOK == command \in [Callers -> Records]

CommandInv == \A t \in Callers : CommandPlaces(t) /\ Works(t) /\ Stores(t)

-----------------------------------------------------------------------------
(* The steps.                                                              *)

\* A step of the registration is one of a routine, of the lock or of the status.
LEMMA RegUsrType ==
  ASSUME NEW L, ApiLabels \subseteq L, Typed(L), NEW t \in Callers,
         RegUsr(t) \/ RegUsrStep(t)
  PROVE  Typed(L)'
<1> USE CallerThread
<1>0. Labels \subseteq L /\ CallerLabels \subseteq L
  BY DEF ApiLabels
<1>1. CASE RegUsr(t) \/ RegLinked(t) \/ RegDone(t) \/ RegCheck(t)
  <2>1. \/ \E l \in L : Goto(t, l) /\ frame' = frame
        \/ \E l \in L, b \in L : Call(t, l, b)
        \/ \E c \in Commands, b \in L : Request(t, c, b)
    BY <1>0, <1>1
       DEF RegUsr, RegLinked, RegDone, RegCheck, Commands, Labels, RoutineLabels,
           CallerLabels
  <2>2. UNCHANGED shared
    BY <1>1 DEF RegUsr, RegLinked, RegDone, RegCheck
  <2> QED
    BY <1>0, <2>1, <2>2, MovesType
<1>2. CASE RegOffline(t)
  BY <1>0, <1>2, SetStatusType DEF RegOffline, Statuses, CallerLabels
<1> QED
  BY <1>1, <1>2 DEF RegUsrStep

\* A step of CloudCommand, by what it does of CloudApi: nobody calls swCloudUBind.
CalledStep(t) ==
  \/ Routine(t) \/ Bind(t) \/ BindStep(t) \/ RegUsr(t) \/ RegUsrStep(t)
  \/ Ping(t) \/ PingStep(t) \/ Returned(t)
Quietly == \/ UNCHANGED vars \/ DaemonStep \/ Environment
           \/ \E t \in Handlers : HandlerStep(t)

\* A text that is not refused asks for one of the two calls.
LEMMA ReadCalls ==
  ASSUME NEW r \in Inputs, r.read # Refused
  PROVE  r.read.call \in {"REGISTER", "BIND"}
<1>1. \E text : r.read = Read(text)
  BY DEF Inputs
<1>2. PICK text : r.read = Read(text)
  BY <1>1
<1>3. text[1] \in Words /\ r.read.call = text[1]
  BY <1>2 DEF Read
<1> QED
  BY <1>3, CommandAssumption

LEMMA CommandMoves ==
  ASSUME NEW t \in Callers, Command(t)
  PROVE  UNCHANGED vars \/ RegUsr(t) \/ Bind(t)
<1>1. PICK r \in Inputs :
        CASE r.read = Refused           -> UNCHANGED vars
          [] r.read.call = "REGISTER" -> RegUsr(t)
          [] r.read.call = "BIND"     -> Bind(t) /\ <<frame'[t].user>> = r.read.user
  BY DEF Command
<1>2. CASE r.read = Refused
  <2>1. Refused.call = "none"
    BY DEF Refused
  <2> QED
    BY <1>1, <1>2, <2>1
<1>3. CASE r.read # Refused
  <2>1. r.read.call \in {"REGISTER", "BIND"}
    BY <1>3, ReadCalls
  <2> QED
    BY <1>1, <1>3, <2>1
<1> QED
  BY <1>2, <1>3

LEMMA CommandSteps ==
  ASSUME [CommandNext]_commandVars
  PROVE  Quietly \/ \E t \in Callers : CalledStep(t)
<1>1. CASE UNCHANGED commandVars
  BY <1>1 DEF commandVars, vars, Quietly
<1>2. CASE Next
  BY <1>2 DEF Next, Quietly
<1>3. ASSUME NEW t \in Callers, Working(t)
      PROVE  CalledStep(t)
  BY <1>3 DEF Working, CalledStep
<1>4. ASSUME NEW t \in Callers, NameRefused(t) \/ CommandDone(t) \/ PingAlone(t)
      PROVE  UNCHANGED vars \/ CalledStep(t)
  BY <1>4 DEF NameRefused, CommandDone, PingAlone, CalledStep
<1>5. ASSUME NEW t \in Callers, Command(t)
      PROVE  UNCHANGED vars \/ CalledStep(t)
  BY <1>5, CommandMoves DEF CalledStep
<1> QED
  BY <1>1, <1>2, <1>3, <1>4, <1>5 DEF CommandNext, Quietly

LEMMA CommandType ==
  ASSUME ApiTypeOK, [CommandNext]_commandVars
  PROVE  ApiTypeOK'
<1>1. ApiLabels \subseteq ApiLabels /\ Labels \subseteq ApiLabels
  BY DEF ApiLabels
<1>2. Typed(ApiLabels)
  BY ApiTyped
<1>3. Typed(ApiLabels)'
  <2>1. CASE Quietly
    <3>1. CASE UNCHANGED vars
      BY <1>2, <3>1 DEF vars, Typed
    <3>2. CASE ~UNCHANGED vars
      BY <1>1, <1>2, <2>1, <3>2, DaemonType, HandlerType, EnvironmentType DEF Quietly
    <3> QED
      BY <3>1, <3>2
  <2>2. ASSUME NEW t \in Callers, CalledStep(t)
        PROVE  Typed(ApiLabels)'
    <3>1. CASE CallerStep(t)
      BY <1>1, <1>2, <3>1, CallerType
    <3>2. CASE RegUsr(t) \/ RegUsrStep(t)
      BY <1>1, <1>2, <3>2, RegUsrType
    <3> QED
      BY <2>2, <3>1, <3>2 DEF CalledStep, CallerStep, CallerWork
  <2> QED
    BY <2>1, <2>2, CommandSteps
<1> QED
  BY <1>3 DEF ApiTypeOK, ApiLabels, Labels

LEMMA CommandTypes == CommandSpec => []ApiTypeOK
<1>1. CommandInit => ApiTypeOK
  BY InitType, ApiTyped DEF CommandInit, ApiLabels
<1> QED
  BY <1>1, CommandType, PTL DEF CommandSpec

\* The steps of a registration move their thread alone, and bind nothing.
LEMMA RegUsrMoves ==
  ASSUME ApiTypeOK, NEW t \in Callers, RegUsr(t) \/ RegUsrStep(t)
  PROVE  /\ KeepsBinding
         /\ \/ \E l \in {"reg_done", "reg_check", "return"} : Goto(t, l) /\ frame' = frame
            \/ Call(t, "socket", "reg_linked")
            \/ Call(t, "close_test", "reg_offline")
            \/ Request(t, "REGUSR", "reg_done")
<1>1. cloud \in Clouds
  BY DEF ApiTypeOK, Typed
<1>2. KeepsBinding
  BY <1>1
     DEF RegUsr, RegUsrStep, RegLinked, RegDone, RegCheck, RegOffline, SetStatus, shared,
         Clouds, KeepsBinding
<1> QED
  BY <1>2
     DEF RegUsr, RegUsrStep, RegLinked, RegDone, RegCheck, RegOffline, SetStatus

LEMMA CalledAlone ==
  ASSUME ApiTypeOK, NEW t \in Callers, CalledStep(t)
  PROVE  Alone(t)
<1>1. CASE CallerStep(t)
  BY <1>1, CallerAlone
<1>2. CASE RegUsr(t) \/ RegUsrStep(t)
  BY <1>2, CallerThread, RegUsrMoves, Went, Called, Requested
<1> QED
  BY <1>1, <1>2 DEF CalledStep, CallerStep, CallerWork

LEMMA CalledBinds ==
  ASSUME ApiTypeOK, NEW t \in Callers, CalledStep(t)
  PROVE  \/ KeepsBinding
         \/ BindAccount(t) \/ BindFlag(t) \/ BindSave(t)
<1>1. CASE RegUsr(t) \/ RegUsrStep(t)
  BY <1>1, RegUsrMoves
<1>2. CASE ~(RegUsr(t) \/ RegUsrStep(t))
  <2>1. CallerStep(t)
    BY <1>2 DEF CalledStep, CallerStep, CallerWork
  <2>2. ~UBindFlag(t) /\ ~UBindSave(t)
    BY <1>2
       DEF CalledStep, Routine, CloseTest, CloseFd, CloseClear, Socket, Connect, HelloFd,
           ReadHello, Send, RecvFd, Recv, Bind, BindStep, BindBinded, BindStatus,
           BindConnect, BindLinked, BindAccount, BindName, BindAuthed, BindBound,
           BindGoesOn, BindUpdated, BindConnected, SetStatus, BindFlag, BindSave,
           BindSavePassword, SaveAccount, SavePassword, BindUnlock, Ping, PingStep,
           PingAgain, PingClear, PingSet, PingRead, Returned, UBindFlag, UBindSave
  <2> QED
    BY <2>1, <2>2, CallerKeeps
<1> QED
  BY <1>1, <1>2

LEMMA MessagesKeep ==
  ASSUME ApiTypeOK, NEW t \in Handlers, HandlerStep(t)
  PROVE  KeepsBinding /\ Alone(t)
<1>1. cloud \in Clouds
  BY DEF ApiTypeOK, Typed
<1>2. Alone(t)
  BY HandlerMoves
<1> QED
  BY <1>1, <1>2
     DEF HandlerStep, DeliverField, DeliverUpnp, DeliverNetwork, Deliver, StoreField,
         MarkField, MarkNetwork, MarkUpdate, StoreUpnp, MarkUpnp, SetRestart, SetStatus,
         shared, Clouds, KeepsBinding

LEMMA DaemonPlacesKept ==
  ASSUME ApiTypeOK, DaemonPlaces, [CommandNext]_commandVars
  PROVE  DaemonPlaces'
<1>1. CASE DaemonStep
  BY <1>1, DaemonPlacesStep
<1>2. ASSUME NEW u \in Threads, u # Daemon, Alone(u)
      PROVE  DaemonPlaces'
  BY <1>2, DaemonThread DEF Alone, DaemonPlaces, At, Back
<1>3. CASE UNCHANGED vars
  BY <1>3 DEF vars, DaemonPlaces, At, Back
<1>4. CASE Environment
  <2>1. CASE UNCHANGED <<cloud, lock, conf, pc, frame>>
    BY <2>1 DEF DaemonPlaces, At, Back
  <2>2. CASE Reboot
    BY <2>2, DaemonThread
       DEF Reboot, Started, DaemonPlaces, At, Back, DaemonLabels, UnbindLabels, Closes,
           Connects, Requests
  <2> QED
    BY <1>4, <2>1, <2>2, EnvironmentMoves
<1>5. CASE \E t \in Handlers : HandlerStep(t)
  BY <1>2, <1>5, HandlerThread, MessagesKeep
<1>6. CASE \E t \in Callers : CalledStep(t)
  BY <1>2, <1>6, CallerThread, CalledAlone
<1> QED
  BY <1>1, <1>3, <1>4, <1>5, <1>6, CommandSteps DEF Quietly

-----------------------------------------------------------------------------
(* The daemon of a device that is not bound.                               *)

HeedLabels == {"auth_done", "need_update", "need_read", "need_clear"}

\* Elsewhere it knows nothing of the binding.
LEMMA HeedsNothing ==
  ASSUME pc'[Daemon] \notin HeedLabels, pc'[Daemon] \notin Requests
  PROVE  Heeds'
  BY DEF Heeds, At, HeedLabels

LEMMA HeedsBound ==
  ASSUME cloud'.binded
  PROVE  Heeds'
  BY DEF Heeds

LEMMA HeedsRequest ==
  ASSUME ApiTypeOK, NEW c, NEW b, Request(Daemon, c, b),
         cloud'.binded \/ (b = "unbind_done" /\ c = "UBINDEV")
  PROVE  Heeds'
<1>1. /\ pc'[Daemon] = "send"
      /\ frame'[Daemon].back = b /\ frame'[Daemon].cmd = c
  BY DaemonThread, Requested
<1> QED
  BY <1>1 DEF Heeds, At, Back

LEMMA HeedsRoutine ==
  ASSUME ApiTypeOK, DaemonPlaces, Heeds, Routine(Daemon)
  PROVE  Heeds'
<1> USE DaemonThread
<1>1. cloud'.binded = cloud.binded
  BY RoutineKeeps DEF KeepsBinding
<1>2. CASE cloud.binded
  BY <1>1, <1>2, HeedsBound
<1>3. CASE ~cloud.binded
  <2>1. CASE pc[Daemon] \in Closes \cup Connects
    <3>1. frame[Daemon].back \notin HeedLabels \cup Requests
      BY <2>1 DEF DaemonPlaces, At, Back, HeedLabels, Requests, Closes, Connects
    <3>2. \/ pc'[Daemon] \in Closes \cup Connects
          \/ pc'[Daemon] = frame[Daemon].back
      BY <2>1, RoutineMoves DEF Closes, Connects, Requests
    <3>3. pc'[Daemon] \notin HeedLabels \cup Requests
      BY <3>1, <3>2 DEF Closes, Connects, Requests, HeedLabels
    <3> QED
      BY <3>3, HeedsNothing
  <2>2. CASE pc[Daemon] \in Requests
    <3>1. /\ frame[Daemon].back # "auth_done"
          /\ frame[Daemon].cmd \notin {"AUTH", "UPDEV"}
      BY <1>3, <2>2 DEF Heeds, At, Back
    <3>2. frame[Daemon].back \notin HeedLabels \cup Requests
      BY <2>2, <3>1 DEF DaemonPlaces, At, Back, HeedLabels, Requests
    <3>3. \/ /\ pc'[Daemon] \in Requests
             /\ frame'[Daemon].back = frame[Daemon].back
             /\ frame'[Daemon].cmd = frame[Daemon].cmd
          \/ pc'[Daemon] = frame[Daemon].back
      BY <2>2, RoutineMoves DEF Closes, Connects, Requests
    <3>4. CASE pc'[Daemon] = frame[Daemon].back
      BY <3>2, <3>4, HeedsNothing
    <3>5. CASE /\ pc'[Daemon] \in Requests
               /\ frame'[Daemon].back = frame[Daemon].back
               /\ frame'[Daemon].cmd = frame[Daemon].cmd
      BY <3>1, <3>5 DEF Heeds, At, Back, Requests
    <3> QED
      BY <3>3, <3>4, <3>5
  <2> QED
    BY <2>1, <2>2, RoutineMoves
<1> QED
  BY <1>2, <1>3

\* The daemon looks at binded before it goes on to AUTH or UPDEV.
LEMMA HeedsDaemon ==
  ASSUME ApiTypeOK, DaemonPlaces, Heeds, DaemonStep
  PROVE  Heeds'
<1> USE DaemonThread
<1>0. cloud \in Clouds
  BY DEF ApiTypeOK, Typed
<1>1. CASE Routine(Daemon)
  BY <1>1, HeedsRoutine
<1>2. CASE WaitAgent \/ SetConnecting \/ SetDisconnected \/ SetBroken \/ SetConnected
           \/ StatusInit \/ SetUnbound \/ ClearUnbound \/ Retry \/ Resume \/ Pace
           \/ Restart \/ Poll \/ PollSelect \/ ControlLock \/ ControlPoll
           \/ ControlSelect \/ UnbindStatus \/ UnbindAccount \/ UnbindPassword
  <2>1. \E l : l \notin HeedLabels /\ l \notin Requests /\ Goto(Daemon, l)
               /\ frame' = frame
    BY <1>2
       DEF WaitAgent, SetConnecting, SetDisconnected, SetBroken, SetConnected, StatusInit,
           SetUnbound, SetStatus, ClearUnbound, Retry, Resume, Pace, Restart, Poll,
           PollSelect, ControlLock, ControlPoll, ControlSelect, ControlNothing,
           UnbindStatus, UnbindAccount, UnbindPassword, HeedLabels, Requests
  <2> QED
    BY <2>1, Went, HeedsNothing
<1>3. CASE ControlRecvFd
  <2>1. pc'[Daemon] = "ctl_recv"
    BY <1>3 DEF ControlRecvFd, Goto, ApiTypeOK, Typed
  <2> QED
    BY <2>1, HeedsNothing DEF HeedLabels, Requests
<1>4. CASE UpdateDone \/ RefreshDone \/ UnbindDone \/ Reply \/ Dispatch
  <2>1. \/ \E l : l \notin HeedLabels /\ l \notin Requests /\ Leave(Daemon, l)
        \/ \E l, b : l \notin HeedLabels /\ l \notin Requests /\ Call(Daemon, l, b)
    <3>1. cloud.status \in Statuses
      BY <1>0 DEF Clouds
    <3> QED
      BY <1>4, <3>1
         DEF UpdateDone, RefreshDone, UnbindDone, Reply, Dispatch, Statuses, HeedLabels,
             Requests
  <2> QED
    BY <2>1, Left, Called, HeedsNothing
<1>5. CASE Linked
  <2>1. cloud' = cloud
    BY <1>5 DEF Linked, shared
  <2>2. \/ \E l \in {"to_disconnected", "unbound"} : Leave(Daemon, l)
        \/ cloud.binded /\ Request(Daemon, "AUTH", "auth_done")
    BY <1>5 DEF Linked
  <2> QED
    BY <2>1, <2>2, Left, HeedsNothing, HeedsRequest DEF HeedLabels, Requests
<1>6. CASE AuthDone
  <2>1. cloud' = cloud
    BY <1>6 DEF AuthDone, shared
  <2>2. cloud.binded
    BY <1>6 DEF AuthDone, Heeds, At
  <2> QED
    BY <2>1, <2>2, HeedsBound
<1>7. CASE StatusConnected
  <2>1. cloud' = cloud
    BY <1>7 DEF StatusConnected, shared
  <2>2. \/ cloud.binded
        \/ Goto(Daemon, "to_disconnected") /\ frame' = frame
    BY <1>7 DEF StatusConnected
  <2> QED
    BY <2>1, <2>2, Went, HeedsBound, HeedsNothing DEF HeedLabels, Requests
<1>8. CASE NeedUpdate \/ NeedRead \/ NeedClear
  <2>1. cloud.binded
    BY <1>8 DEF NeedUpdate, NeedRead, NeedClear, Heeds, At
  <2>2. cloud'.binded = cloud.binded
    BY <1>0, <1>8 DEF NeedUpdate, NeedRead, NeedClear, shared, Clouds
  <2> QED
    BY <2>1, <2>2, HeedsBound
<1>9. CASE ControlRecv
  <2>1. \/ Request(Daemon, "UBINDEV", "unbind_done")
        \/ \E l \in {"top", "reply"} : Leave(Daemon, l)
        \/ Call(Daemon, "close_test", "to_disconnected")
    BY <1>9 DEF ControlRecv
  <2> QED
    BY <2>1, Left, Called, HeedsRequest, HeedsNothing DEF HeedLabels, Requests
<1> QED
  BY <1>1, <1>2, <1>3, <1>4, <1>5, <1>6, <1>7, <1>8, <1>9 DEF DaemonStep

LEMMA HeedsStep ==
  ASSUME ApiTypeOK, DaemonPlaces, Heeds, [CommandNext]_commandVars
  PROVE  Heeds'
<1>1. ASSUME NEW u \in Threads, u # Daemon, Alone(u), cloud.binded => cloud'.binded
      PROVE  Heeds'
  BY <1>1, DaemonThread DEF Alone, Heeds, At, Back
<1>2. CASE DaemonStep
  BY <1>2, HeedsDaemon
<1>3. CASE UNCHANGED vars
  BY <1>3 DEF vars, Heeds, At, Back
<1>4. CASE Environment
  <2>1. CASE UNCHANGED <<cloud, lock, conf, pc, frame>>
    BY <2>1 DEF Heeds, At, Back
  <2>2. CASE Reboot
    <3>1. pc'[Daemon] = "boot"
      BY <2>2, DaemonThread DEF Reboot, Started
    <3> QED
      BY <3>1, HeedsNothing DEF HeedLabels, Requests
  <2> QED
    BY <1>4, <2>1, <2>2, EnvironmentMoves
<1>5. ASSUME NEW t \in Handlers, HandlerStep(t)
      PROVE  Heeds'
  BY <1>1, <1>5, HandlerThread, MessagesKeep DEF KeepsBinding
<1>6. ASSUME NEW t \in Callers, CalledStep(t)
      PROVE  Heeds'
  <2>1. cloud.binded => cloud'.binded
    <3>1. cloud \in Clouds
      BY DEF ApiTypeOK, Typed
    <3> QED
      BY <1>6, <3>1, CalledBinds
         DEF KeepsBinding, BindAccount, BindFlag, BindSave, SaveAccount, Clouds
  <2> QED
    BY <1>1, <1>6, <2>1, CallerThread, CalledAlone
<1> QED
  BY <1>2, <1>3, <1>4, <1>5, <1>6, CommandSteps DEF Quietly

LEMMA HeedsInit == Init => Heeds /\ DaemonPlaces
  BY DaemonThread
     DEF Init, Started, Heeds, DaemonPlaces, At, Back, DaemonLabels, UnbindLabels,
         Closes, Connects, Requests

LEMMA DaemonHeeds == CommandSpec => [](DaemonPlaces /\ Heeds)
<1>1. CommandInit => DaemonPlaces /\ Heeds
  BY HeedsInit DEF CommandInit
<1>2. /\ ApiTypeOK /\ DaemonPlaces /\ Heeds /\ [CommandNext]_commandVars
      => (DaemonPlaces /\ Heeds)'
  BY DaemonPlacesKept, HeedsStep
<1> QED
  BY <1>1, <1>2, CommandTypes, PTL DEF CommandSpec

\* An answer to AUTH or UPDEV that is for the daemon comes only while the device
\* is bound.
LEMMA QuietAnswers ==
  ASSUME ApiTypeOK, Heeds, [CommandNext]_commandVars,
         NEW f \in Fds, NEW c \in {"AUTH", "UPDEV"}, NewAnswer(f, c),
         Last(sock'[f].in).to = Daemon
  PROVE  cloud.binded
<1>0. SocketTypes /\ \A t \in Threads : frame[t].cmd \in Commands
  <2>1. \A t \in Threads : frame[t] \in Frames(ApiLabels)
    BY Framed
  <2> QED
    BY <2>1 DEF SocketTypes, ApiTypeOK, Typed, Frames
<1>1. ASSUME NEW t \in Threads, Send(t)
      PROVE  cloud.binded
  <2>1. c = frame[t].cmd /\ t = Daemon
    BY <1>0, <1>1, SentAnswer
  <2>2. pc[Daemon] \in Requests
    BY <1>1, <2>1 DEF Send, Requests
  <2> QED
    BY <2>1, <2>2 DEF Heeds, At
<1>2. CASE \A t \in Threads : ~Send(t)
  <2>1. CASE UNCHANGED vars
    BY <1>0, <2>1, NoAnswer DEF vars
  <2>2. CASE DaemonStep \/ Environment \/ \E t \in Handlers : HandlerStep(t)
    BY <1>0, <1>2, <2>2, DaemonThread, QuietNoAnswer DEF Next
  <2>3. ASSUME NEW t \in Callers, CalledStep(t)
        PROVE  FALSE
    <3>1. CASE Routine(t)
      BY <1>0, <1>2, <3>1, CallerThread, RoutineNoAnswer
    <3>2. CASE ~Routine(t)
      <4>1. sock' = sock
        BY <2>3, <3>2
           DEF CalledStep, Bind, BindStep, BindBinded, BindStatus, BindConnect,
               BindLinked, BindAccount, BindName, BindAuthed, BindBound, BindGoesOn,
               BindUpdated, BindConnected, SetStatus, BindFlag, BindSave,
               BindSavePassword, SaveAccount, SavePassword, BindUnlock, RegUsr,
               RegUsrStep, RegLinked, RegDone, RegCheck, RegOffline, Ping, PingStep,
               PingAgain, PingClear, PingSet, PingRead, Returned, shared
      <4> QED
        BY <1>0, <4>1, NoAnswer
    <3> QED
      BY <3>1, <3>2
  <2> QED
    BY <2>1, <2>2, <2>3, CommandSteps DEF Quietly
<1> QED
  BY <1>1, <1>2

\* The daemon of a device that is not bound sends neither AUTH nor UPDEV, whatever
\* connection a command or a ping has opened and whenever an UNBIND request or a
\* command changes the binding, for any number of callers and handlers.
THEOREM QuietWhileUnbound == CommandSpec => UnboundStaysQuiet
<1> DEFINE A == \A f \in Fds, c \in {"AUTH", "UPDEV"} :
                  NewAnswer(f, c) /\ Last(sock'[f].in).to = Daemon => cloud.binded
<1>1. ApiTypeOK /\ (DaemonPlaces /\ Heeds) /\ [CommandNext]_commandVars => [A]_vars
  BY QuietAnswers
<1> QED
  BY <1>1, CommandTypes, DaemonHeeds, PTL DEF CommandSpec, UnboundStaysQuiet

-----------------------------------------------------------------------------
(* What became of a command.                                               *)

\* The steps that a caller takes, with what they make of its command.
RefusesText(t) ==
  /\ pc[t] = "idle" /\ UNCHANGED vars
  /\ \E c \in {"BIND", "damaged"} \cap (Words \cup {"damaged"}),
        u \in Users \cup {NoUser}, a \in {"1000", "1004"} : Asks(t, c, u, a)
BeginsRegUsr(t) ==
  RegUsr(t) /\ "REGISTER" \in Words /\ \E u \in Users : Asks(t, "REGISTER", u, "none")
BeginsBind(t) ==
  /\ Bind(t) /\ "BIND" \in Words
  /\ \E u \in Users : Asks(t, "BIND", u, "none") /\ frame'[t].user = u
CommandMove(t) ==
  \/ RefusesText(t) \/ BeginsRegUsr(t) \/ BeginsBind(t) \/ PingAlone(t)
  \/ CommandDone(t) \/ (Working(t) /\ command' = command)

LEMMA CommandReads ==
  ASSUME PlainNames, NEW t \in Callers, Command(t)
  PROVE  RefusesText(t) \/ BeginsRegUsr(t) \/ BeginsBind(t)
<1>0. pc[t] = "idle"
  BY DEF Command
<1>1. PICK r \in Inputs :
        /\ Asks(t, r.cmd, r.user, IF r.read = Refused THEN "1004" ELSE "none")
        /\ CASE r.read = Refused           -> UNCHANGED vars
             [] r.read.call = "REGISTER" -> RegUsr(t)
             [] r.read.call = "BIND"     -> Bind(t) /\ <<frame'[t].user>> = r.read.user
  BY DEF Command
<1>2. CASE r.read = Refused
  <2>1. r.cmd = "damaged" /\ r.user \in Users \cup {NoUser}
    <3>1. r.cmd = "damaged"
      BY <1>2, ParserAgrees
    <3>2. r.user \in Users \cup {NoUser}
      BY DEF Inputs
    <3> QED
      BY <3>1, <3>2
  <2>2. Asks(t, "damaged", r.user, "1004")
    BY <1>1, <1>2, <2>1
  <2>3. Refused.call = "none"
    BY DEF Refused
  <2>4. UNCHANGED vars
    BY <1>1, <1>2, <2>3
  <2> QED
    BY <1>0, <2>1, <2>2, <2>4 DEF RefusesText
<1>3. CASE r.read # Refused
  <2>1. /\ r.cmd \in Words /\ r.user \in Users
        /\ r.read = [call |-> r.cmd, user |-> <<r.user>>]
    BY <1>3, ParserAgrees
  <2>2. Asks(t, r.cmd, r.user, "none")
    BY <1>1, <1>3
  <2>3. r.read.call = r.cmd /\ r.read.user = <<r.user>>
    BY <2>1
  <2>4. CASE r.cmd = "REGISTER"
    <3>1. RegUsr(t)
      BY <1>1, <1>3, <2>3, <2>4
    <3> QED
      BY <2>1, <2>2, <2>4, <3>1 DEF BeginsRegUsr
  <2>5. CASE r.cmd = "BIND"
    <3>1. Bind(t) /\ <<frame'[t].user>> = <<r.user>>
      BY <1>1, <1>3, <2>3, <2>5
    <3>2. frame'[t].user = r.user
      BY <3>1, OneEntry
    <3> QED
      BY <2>1, <2>2, <2>5, <3>1, <3>2 DEF BeginsBind
  <2> QED
    BY <2>1, <2>4, <2>5, CommandAssumption
<1> QED
  BY <1>2, <1>3

LEMMA CommandWork ==
  ASSUME PlainNames, [CommandNext]_commandVars
  PROVE  (Quietly /\ command' = command) \/ \E t \in Callers : CommandMove(t)
<1>1. CASE UNCHANGED commandVars
  BY <1>1 DEF commandVars, vars, Quietly
<1>2. CASE Next /\ command' = command
  BY <1>2 DEF Next, Quietly
<1>3. ASSUME NEW t \in Callers, NameRefused(t)
      PROVE  RefusesText(t)
  BY <1>3 DEF NameRefused, RefusesText
<1>4. ASSUME NEW t \in Callers, Command(t)
      PROVE  CommandMove(t)
  BY <1>4, CommandReads DEF CommandMove
<1> QED
  BY <1>1, <1>2, <1>3, <1>4 DEF CommandNext, CommandMove

LEMMA CommandMoveCalls ==
  ASSUME NEW t \in Callers, CommandMove(t)
  PROVE  UNCHANGED vars \/ CalledStep(t)
  BY DEF CommandMove, RefusesText, BeginsRegUsr, BeginsBind, PingAlone, CommandDone,
         Working, CalledStep

\* No step touches the command of another caller.
LEMMA AskedFor ==
  ASSUME CommandTypeOK, NEW t \in Callers, NEW c, NEW u, NEW a, Asks(t, c, u, a)
  PROVE  command'[t].cmd = c /\ command'[t].user = u /\ command'[t].answer = a
<1>1. command'[t] = [cmd |-> c, user |-> u, answer |-> a]
  BY DEF CommandTypeOK, Asks
<1> QED
  BY <1>1

LEMMA CommandTypeStep ==
  ASSUME PlainNames, CommandTypeOK, [CommandNext]_commandVars
  PROVE  CommandTypeOK'
<1>1. ASSUME NEW t \in Callers, NEW c \in {"none", "damaged"} \cup Words,
             NEW u \in Users \cup {NoUser}, NEW a \in {"none", "1000", "1004"},
             Asks(t, c, u, a)
      PROVE  CommandTypeOK'
  BY <1>1 DEF Asks, CommandTypeOK, Records
<1>2. ASSUME NEW t \in Callers, CommandMove(t)
      PROVE  CommandTypeOK'
  <2>1. CASE RefusesText(t) \/ BeginsRegUsr(t) \/ BeginsBind(t)
    BY <1>1, <2>1 DEF RefusesText, BeginsRegUsr, BeginsBind
  <2>2. CASE PingAlone(t)
    <3>1. NoCommand \in Records
      BY DEF NoCommand, Records
    <3> QED
      BY <2>2, <3>1 DEF PingAlone, CommandTypeOK
  <2>3. CASE CommandDone(t)
    <3>1. Code(Result(t)) \in {"OK", "1000", "1006", "2001"}
      BY DEF Code
    <3>2. [command[t] EXCEPT !.answer = Code(Result(t))] \in Records
      BY <3>1 DEF CommandTypeOK, Records
    <3> QED
      BY <2>3, <3>2 DEF CommandDone, CommandTypeOK
  <2>4. CASE command' = command
    BY <2>4 DEF CommandTypeOK
  <2> QED
    BY <1>2, <2>1, <2>2, <2>3, <2>4 DEF CommandMove
<1>3. CASE command' = command
  BY <1>3 DEF CommandTypeOK
<1> QED
  BY <1>2, <1>3, CommandWork

-----------------------------------------------------------------------------
(* Where a caller may be.                                                  *)

LEMMA CommandGoes ==
  ASSUME NEW t \in Callers,
         pc'[t] \in {"idle", "return"} \cup BindLabels \cup RegLabels \cup PingLabels
  PROVE  CommandPlaces(t)'
  BY DEF CommandPlaces, BindLabels, RegLabels, PingLabels, Closes, Connects, Requests

LEMMA CommandCloses ==
  ASSUME NEW t \in Callers, pc'[t] = "close_test",
         frame'[t].back \in {"bind_connect", "bind_unlock", "reg_offline"}
  PROVE  CommandPlaces(t)'
  BY DEF CommandPlaces, RoutineLabels, Closes, Connects, Requests

LEMMA CommandConnects ==
  ASSUME NEW t \in Callers, pc'[t] = "socket",
         frame'[t].back \in {"bind_linked", "reg_linked"}
  PROVE  CommandPlaces(t)'
  BY DEF CommandPlaces, RoutineLabels, Closes, Connects, Requests

LEMMA CommandRequests ==
  ASSUME NEW t \in Callers, pc'[t] = "send",
         frame'[t].back \in {"bind_authed", "bind_bound", "bind_updated", "reg_done"}
  PROVE  CommandPlaces(t)'
  BY DEF CommandPlaces, RoutineLabels, Closes, Connects, Requests

\* Where swCloudBind goes on, and with what result it gives up.
LEMMA BindGoes ==
  ASSUME ApiTypeOK, NEW t \in Callers, BindStep(t)
  PROVE  /\ pc[t] \in BindLabels
         /\ \/ \E l \in BindLabels \cup {"return"} : Goto(t, l) /\ frame' = frame
            \/ SetResult(t, "ok", "bind_connected")
            \/ SetResult(t, "binded", "return")
            \/ Call(t, "close_test", "bind_connect")
            \/ Call(t, "close_test", "bind_unlock") /\ frame[t].res # "ok"
            \/ Call(t, "socket", "bind_linked")
            \/ \E c, b : /\ b \in {"bind_authed", "bind_bound", "bind_updated"}
                         /\ Request(t, c, b)
  BY DEF BindStep, BindBinded, BindStatus, BindConnect, BindLinked, BindAccount,
         BindName, BindAuthed, BindBound, BindGoesOn, BindUpdated, BindConnected,
         SetStatus, BindFlag, BindSave, BindSavePassword, SaveAccount, SavePassword,
         BindUnlock, BindLabels, Result

LEMMA PingGoes ==
  ASSUME ApiTypeOK, NEW t \in Callers, Ping(t) \/ PingStep(t)
  PROVE  /\ pc[t] \in PingLabels \cup {"idle"}
         /\ \/ \E l \in PingLabels : Goto(t, l) /\ frame' = frame
            \/ pc[t] \in PingLabels /\ \E r : SetResult(t, r, "return")
  BY DEF Ping, PingStep, PingAgain, PingClear, PingSet, SetStatus, PingRead, PingLabels

LEMMA CommandPlacesStep ==
  ASSUME ApiTypeOK, NEW t \in Callers, CommandPlaces(t), CalledStep(t)
  PROVE  CommandPlaces(t)'
<1> USE CallerThread
<1>1. CASE Routine(t)
  <2>1. /\ pc[t] \in Closes
        /\ frame[t].back \in {"bind_connect", "bind_unlock", "reg_offline"}
        => CommandPlaces(t)'
    BY <1>1, RoutineMoves
       DEF CommandPlaces, BindLabels, RegLabels, RoutineLabels, Closes, Connects, Requests
  <2>2. /\ pc[t] \in Connects
        /\ frame[t].back \in {"bind_linked", "reg_linked"}
        => CommandPlaces(t)'
    BY <1>1, RoutineMoves
       DEF CommandPlaces, BindLabels, RegLabels, RoutineLabels, Closes, Connects, Requests
  <2>3. /\ pc[t] \in Requests
        /\ frame[t].back \in {"bind_authed", "bind_bound", "bind_updated", "reg_done"}
        => CommandPlaces(t)'
    BY <1>1, RoutineMoves
       DEF CommandPlaces, BindLabels, RegLabels, RoutineLabels, Closes, Connects, Requests
  <2>4. pc[t] \in Closes \/ pc[t] \in Connects \/ pc[t] \in Requests
    BY <1>1, RoutineMoves
  <2> QED
    BY <2>1, <2>2, <2>3, <2>4 DEF CommandPlaces
<1>2. CASE Bind(t) \/ Returned(t)
  <2>1. pc'[t] \in {"idle", "bind_binded"}
    BY <1>2 DEF Bind, Returned, Goto, ApiTypeOK, Typed
  <2> QED
    BY <2>1, CommandGoes DEF BindLabels
<1>3. CASE BindStep(t)
  BY <1>3, BindGoes, Went, ResultSet, Called, Requested, CommandGoes, CommandCloses,
     CommandConnects, CommandRequests DEF BindLabels
<1>4. CASE RegUsr(t) \/ RegUsrStep(t)
  BY <1>4, RegUsrMoves, Went, Called, Requested, CommandGoes, CommandCloses,
     CommandConnects, CommandRequests DEF RegLabels
<1>5. CASE Ping(t) \/ PingStep(t)
  BY <1>5, PingGoes, Went, ResultSet, CommandGoes
<1> QED
  BY <1>1, <1>2, <1>3, <1>4, <1>5 DEF CalledStep

-----------------------------------------------------------------------------
(* A caller works on its command.                                          *)

\* A step on the way goes on with the same call, for the same user.
LEMMA WorkingOn ==
  ASSUME ApiTypeOK, NEW t \in Callers, CommandPlaces(t), Working(t)
  PROVE  /\ pc[t] # "idle"
         /\ frame'[t].user = frame[t].user
         /\ Binds(t)' => Binds(t)
         /\ Registers(t)' => Registers(t)
         /\ pc'[t] \in PingLabels => pc[t] \in PingLabels
<1> USE CallerThread
<1>1. CASE Routine(t)
  <2>1. pc[t] \in RoutineLabels /\ frame'[t].user = frame[t].user
    BY <1>1, RoutineMoves DEF Closes, Connects, Requests, RoutineLabels
  <2>2. \/ pc'[t] \in RoutineLabels /\ frame'[t].back = frame[t].back
        \/ pc'[t] = frame[t].back
    BY <1>1, RoutineMoves DEF Closes, Connects, Requests, RoutineLabels
  <2>3. frame[t].back \in BindLabels \cup RegLabels
    BY <2>1 DEF CommandPlaces, RoutineLabels, Closes, Connects, Requests, BindLabels,
                RegLabels
  <2>4. /\ \A l \in RoutineLabels : l \notin BindLabels \cup RegLabels \cup PingLabels
        /\ \A l \in BindLabels : l \notin RegLabels \cup PingLabels
        /\ \A l \in RegLabels : l \notin PingLabels
        /\ "idle" \notin RoutineLabels
    BY DEF RoutineLabels, BindLabels, RegLabels, PingLabels
  <2> QED
    BY <2>1, <2>2, <2>3, <2>4 DEF Binds, Registers
<1>2. CASE BindStep(t)
  <2>1. pc[t] \in BindLabels /\ Binds(t)
    BY <1>2, BindGoes DEF Binds
  <2>2. /\ frame'[t].user = frame[t].user
        /\ \/ pc'[t] \in BindLabels \cup {"return"}
           \/ pc'[t] \in RoutineLabels /\ frame'[t].back \in BindLabels
    BY <1>2, BindGoes, Went, ResultSet, Called, Requested DEF BindLabels, RoutineLabels
  <2>3. ~Registers(t)' /\ pc'[t] \notin PingLabels /\ pc[t] # "idle"
    BY <2>1, <2>2 DEF Registers, BindLabels, RegLabels, PingLabels, RoutineLabels
  <2> QED
    BY <2>1, <2>2, <2>3
<1>3. CASE RegUsrStep(t)
  <2>1. pc[t] \in RegLabels
    BY <1>3 DEF RegUsrStep, RegLinked, RegDone, RegCheck, RegOffline, SetStatus, RegLabels
  <2>2. /\ frame'[t].user = frame[t].user
        /\ \/ pc'[t] \in RegLabels \cup {"return"}
           \/ pc'[t] \in RoutineLabels /\ frame'[t].back \in RegLabels
    BY <1>3, RegUsrMoves, Went, Called, Requested DEF RegLabels, RoutineLabels
  <2>3. ~Binds(t)' /\ pc'[t] \notin PingLabels /\ pc[t] # "idle"
    BY <2>1, <2>2 DEF Binds, BindLabels, RegLabels, PingLabels, RoutineLabels
  <2> QED
    BY <2>1, <2>2, <2>3 DEF Registers
<1>4. CASE PingStep(t)
  <2>1. pc[t] \in PingLabels
    BY <1>4 DEF PingStep, PingAgain, PingClear, PingSet, SetStatus, PingRead, PingLabels
  <2>2. frame'[t].user = frame[t].user /\ pc'[t] \in PingLabels \cup {"return"}
    BY <1>4, PingGoes, Went, ResultSet
  <2>3. ~Binds(t)' /\ ~Registers(t)' /\ pc[t] # "idle"
    BY <2>1, <2>2 DEF Binds, Registers, BindLabels, RegLabels, PingLabels, RoutineLabels
  <2> QED
    BY <2>1, <2>2, <2>3
<1> QED
  BY <1>1, <1>2, <1>3, <1>4 DEF Working

\* Where a call begins.
LEMMA BeginsAt ==
  ASSUME ApiTypeOK, NEW t \in Callers
  PROVE  /\ Bind(t) => pc'[t] = "bind_binded"
         /\ RegUsr(t) => /\ pc'[t] \in {"send", "socket"}
                         /\ frame'[t].back \in {"reg_done", "reg_linked"}
         /\ Ping(t) => pc'[t] \in PingLabels
<1> USE CallerThread
<1>1. Bind(t) => pc'[t] = "bind_binded"
  BY DEF Bind, Goto, ApiTypeOK, Typed
<1>2. ASSUME RegUsr(t)
      PROVE  pc'[t] \in {"send", "socket"} /\ frame'[t].back \in {"reg_done", "reg_linked"}
  <2>1. Request(t, "REGUSR", "reg_done") \/ Call(t, "socket", "reg_linked")
    BY <1>2 DEF RegUsr
  <2> QED
    BY <2>1, Called, Requested
<1>3. Ping(t) => pc'[t] \in PingLabels
  BY DEF Ping, Goto, PingLabels, ApiTypeOK, Typed
<1> QED
  BY <1>1, <1>2, <1>3

LEMMA OwnWorks ==
  ASSUME ApiTypeOK, CommandTypeOK, NEW t \in Callers, CommandPlaces(t), Works(t),
         CommandMove(t)
  PROVE  Works(t)'
<1> USE CallerThread
<1>1. CASE RefusesText(t)
  <2>1. pc'[t] = "idle"
    BY <1>1 DEF RefusesText, vars
  <2> QED
    BY <2>1 DEF Works, Binds, Registers, BindLabels, RegLabels, PingLabels, RoutineLabels
<1>2. CASE BeginsRegUsr(t)
  <2>1. /\ pc'[t] \in {"send", "socket"}
        /\ frame'[t].back \in {"reg_done", "reg_linked"}
    BY <1>2, BeginsAt DEF BeginsRegUsr
  <2>2. command'[t].cmd = "REGISTER" /\ command'[t].answer = "none"
    <3>1. PICK u \in Users : Asks(t, "REGISTER", u, "none")
      BY <1>2 DEF BeginsRegUsr
    <3> QED
      BY <3>1, AskedFor
  <2> QED
    BY <2>1, <2>2 DEF Works, Binds, BindLabels, PingLabels, RoutineLabels
<1>3. CASE BeginsBind(t)
  <2>1. pc'[t] = "bind_binded"
    BY <1>3, BeginsAt DEF BeginsBind
  <2>2. PICK u \in Users : Asks(t, "BIND", u, "none") /\ frame'[t].user = u
    BY <1>3 DEF BeginsBind
  <2>3. /\ command'[t].cmd = "BIND" /\ command'[t].answer = "none"
        /\ command'[t].user = frame'[t].user
    BY <2>2, AskedFor
  <2> QED
    BY <2>1, <2>3 DEF Works, Registers, RegLabels, PingLabels, RoutineLabels
<1>4. CASE PingAlone(t)
  <2>1. pc'[t] \in PingLabels
    BY <1>4, BeginsAt DEF PingAlone
  <2>2. command'[t].cmd = "none" /\ command'[t].answer = "none"
    BY <1>4 DEF PingAlone, NoCommand, CommandTypeOK
  <2> QED
    BY <2>1, <2>2
       DEF Works, Binds, Registers, BindLabels, RegLabels, PingLabels, RoutineLabels
<1>5. CASE CommandDone(t)
  <2>1. pc'[t] = "idle"
    BY <1>5 DEF CommandDone, Returned, ApiTypeOK, Typed
  <2> QED
    BY <2>1 DEF Works, Binds, Registers, BindLabels, RegLabels, PingLabels, RoutineLabels
<1>6. CASE Working(t) /\ command' = command
  BY <1>6, WorkingOn DEF Works
<1> QED
  BY <1>1, <1>2, <1>3, <1>4, <1>5, <1>6 DEF CommandMove

-----------------------------------------------------------------------------
(* What a caller has stored.                                               *)

\* Where a caller is that has stored nothing, or is done without a result.
LEMMA StoresNothing ==
  ASSUME NEW t \in Callers, ~Names(t)', ~Finishes(t)', pc'[t] # "bind_save_password",
         pc'[t] \notin Closes \/ frame'[t].back # "bind_unlock",
         command'[t].answer # "OK"
  PROVE  Stores(t)'
  BY DEF Stores

LEMMA RoutineStores ==
  ASSUME ApiTypeOK, NEW t \in Callers, CommandPlaces(t), Works(t), Stores(t),
         Routine(t), command' = command
  PROVE  Stores(t)'
<1> USE CallerThread
<1>1. /\ pc[t] \in RoutineLabels /\ pc[t] # "idle"
      /\ frame[t].back \notin RoutineLabels
      /\ frame[t].back \notin {"idle", "return", "bind_save_password"}
  <2>1. pc[t] \in Closes \cup Connects \cup Requests
    BY RoutineMoves
  <2> QED
    BY <2>1 DEF CommandPlaces, RoutineLabels, Closes, Connects, Requests
<1>2. KeepsBinding
  BY RoutineKeeps
<1>3. \/ pc'[t] \in RoutineLabels /\ frame'[t].back = frame[t].back
      \/ pc'[t] = frame[t].back
  BY RoutineMoves DEF Closes, Connects, Requests, RoutineLabels
<1>4. \A l \in RoutineLabels :
        l \notin Named \cup {"idle", "return", "bind_unlock", "bind_save_password"}
  BY DEF RoutineLabels, Named
<1>5. Names(t)' => Names(t)
  BY <1>1, <1>3, <1>4 DEF Names
<1>6. frame[t].back = "bind_unlock" => pc[t] \in Closes /\ frame[t].res # "ok"
  BY <1>1 DEF CommandPlaces, Stores, RoutineLabels, Closes, Connects, Requests
<1>7. pc[t] \in Closes => frame'[t].res = frame[t].res
  BY RoutineMoves DEF Closes, Connects, Requests
<1>8. ~Finishes(t)' /\ pc'[t] # "bind_save_password"
  BY <1>1, <1>3, <1>4, <1>6, <1>7 DEF Finishes
<1>9. pc'[t] \in Closes /\ frame'[t].back = "bind_unlock" => frame'[t].res # "ok"
  <2>1. pc'[t] \in Closes => pc'[t] \in RoutineLabels
    BY DEF Closes, RoutineLabels
  <2>2. pc'[t] \in Closes => frame'[t].back = frame[t].back
    BY <1>1, <1>3, <2>1
  <2> QED
    BY <1>6, <1>7, <2>2
<1>10. command[t].answer = "none"
  BY <1>1 DEF Works
<1> QED
  BY <1>2, <1>5, <1>8, <1>9, <1>10 DEF Stores, KeepsBinding

\* The user is named at BindAccount and saved at BindSave; the unlocking is
\* reached with success only behind both.
LEMMA BindStores ==
  ASSUME ApiTypeOK, NEW t \in Callers, CommandPlaces(t), Works(t), Stores(t),
         BindStep(t), command' = command
  PROVE  Stores(t)'
<1> USE CallerThread
<1>0. /\ cloud \in Clouds
      /\ conf \in [account : Users \cup {NoUser}, password : Users \cup {NoUser}]
  BY DEF ApiTypeOK, Typed
<1>1. /\ pc[t] \in BindLabels /\ pc[t] # "idle" /\ command[t].answer = "none"
      /\ frame[t].user = command[t].user
  BY BindGoes DEF Works, Binds, BindLabels
<1>2. CASE BindAccount(t)
  <2>1. cloud'.account = command'[t].user
    BY <1>0, <1>1, <1>2 DEF BindAccount, Clouds
  <2>2. pc'[t] = "bind_name"
    BY <1>2, Went DEF BindAccount
  <2> QED
    BY <1>1, <2>1, <2>2 DEF Stores, Finishes, Closes
<1>3. CASE BindSave(t)
  <2>1. cloud.account = command[t].user
    BY <1>3 DEF BindSave, SaveAccount, Stores, Names, Named
  <2>2. cloud' = cloud /\ conf'.account = cloud.account
    BY <1>0, <1>3 DEF BindSave, SaveAccount
  <2>3. pc'[t] = "bind_save_password"
    BY <1>3, Went DEF BindSave, SaveAccount
  <2> QED
    BY <1>1, <2>1, <2>2, <2>3 DEF Stores, BoundTo, Finishes, Closes
<1>4. CASE BindSavePassword(t)
  <2>1. BoundTo(command[t].user)
    BY <1>4 DEF BindSavePassword, SavePassword, Stores
  <2>2. cloud' = cloud /\ conf'.account = conf.account
    BY <1>0, <1>4 DEF BindSavePassword, SavePassword
  <2>3. pc'[t] = "bind_unlock"
    BY <1>4, Went DEF BindSavePassword, SavePassword
  <2>4. BoundTo(command[t].user)'
    BY <2>1, <2>2 DEF BoundTo
  <2> QED
    BY <1>1, <2>3, <2>4 DEF Stores, BoundTo, Names, Named, RoutineLabels, Closes
<1>5. CASE BindUnlock(t)
  <2>1. pc[t] = "bind_unlock" /\ cloud' = cloud /\ conf' = conf
    BY <1>5 DEF BindUnlock
  <2>2. pc'[t] = "return" /\ frame'[t] = frame[t]
    BY <1>5, Went DEF BindUnlock
  <2>3. Finishes(t)' => BoundTo(command[t].user)
    BY <2>1, <2>2 DEF Finishes, Stores
  <2> QED
    BY <1>1, <2>1, <2>2, <2>3 DEF Stores, BoundTo, Names, Named, RoutineLabels, Closes
<1>6. CASE ~BindAccount(t) /\ ~BindSave(t) /\ ~BindSavePassword(t) /\ ~BindUnlock(t)
  <2>1. cloud'.account = cloud.account
    BY <1>0, <1>6
       DEF BindStep, BindBinded, BindStatus, BindConnect, BindLinked, BindName,
           BindAuthed, BindBound, BindGoesOn, BindUpdated, BindConnected, SetStatus,
           BindFlag, shared, Clouds
  <2>2. \/ pc[t] \in Named
        \/ pc'[t] \notin Named /\ ~(pc'[t] \in RoutineLabels /\ frame'[t].back \in Named)
    BY <1>6, Went, ResultSet, Called, Requested
       DEF BindStep, BindBinded, BindStatus, BindConnect, BindLinked, BindName,
           BindAuthed, BindBound, BindGoesOn, BindUpdated, BindConnected, SetStatus,
           BindFlag, Named, RoutineLabels
  <2>3. /\ ~Finishes(t)' /\ pc'[t] # "bind_save_password"
        /\ pc'[t] \in Closes /\ frame'[t].back = "bind_unlock" => frame'[t].res # "ok"
    <3>1. \/ \E l \in Named \cup {"bind_status", "bind_account"} :
               l # "bind_save_password" /\ Goto(t, l) /\ frame' = frame
          \/ SetResult(t, "ok", "bind_connected")
          \/ SetResult(t, "binded", "return")
          \/ Call(t, "close_test", "bind_connect")
          \/ Call(t, "close_test", "bind_unlock") /\ frame[t].res # "ok"
          \/ Call(t, "socket", "bind_linked")
          \/ \E c, b : Request(t, c, b)
      BY <1>6
         DEF BindStep, BindBinded, BindStatus, BindConnect, BindLinked, BindName,
             BindAuthed, BindBound, BindGoesOn, BindUpdated, BindConnected, SetStatus,
             BindFlag, Named, Result
    <3>2. CASE \E l \in Named \cup {"bind_status", "bind_account"} :
                 l # "bind_save_password" /\ Goto(t, l) /\ frame' = frame
      BY <3>2, Went DEF Finishes, Named, Closes
    <3>3. CASE SetResult(t, "ok", "bind_connected") \/ SetResult(t, "binded", "return")
      BY <3>3, ResultSet DEF Finishes, Closes
    <3>4. CASE \/ Call(t, "close_test", "bind_connect")
               \/ Call(t, "close_test", "bind_unlock") /\ frame[t].res # "ok"
               \/ Call(t, "socket", "bind_linked")
      BY <3>4, Called DEF Finishes, Closes
    <3>5. CASE \E c, b : Request(t, c, b)
      BY <3>5, Requested DEF Finishes, Closes
    <3> QED
      BY <3>1, <3>2, <3>3, <3>4, <3>5
  <2> QED
    BY <1>1, <2>1, <2>2, <2>3 DEF Stores, Names
<1> QED
  BY <1>2, <1>3, <1>4, <1>5, <1>6

\* A registration and a ping store nothing, and no OK of theirs is one to BIND.
LEMMA OtherStores ==
  ASSUME ApiTypeOK, NEW t \in Callers, CommandPlaces(t), Works(t),
         RegUsrStep(t) \/ PingStep(t), command' = command
  PROVE  Stores(t)'
<1> USE CallerThread
<1>1. CASE RegUsrStep(t)
  <2>1. pc[t] \in RegLabels
    BY <1>1 DEF RegUsrStep, RegLinked, RegDone, RegCheck, RegOffline, SetStatus, RegLabels
  <2>2. command[t].answer = "none" /\ command[t].cmd = "REGISTER"
    BY <2>1 DEF Works, Registers, RegLabels
  <2>3. \/ pc'[t] \in RegLabels \cup {"return"}
        \/ pc'[t] \in {"send", "socket", "close_test"}
             /\ frame'[t].back \in {"reg_done", "reg_linked", "reg_offline"}
    BY <1>1, RegUsrMoves, Went, Called, Requested DEF RegLabels
  <2> QED
    BY <2>2, <2>3, StoresNothing
       DEF Names, Named, Finishes, RoutineLabels, RegLabels, Closes
<1>2. CASE PingStep(t)
  <2>1. pc[t] \in PingLabels
    BY <1>2 DEF PingStep, PingAgain, PingClear, PingSet, SetStatus, PingRead, PingLabels
  <2>2. command[t].answer = "none" /\ command[t].cmd = "none"
    BY <2>1 DEF Works, PingLabels
  <2>3. pc'[t] \in PingLabels \cup {"return"}
    BY <1>2, PingGoes, Went, ResultSet
  <2> QED
    BY <2>2, <2>3, StoresNothing
       DEF Names, Named, Finishes, RoutineLabels, PingLabels, Closes
<1> QED
  BY <1>1, <1>2

LEMMA BeginStores ==
  ASSUME ApiTypeOK, CommandTypeOK, NEW t \in Callers,
         BeginsRegUsr(t) \/ BeginsBind(t) \/ PingAlone(t)
  PROVE  Stores(t)'
<1>1. command'[t].answer = "none"
  <2>1. CASE \E c, u : Asks(t, c, u, "none")
    BY <2>1, AskedFor
  <2>2. CASE PingAlone(t)
    BY <2>2 DEF PingAlone, NoCommand, CommandTypeOK
  <2> QED
    BY <2>1, <2>2 DEF BeginsRegUsr, BeginsBind
<1>2. \/ pc'[t] \in PingLabels \cup {"bind_binded"}
      \/ pc'[t] \in {"send", "socket"} /\ frame'[t].back \in {"reg_done", "reg_linked"}
  BY BeginsAt DEF BeginsRegUsr, BeginsBind, PingAlone
<1> QED
  BY <1>1, <1>2, StoresNothing
     DEF Names, Named, Finishes, RoutineLabels, PingLabels, Closes

LEMMA RefusedStores ==
  ASSUME ApiTypeOK, CommandTypeOK, NEW t \in Callers, RefusesText(t)
  PROVE  Stores(t)'
<1>1. pc'[t] = "idle"
  BY DEF RefusesText, vars
<1>2. command'[t].answer \in {"1000", "1004"}
  <2>1. \E c, u : \E a \in {"1000", "1004"} : Asks(t, c, u, a)
    BY DEF RefusesText
  <2> QED
    BY <2>1, AskedFor
<1> QED
  BY <1>1, <1>2, StoresNothing DEF Names, Named, Finishes, RoutineLabels, Closes

LEMMA DoneStores ==
  ASSUME ApiTypeOK, CommandTypeOK, NEW t \in Callers, Works(t), Stores(t), CommandDone(t)
  PROVE  Stores(t)'
<1>1. pc'[t] = "idle" /\ pc[t] = "return" /\ cloud' = cloud /\ conf' = conf
  BY CallerThread DEF CommandDone, Returned, shared, ApiTypeOK, Typed
<1>2. command[t].answer = "none" /\ command[t].cmd # "damaged"
  BY <1>1 DEF Works
<1>3. CASE command[t].cmd = "none"
  <2>1. command' = command
    BY <1>3 DEF CommandDone
  <2> QED
    BY <1>1, <1>2, <2>1, StoresNothing DEF Names, Named, Finishes, RoutineLabels, Closes
<1>4. CASE command[t].cmd # "none"
  <2>1. /\ command'[t].answer = Code(Result(t))
        /\ command'[t].cmd = command[t].cmd /\ command'[t].user = command[t].user
    BY <1>4 DEF CommandDone, CommandTypeOK, Records
  <2>2. Code(Result(t)) = "OK" => frame[t].res = "ok"
    BY DEF Code, Result
  <2>3. Finishes(t)' => BoundTo(command[t].user)
    BY <1>1, <2>1, <2>2 DEF Finishes, Stores
  <2>4. Finishes(t)' => BoundTo(command[t].user)'
    BY <1>1, <2>1, <2>3 DEF BoundTo
  <2> QED
    BY <1>1, <1>2, <2>1, <2>4 DEF Stores, BoundTo, Names, Named, RoutineLabels, Closes
<1> QED
  BY <1>3, <1>4

LEMMA OwnStores ==
  ASSUME ApiTypeOK, CommandTypeOK, NEW t \in Callers, CommandPlaces(t), Works(t),
         Stores(t), CommandMove(t)
  PROVE  Stores(t)'
  BY RoutineStores, BindStores, OtherStores, BeginStores, RefusedStores, DoneStores
     DEF CommandMove, Working

-----------------------------------------------------------------------------
(* The steps of the other threads, and the device when its power returns.  *)

\* What is left of the account by a step of another thread.
AccountKept ==
  /\ cloud'.account = cloud.account
  /\ \/ conf'.account = conf.account
     \/ "UNBIND" \in Controls /\ conf'.account = NoUser

LEMMA CommandRests ==
  ASSUME NEW t \in Callers, pc'[t] = pc[t], frame'[t] = frame[t], command' = command,
         AccountKept, CommandPlaces(t), Works(t), Stores(t)
  PROVE  CommandPlaces(t)' /\ Works(t)' /\ Stores(t)'
<1>1. CommandPlaces(t)'
  BY DEF CommandPlaces
<1>2. Works(t)'
  BY DEF Works, Binds, Registers
<1>3. Names(t)' <=> Names(t)
  BY DEF Names
<1>4. Finishes(t)' <=> Finishes(t)
  BY DEF Finishes
<1>5. BoundTo(command[t].user) => BoundTo(command[t].user)'
  BY DEF BoundTo, AccountKept
<1>6. Stores(t)'
  BY <1>3, <1>4, <1>5 DEF Stores, AccountKept
<1> QED
  BY <1>1, <1>2, <1>6

LEMMA DaemonAccount ==
  ASSUME ApiTypeOK, DaemonPlaces, DaemonStep
  PROVE  AccountKept
<1>0. /\ cloud \in Clouds
      /\ conf \in [account : Users \cup {NoUser}, password : Users \cup {NoUser}]
  BY DEF ApiTypeOK, Typed
<1>1. CASE Routine(Daemon)
  BY <1>1, DaemonThread, RoutineKeeps DEF KeepsBinding, AccountKept
<1>2. CASE UnbindAccount
  <2>1. "UNBIND" \in Controls
    BY <1>2 DEF UnbindAccount, DaemonPlaces, At, UnbindLabels, RoutineLabels, DaemonLabels
  <2> QED
    BY <1>0, <1>2, <2>1 DEF UnbindAccount, AccountKept
<1>3. CASE ~Routine(Daemon) /\ ~UnbindAccount
  <2>1. conf'.account = conf.account
    BY <1>0, <1>3
       DEF DaemonStep, WaitAgent, Dispatch, StatusInit, SetConnecting, SetDisconnected,
           SetBroken, SetConnected, Linked, AuthDone, UpdateDone, SetUnbound,
           ClearUnbound, StatusConnected, NeedUpdate, NeedRead, NeedClear, RefreshDone,
           Retry, Resume, Pace, Restart, Poll, PollSelect, ControlLock, ControlPoll,
           ControlSelect, ControlRecvFd, ControlRecv, UnbindDone, UnbindStatus,
           UnbindPassword, Reply, SetStatus, shared
  <2>2. cloud'.account = cloud.account
    BY <1>0, <1>3
       DEF DaemonStep, WaitAgent, Dispatch, StatusInit, SetConnecting, SetDisconnected,
           SetBroken, SetConnected, Linked, AuthDone, UpdateDone, SetUnbound,
           ClearUnbound, StatusConnected, NeedUpdate, NeedRead, NeedClear, RefreshDone,
           Retry, Resume, Pace, Restart, Poll, PollSelect, ControlLock, ControlPoll,
           ControlSelect, ControlRecvFd, ControlRecv, UnbindDone, UnbindStatus,
           UnbindPassword, Reply, SetStatus, shared, ClearedCounters, Clouds
  <2> QED
    BY <2>1, <2>2 DEF AccountKept
<1> QED
  BY <1>1, <1>2, <1>3

\* After a boot the program has the account that was saved.
LEMMA RebootRests ==
  ASSUME "UNBIND" \notin Controls, NEW t \in Callers, Reboot, command' = command,
         Works(t), Stores(t)
  PROVE  CommandPlaces(t)' /\ Works(t)' /\ Stores(t)'
<1>1. pc'[t] = "idle" /\ conf' = conf
  BY CallerThread DEF Reboot, Started
<1>2. PICK i \in Infos : cloud' = Booted(conf.account, i)
  BY DEF Reboot
<1>3. cloud'.account = conf.account
  BY <1>2, Zenon DEF Booted
<1>4. Finishes(t)' => Finishes(t)
  BY <1>1 DEF Finishes, Works
<1>5. Finishes(t)' => BoundTo(command[t].user)'
  BY <1>1, <1>3, <1>4 DEF Stores, BoundTo
<1>6. Stores(t)'
  BY <1>1, <1>5 DEF Stores, BoundTo, Names, Named, RoutineLabels, Closes
<1>7. CommandPlaces(t)'
  BY <1>1, CommandGoes
<1>8. Works(t)'
  BY <1>1 DEF Works, Binds, Registers, BindLabels, RegLabels, PingLabels, RoutineLabels
<1> QED
  BY <1>6, <1>7, <1>8

-----------------------------------------------------------------------------
(* The answer to a command.                                                *)

\* The answer is about the last text: no second caller binds the device, and no
\* boot follows an UNBIND request.
OneCommander ==
  /\ \A c, d \in Callers : c = d
  /\ Reboots => "UNBIND" \notin Controls

LEMMA CommandInvStep ==
  ASSUME PlainNames, OneCommander, ApiTypeOK, CommandTypeOK, DaemonPlaces, CommandInv,
         [CommandNext]_commandVars
  PROVE  CommandInv'
<1> SUFFICES ASSUME NEW t \in Callers
             PROVE  CommandPlaces(t)' /\ Works(t)' /\ Stores(t)'
  BY DEF CommandInv
<1>0. CommandPlaces(t) /\ Works(t) /\ Stores(t) /\ t \in Threads /\ t # Daemon
      /\ t \notin Handlers
  BY CallerThread DEF CommandInv
<1>1. ASSUME NEW u \in Callers, CommandMove(u)
      PROVE  CommandPlaces(t)' /\ Works(t)' /\ Stores(t)'
  <2>1. u = t
    BY DEF OneCommander
  <2>2. CommandPlaces(t)'
    <3>1. CASE UNCHANGED vars
      BY <1>0, <3>1 DEF vars, CommandPlaces
    <3>2. CASE CalledStep(t)
      BY <1>0, <3>2, CommandPlacesStep
    <3> QED
      BY <1>1, <2>1, <3>1, <3>2, CommandMoveCalls
  <2> QED
    BY <1>0, <1>1, <2>1, <2>2, OwnWorks, OwnStores
<1>2. CASE Quietly /\ command' = command
  <2>1. CASE DaemonStep
    BY <1>0, <1>2, <2>1, DaemonAlone, DaemonAccount, CommandRests DEF Alone
  <2>2. CASE \E h \in Handlers : HandlerStep(h)
    <3>1. PICK h \in Handlers : HandlerStep(h)
      BY <2>2
    <3>2. pc'[t] = pc[t] /\ frame'[t] = frame[t] /\ AccountKept
      BY <1>0, <3>1, MessagesKeep DEF Alone, KeepsBinding, AccountKept
    <3> QED
      BY <1>0, <1>2, <3>2, CommandRests
  <2>3. CASE UNCHANGED <<cloud, lock, conf, pc, frame>>
    BY <1>0, <1>2, <2>3, CommandRests DEF AccountKept
  <2>4. CASE Reboot
    <3>1. "UNBIND" \notin Controls
      BY <2>4 DEF Reboot, OneCommander
    <3> QED
      BY <1>0, <1>2, <2>4, <3>1, RebootRests
  <2> QED
    BY <1>2, <2>1, <2>2, <2>3, <2>4, EnvironmentMoves DEF Quietly, vars
<1> QED
  BY <1>1, <1>2, CommandWork

LEMMA CommandInvInit == CommandInit => CommandTypeOK /\ CommandInv
<1> SUFFICES ASSUME CommandInit PROVE CommandTypeOK /\ CommandInv
  OBVIOUS
<1>1. NoCommand \in Records
  BY DEF NoCommand, Records
<1>2. CommandTypeOK
  BY <1>1 DEF CommandInit, CommandTypeOK
<1>3. \A t \in Callers : pc[t] = "idle" /\ command[t].answer = "none"
  BY CallerThread DEF CommandInit, Init, Started, NoCommand
<1>4. CommandInv
  BY <1>3
     DEF CommandInv, CommandPlaces, Works, Stores, Binds, Registers, Names, Named,
         Finishes, BindLabels, RegLabels, PingLabels, RoutineLabels, Closes, Connects,
         Requests
<1> QED
  BY <1>2, <1>4

\* OK is answered only to a whole text.  After OK to BIND the device has the user
\* that the text names, in memory and in the file, until an UNBIND request erases
\* the file's: for any users whose names are no tokens, any faults, refusals,
\* messages and power losses, whatever the caller asked before and the daemon does.
THEOREM CommandsObeyed ==
  ASSUME PlainNames, OneCommander
  PROVE  CommandSpec => []CommandObeyed
<1>1. CommandInit => CommandTypeOK /\ CommandInv
  BY CommandInvInit
<1>2. /\ ApiTypeOK /\ (DaemonPlaces /\ Heeds) /\ CommandTypeOK /\ CommandInv
      /\ [CommandNext]_commandVars
      => (CommandTypeOK /\ CommandInv)'
  <2> SUFFICES ASSUME ApiTypeOK, DaemonPlaces, CommandTypeOK, CommandInv,
                      [CommandNext]_commandVars
               PROVE  CommandTypeOK' /\ CommandInv'
    OBVIOUS
  <2>1. CommandTypeOK'
    BY CommandTypeStep
  <2>2. CommandInv'
    BY CommandInvStep
  <2> QED
    BY <2>1, <2>2
<1>3. CommandInv => CommandObeyed
  BY DEF CommandInv, Works, Stores, Finishes, BoundTo, CommandObeyed
<1> QED
  BY <1>1, <1>2, <1>3, CommandTypes, DaemonHeeds, PTL DEF CommandSpec
=============================================================================

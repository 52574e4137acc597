------------------------------ MODULE ImageProofs ------------------------------
(***************************************************************************)
(* What is read of an image reference is what it names, for all hosts,     *)
(* components, tags and digests, and all entries of the allowlist.         *)
(***************************************************************************)
EXTENDS ImageReferences, SequenceTheorems, TLAPS

(* The literals of the program are strings, which the provers do not know. *)
Characters == STRING \cup {"/", ":", "@", ".", "docker", "io", "library", "latest", "localhost"}

Text == Seq(Characters)

(***************************************************************************)
(* Searching for a character.                                              *)
(***************************************************************************)
LEMMA FindFirst ==
    ASSUME NEW s \in Text, NEW c, NEW n \in 1 .. Len(s), s[n] = c,
           \A i \in 1 .. n - 1 : s[i] # c
    PROVE  Find(s, c) = n
  <1> DEFINE I == {i \in 1 .. Len(s) : s[i] = c}
  <1>1. n \in I /\ \A i \in I : i \in Nat /\ n <= i
    OBVIOUS
  <1>2. Min(I) = n
    BY <1>1 DEF Min
  <1>3. Find(s, c) = IF I # {} THEN Min(I) ELSE 0
    BY DEF Find, SelectInSeq
  <1>4. QED
    BY <1>1, <1>2, <1>3

LEMMA FindNone ==
    ASSUME NEW s \in Text, NEW c, \A i \in 1 .. Len(s) : s[i] # c
    PROVE  Find(s, c) = 0 /\ RFind(s, c) = 0
  <1> DEFINE I == {i \in 1 .. Len(s) : s[i] = c}
  <1>1. I = {}
    OBVIOUS
  <1>2. /\ Find(s, c) = IF I # {} THEN Min(I) ELSE 0
        /\ RFind(s, c) = IF I # {} THEN Max(I) ELSE 0
    BY DEF Find, RFind, SelectInSeq, SelectLastInSeq
  <1>3. QED
    BY <1>1, <1>2

LEMMA FindLast ==
    ASSUME NEW s \in Text, NEW c, NEW n \in 1 .. Len(s), s[n] = c,
           \A i \in n + 1 .. Len(s) : s[i] # c
    PROVE  RFind(s, c) = n
  <1> DEFINE I == {i \in 1 .. Len(s) : s[i] = c}
  <1>1. n \in I /\ \A i \in I : i \in Nat /\ i <= n
    OBVIOUS
  <1>2. Max(I) = n
    BY <1>1 DEF Max
  <1>3. RFind(s, c) = IF I # {} THEN Max(I) ELSE 0
    BY DEF RFind, SelectLastInSeq
  <1>4. QED
    BY <1>1, <1>2, <1>3

LEMMA CutPoints ==
    ASSUME NEW s \in Text, NEW n \in 1 .. Len(s)
    PROVE  /\ Upto(s, n) \in Text /\ Len(Upto(s, n)) = n - 1
           /\ \A i \in 1 .. n - 1 : Upto(s, n)[i] = s[i]
  BY SubSeqProperties DEF Text, Upto

LEMMA CutRest ==
    ASSUME NEW s \in Text, NEW n \in 0 .. Len(s)
    PROVE  /\ From(s, n) \in Text /\ Len(From(s, n)) = Len(s) - n
           /\ \A i \in 1 .. Len(s) - n : From(s, n)[i] = s[n + i]
  BY SubSeqProperties DEF Text, From

LEMMA SameText ==
    ASSUME NEW s \in Text, NEW t \in Text, Len(s) = Len(t), \A i \in 1 .. Len(s) : s[i] = t[i]
    PROVE  s = t
  BY SeqEqual DEF Text

LEMMA JoinedText ==
    ASSUME NEW s \in Text, NEW t \in Text
    PROVE  /\ s \o t \in Text /\ Len(s \o t) = Len(s) + Len(t)
           /\ \A i \in 1 .. Len(s) : (s \o t)[i] = s[i]
           /\ \A i \in 1 .. Len(t) : (s \o t)[Len(s) + i] = t[i]
  BY ConcatProperties DEF Text

LEMMA Lengths == \A s \in Text : Len(s) \in Nat /\ DOMAIN s = 1 .. Len(s)
  BY DEF Text

LEMMA SlashedText ==
    ASSUME NEW s \in Text, NEW t \in Text
    PROVE  /\ Slashed(s, t) \in Text /\ Len(Slashed(s, t)) = Len(s) + 1 + Len(t)
           /\ \A i \in 1 .. Len(s) : Slashed(s, t)[i] = s[i]
           /\ Slashed(s, t)[Len(s) + 1] = "/"
           /\ \A i \in 1 .. Len(t) : Slashed(s, t)[Len(s) + 1 + i] = t[i]
  <1> DEFINE before == s \o <<"/">>
  <1>1. <<"/">> \in Text /\ Len(<<"/">>) = 1 /\ <<"/">>[1] = "/"
    <2>1. "/" \in Characters
      BY DEF Characters
    <2>2. QED
      BY <2>1 DEF Text
  <1>2. before \in Text /\ Len(before) = Len(s) + 1
    BY <1>1, JoinedText
  <1>3. \A i \in 1 .. Len(s) : before[i] = s[i]
    BY <1>1, JoinedText
  <1>4. before[Len(s) + 1] = "/"
    BY <1>1, JoinedText
  <1> HIDE DEF before
  <1> DEFINE whole == before \o t
  <1>5. whole \in Text /\ Len(whole) = Len(s) + 1 + Len(t)
    <2>1. whole \in Text /\ Len(whole) = Len(before) + Len(t)
      BY <1>2, JoinedText
    <2>2. QED
      BY <1>2, <2>1
  <1>6. /\ \A i \in 1 .. Len(s) + 1 : whole[i] = before[i]
        /\ \A i \in 1 .. Len(t) : whole[Len(s) + 1 + i] = t[i]
    BY <1>2, JoinedText
  <1>7. whole = Slashed(s, t)
    BY DEF Slashed, before
  <1> HIDE DEF whole
  <1>8. Len(s) \in Nat
    BY Lengths
  <1>9. QED
    BY <1>3, <1>4, <1>5, <1>6, <1>7, <1>8

-------------------------------------------------------------------------------
(***************************************************************************)
(* Matching.  Texts with slashes match part by part: a slash that ends the *)
(* entry can only be met by a slash of the registry.                       *)
(***************************************************************************)
Part == {s \in Text : ~Contains(s, "/")}

LEMMA PartFacts == \A s \in Part : s \in Text /\ Len(s) \in Nat /\ \A i \in 1 .. Len(s) : s[i] # "/"
  BY Lengths DEF Part, Contains

LEMMA MatchMeaning ==
    ASSUME NEW r \in Text, NEW e \in Text
    PROVE  registry_matches(r, e) <=>
            \/ r = e
            \/ Len(e) < Len(r) /\ r[Len(e) + 1] = "/" /\ \A i \in 1 .. Len(e) : r[i] = e[i]
  <1> DEFINE ended == e \o <<"/">>
             n == Len(e) + 1
  <1>1. <<"/">> \in Text /\ Len(<<"/">>) = 1 /\ <<"/">>[1] = "/"
    <2>1. "/" \in Characters
      BY DEF Characters
    <2>2. QED
      BY <2>1 DEF Text
  <1>2. /\ ended \in Text /\ Len(ended) = n /\ ended[n] = "/"
        /\ \A i \in 1 .. Len(e) : ended[i] = e[i]
    BY <1>1, JoinedText
  <1>3. Len(e) \in Nat /\ Len(r) \in Nat
    BY Lengths
  <1> HIDE DEF ended
  <1>4. SubSeq(ended, 1, n) = ended
    BY <1>2, SubSeqFull DEF Text
  <1>5. IsPrefix(ended, r) <=> n <= Len(r) /\ ended = SubSeq(r, 1, n)
    BY <1>2, <1>4 DEF IsPrefix
  <1>6. ASSUME n <= Len(r)
        PROVE  /\ SubSeq(r, 1, n) \in Text /\ Len(SubSeq(r, 1, n)) = n
               /\ \A i \in 1 .. n : SubSeq(r, 1, n)[i] = r[i]
    <2>1. \A i \in 1 .. n : r[i] \in Characters
      BY <1>3, <1>6 DEF Text
    <2>2. QED
      BY <1>3, <2>1, SubSeqProperties DEF Text
  <1>7. ASSUME n <= Len(r)
        PROVE  ended = SubSeq(r, 1, n) <=> \A i \in 1 .. n : ended[i] = r[i]
    BY <1>2, <1>6, <1>7, SameText
  <1>8. (\A i \in 1 .. n : ended[i] = r[i])
            <=> r[n] = "/" /\ \A i \in 1 .. Len(e) : r[i] = e[i]
    <2>1. 1 .. n = (1 .. Len(e)) \cup {n}
      BY <1>3
    <2>2. QED
      BY <1>2, <2>1
  <1>9. QED
    BY <1>3, <1>5, <1>7, <1>8 DEF registry_matches, ended

LEMMA PartMatchesPart ==
    ASSUME NEW a \in Part, NEW b \in Part
    PROVE  registry_matches(a, b) <=> a = b
  BY PartFacts, MatchMeaning

LEMMA PartMatchesNothingDeeper ==
    ASSUME NEW a \in Part, NEW b \in Part, NEW y \in Text
    PROVE  ~registry_matches(a, Slashed(b, y))
  <1> DEFINE e == Slashed(b, y)
  <1>1. e \in Text /\ Len(e) = Len(b) + 1 + Len(y) /\ e[Len(b) + 1] = "/"
    BY PartFacts, SlashedText
  <1>2. Len(b) \in Nat /\ Len(y) \in Nat
    BY PartFacts, Lengths
  <1>3. a # e
    BY <1>1, <1>2, PartFacts
  <1> HIDE DEF e
  <1>4. ASSUME Len(e) < Len(a), \A i \in 1 .. Len(e) : a[i] = e[i]
        PROVE  FALSE
    <2>1. Len(b) + 1 \in 1 .. Len(e) /\ Len(b) + 1 \in 1 .. Len(a)
      BY <1>1, <1>2, <1>4, PartFacts
    <2>2. QED
      BY <1>1, <1>4, <2>1, PartFacts
  <1>5. QED
    BY <1>1, <1>3, <1>4, PartFacts, MatchMeaning DEF e

LEMMA PathMatchesPart ==
    ASSUME NEW a \in Part, NEW x \in Text, NEW b \in Part
    PROVE  registry_matches(Slashed(a, x), b) <=> a = b
  <1> DEFINE r == Slashed(a, x)
  <1>1. /\ r \in Text /\ Len(r) = Len(a) + 1 + Len(x) /\ r[Len(a) + 1] = "/"
        /\ \A i \in 1 .. Len(a) : r[i] = a[i]
    BY PartFacts, SlashedText
  <1>2. Len(a) \in Nat /\ Len(b) \in Nat /\ Len(x) \in Nat
    BY PartFacts, Lengths
  <1>3. r # b
    BY <1>1, <1>2, PartFacts
  <1> HIDE DEF r
  <1>4. ASSUME Len(b) < Len(r), r[Len(b) + 1] = "/", \A i \in 1 .. Len(b) : r[i] = b[i]
        PROVE  a = b
    <2>1. ~(Len(b) < Len(a))
      <3> SUFFICES ASSUME Len(b) < Len(a) PROVE FALSE
        OBVIOUS
      <3>1. Len(b) + 1 \in 1 .. Len(a)
        BY <1>2
      <3>2. QED
        BY <1>1, <1>4, <3>1, PartFacts
    <2>2. ~(Len(a) < Len(b))
      <3> SUFFICES ASSUME Len(a) < Len(b) PROVE FALSE
        OBVIOUS
      <3>1. Len(a) + 1 \in 1 .. Len(b)
        BY <1>2
      <3>2. QED
        BY <1>1, <1>4, <3>1, PartFacts
    <2>3. Len(a) = Len(b)
      BY <1>2, <2>1, <2>2
    <2>4. \A i \in 1 .. Len(a) : a[i] = b[i]
      BY <1>1, <1>4, <2>3
    <2>5. QED
      BY <2>3, <2>4, PartFacts, SameText
  <1>5. a = b => Len(b) < Len(r) /\ r[Len(b) + 1] = "/" /\ \A i \in 1 .. Len(b) : r[i] = b[i]
    BY <1>1, <1>2
  <1>6. QED
    BY <1>1, <1>3, <1>4, <1>5, PartFacts, MatchMeaning DEF r

LEMMA PathMatchesPath ==
    ASSUME NEW a \in Part, NEW x \in Text, NEW b \in Part, NEW y \in Text
    PROVE  registry_matches(Slashed(a, x), Slashed(b, y)) <=> a = b /\ registry_matches(x, y)
  <1> DEFINE r == Slashed(a, x)
             e == Slashed(b, y)
  <1>1. /\ r \in Text /\ Len(r) = Len(a) + 1 + Len(x) /\ r[Len(a) + 1] = "/"
        /\ \A i \in 1 .. Len(a) : r[i] = a[i]
        /\ \A i \in 1 .. Len(x) : r[Len(a) + 1 + i] = x[i]
    BY PartFacts, SlashedText
  <1>2. /\ e \in Text /\ Len(e) = Len(b) + 1 + Len(y) /\ e[Len(b) + 1] = "/"
        /\ \A i \in 1 .. Len(b) : e[i] = b[i]
        /\ \A i \in 1 .. Len(y) : e[Len(b) + 1 + i] = y[i]
    BY PartFacts, SlashedText
  <1>3. Len(a) \in Nat /\ Len(b) \in Nat /\ Len(x) \in Nat /\ Len(y) \in Nat
    BY PartFacts, Lengths
  <1> HIDE DEF r, e
  <1>4. ASSUME Len(e) <= Len(r), \A i \in 1 .. Len(e) : r[i] = e[i]
        PROVE  a = b
    <2>1. ~(Len(b) < Len(a))
      <3> SUFFICES ASSUME Len(b) < Len(a) PROVE FALSE
        OBVIOUS
      <3>1. Len(b) + 1 \in 1 .. Len(a) /\ Len(b) + 1 \in 1 .. Len(e)
        BY <1>2, <1>3
      <3>2. QED
        BY <1>1, <1>2, <1>4, <3>1, PartFacts
    <2>2. ~(Len(a) < Len(b))
      <3> SUFFICES ASSUME Len(a) < Len(b) PROVE FALSE
        OBVIOUS
      <3>1. Len(a) + 1 \in 1 .. Len(b) /\ Len(a) + 1 \in 1 .. Len(e)
        BY <1>2, <1>3
      <3>2. QED
        BY <1>1, <1>2, <1>4, <3>1, PartFacts
    <2>3. Len(a) = Len(b)
      BY <1>3, <2>1, <2>2
    <2>4. \A i \in 1 .. Len(a) : i \in 1 .. Len(e)
      BY <1>2, <1>3, <2>3
    <2>5. \A i \in 1 .. Len(a) : a[i] = b[i]
      BY <1>1, <1>2, <1>4, <2>3, <2>4
    <2>6. QED
      BY <2>3, <2>5, PartFacts, SameText
  <1>5. ASSUME a = b
        PROVE  registry_matches(r, e) <=> registry_matches(x, y)
    <2>1. \A i \in 1 .. Len(a) + 1 : r[i] = e[i]
      <3>1. 1 .. Len(a) + 1 = (1 .. Len(a)) \cup {Len(a) + 1}
        BY <1>3
      <3>2. QED
        BY <1>1, <1>2, <1>5, <3>1
    <2>2. /\ \A i \in 1 .. Len(x) : r[Len(a) + 1 + i] = x[i]
          /\ \A i \in 1 .. Len(y) : e[Len(a) + 1 + i] = y[i]
          /\ Len(r) = Len(a) + 1 + Len(x) /\ Len(e) = Len(a) + 1 + Len(y)
      BY <1>1, <1>2, <1>5
    <2>3. r = e <=> x = y
      <3>1. ASSUME r = e
            PROVE  x = y
        <4>1. Len(x) = Len(y)
          BY <1>3, <2>2, <3>1
        <4>2. \A i \in 1 .. Len(x) : x[i] = y[i]
          BY <2>2, <3>1, <4>1
        <4>3. QED
          BY <4>1, <4>2, SameText
      <3>2. QED
        BY <1>5, <3>1 DEF r, e
    <2>4. Len(e) < Len(r) /\ r[Len(e) + 1] = "/" <=> Len(y) < Len(x) /\ x[Len(y) + 1] = "/"
      <3>1. Len(e) < Len(r) <=> Len(y) < Len(x)
        BY <1>3, <2>2
      <3>2. Len(y) < Len(x) => Len(y) + 1 \in 1 .. Len(x)
        BY <1>3
      <3>3. Len(y) < Len(x) => r[Len(a) + 1 + (Len(y) + 1)] = x[Len(y) + 1]
        BY <2>2, <3>2
      <3>4. Len(e) + 1 = Len(a) + 1 + (Len(y) + 1)
        BY <1>3, <2>2
      <3>5. QED
        BY <3>1, <3>3, <3>4
    <2>5. ASSUME Len(y) < Len(x)
          PROVE  (\A i \in 1 .. Len(e) : r[i] = e[i]) <=> \A i \in 1 .. Len(y) : x[i] = y[i]
      <3>1. ASSUME \A i \in 1 .. Len(e) : r[i] = e[i], NEW i \in 1 .. Len(y)
            PROVE  x[i] = y[i]
        <4>1. Len(a) + 1 + i \in 1 .. Len(e) /\ i \in 1 .. Len(x)
          BY <1>3, <2>2, <2>5
        <4>2. r[Len(a) + 1 + i] = e[Len(a) + 1 + i]
          BY <3>1, <4>1
        <4>3. QED
          BY <2>2, <4>1, <4>2
      <3>2. ASSUME \A i \in 1 .. Len(y) : x[i] = y[i], NEW i \in 1 .. Len(e)
            PROVE  r[i] = e[i]
        <4>1. CASE i <= Len(a) + 1
          BY <1>3, <2>1, <4>1
        <4>2. CASE i > Len(a) + 1
          <5> DEFINE k == i - (Len(a) + 1)
          <5>1. k \in 1 .. Len(y) /\ k \in 1 .. Len(x) /\ i = Len(a) + 1 + k
            BY <1>3, <2>2, <2>5, <4>2
          <5> HIDE DEF k
          <5>2. r[Len(a) + 1 + k] = e[Len(a) + 1 + k]
            BY <2>2, <3>2, <5>1
          <5>3. QED
            BY <5>1, <5>2
        <4>3. QED
          BY <1>3, <4>1, <4>2
      <3>3. QED
        BY <3>1, <3>2
    <2>6. QED
      BY <1>1, <1>2, <2>3, <2>4, <2>5, MatchMeaning
  <1>6. registry_matches(r, e) => a = b
    <2>1. ASSUME registry_matches(r, e)
          PROVE  Len(e) <= Len(r) /\ \A i \in 1 .. Len(e) : r[i] = e[i]
      <3>1. Len(e) \in Nat /\ Len(r) \in Nat
        BY <1>1, <1>2, Lengths
      <3>2. \/ r = e
            \/ Len(e) < Len(r) /\ \A i \in 1 .. Len(e) : r[i] = e[i]
        BY <1>1, <1>2, <2>1, MatchMeaning
      <3>3. QED
        BY <3>1, <3>2
    <2>2. QED
      BY <1>4, <2>1
  <1>7. QED
    BY <1>5, <1>6 DEF r, e

-------------------------------------------------------------------------------
(***************************************************************************)
(* Paths.                                                                  *)
(***************************************************************************)
Paths == {q \in Seq(Part) : Len(q) \in 1 .. 4}

LEMMA PathFacts ==
    ASSUME NEW q \in Paths
    PROVE  /\ Len(q) \in 1 .. 4 /\ DOMAIN q = 1 .. Len(q)
           /\ \A i \in 1 .. Len(q) : q[i] \in Part /\ q[i] \in Text
  BY PartFacts DEF Paths

LEMMA PathTail ==
    ASSUME NEW q \in Paths, Len(q) >= 2
    PROVE  /\ Tail(q) \in Paths /\ Len(Tail(q)) = Len(q) - 1
           /\ \A i \in 1 .. Len(q) - 1 : Tail(q)[i] = q[i + 1]
  <1>1. q \in Seq(Part) /\ Len(q) \in 1 .. 4 /\ q # <<>>
    BY DEF Paths
  <1>2. /\ Tail(q) \in Seq(Part) /\ Len(Tail(q)) = Len(q) - 1
        /\ \A i \in 1 .. Len(Tail(q)) : Tail(q)[i] = q[i + 1]
    BY <1>1, HeadTailProperties
  <1>3. QED
    BY <1>1, <1>2 DEF Paths

LEMMA JoinedByLength ==
    ASSUME NEW q \in Paths
    PROVE  /\ Len(q) = 1 => Joined(q) = q[1]
           /\ Len(q) = 2 => Joined(q) = Slashed(q[1], q[2])
           /\ Len(q) = 3 => Joined(q) = Slashed(q[1], Slashed(q[2], q[3]))
           /\ Len(q) = 4 => Joined(q) = Slashed(q[1], Slashed(q[2], Slashed(q[3], q[4])))
  <1>1. ASSUME Len(q) = 1
        PROVE  Joined(q) = q[1]
    <2>1. Len(q) # 2 /\ Len(q) # 3 /\ Len(q) # 4
      BY <1>1
    <2>2. QED
      BY <1>1, <2>1 DEF Joined
  <1>2. ASSUME Len(q) = 2
        PROVE  Joined(q) = Slashed(q[1], q[2])
    <2>1. Len(q) # 1 /\ Len(q) # 3 /\ Len(q) # 4
      BY <1>2
    <2>2. QED
      BY <1>2, <2>1 DEF Joined
  <1>3. ASSUME Len(q) = 3
        PROVE  Joined(q) = Slashed(q[1], Slashed(q[2], q[3]))
    <2>1. Len(q) # 1 /\ Len(q) # 2 /\ Len(q) # 4
      BY <1>3
    <2>2. QED
      BY <1>3, <2>1 DEF Joined
  <1>4. ASSUME Len(q) = 4
        PROVE  Joined(q) = Slashed(q[1], Slashed(q[2], Slashed(q[3], q[4])))
    <2>1. Len(q) # 1 /\ Len(q) # 2 /\ Len(q) # 3
      BY <1>4
    <2>2. QED
      BY <1>4, <2>1 DEF Joined
  <1>5. QED
    BY <1>1, <1>2, <1>3, <1>4

LEMMA JoinedIsText ==
    ASSUME NEW q \in Paths
    PROVE  Joined(q) \in Text
  <1>1. CASE Len(q) = 1
    BY <1>1, PathFacts, JoinedByLength
  <1>2. CASE Len(q) = 2
    BY <1>2, PathFacts, JoinedByLength, SlashedText
  <1>3. CASE Len(q) = 3
    <2>1. q[1] \in Text /\ q[2] \in Text /\ q[3] \in Text
      BY <1>3, PathFacts
    <2>2. Slashed(q[2], q[3]) \in Text
      BY <2>1, SlashedText
    <2>3. Slashed(q[1], Slashed(q[2], q[3])) \in Text
      BY <2>1, <2>2, SlashedText
    <2>4. QED
      BY <1>3, <2>3, JoinedByLength
  <1>4. CASE Len(q) = 4
    <2>1. q[1] \in Text /\ q[2] \in Text /\ q[3] \in Text /\ q[4] \in Text
      BY <1>4, PathFacts
    <2>2. Slashed(q[3], q[4]) \in Text
      BY <2>1, SlashedText
    <2>3. Slashed(q[2], Slashed(q[3], q[4])) \in Text
      BY <2>1, <2>2, SlashedText
    <2>4. Slashed(q[1], Slashed(q[2], Slashed(q[3], q[4]))) \in Text
      BY <2>1, <2>3, SlashedText
    <2>5. QED
      BY <1>4, <2>4, JoinedByLength
  <1>5. QED
    BY <1>1, <1>2, <1>3, <1>4, PathFacts

(* The first part and the path below it. *)
LEMMA JoinedFirst ==
    ASSUME NEW q \in Paths, Len(q) >= 2
    PROVE  Joined(q) = Slashed(q[1], Joined(Tail(q)))
  <1> DEFINE rest == Tail(q)
  <1>1. /\ rest \in Paths /\ Len(rest) = Len(q) - 1
        /\ \A i \in 1 .. Len(q) - 1 : rest[i] = q[i + 1]
    BY PathTail
  <1> HIDE DEF rest
  <1>2. CASE Len(q) = 2
    <2>1. Joined(rest) = q[2]
      BY <1>1, <1>2, JoinedByLength
    <2>2. QED
      BY <1>2, <2>1, JoinedByLength DEF rest
  <1>3. CASE Len(q) = 3
    <2>1. Joined(rest) = Slashed(q[2], q[3])
      BY <1>1, <1>3, JoinedByLength
    <2>2. QED
      BY <1>3, <2>1, JoinedByLength DEF rest
  <1>4. CASE Len(q) = 4
    <2>1. Joined(rest) = Slashed(q[2], Slashed(q[3], q[4]))
      BY <1>1, <1>4, JoinedByLength
    <2>2. QED
      BY <1>4, <2>1, JoinedByLength DEF rest
  <1>5. QED
    BY <1>2, <1>3, <1>4, PathFacts

LEMMA SlashedAssociates ==
    ASSUME NEW a \in Text, NEW b \in Text, NEW c \in Text
    PROVE  Slashed(a, Slashed(b, c)) = Slashed(Slashed(a, b), c)
  <1> DEFINE slash == <<"/">>
  <1>1. slash \in Text
    <2>1. "/" \in Characters
      BY DEF Characters
    <2>2. QED
      BY <2>1 DEF Text
  <1> HIDE DEF slash
  <1>2. \A s, t \in Text : s \o t \in Text
    BY ConcatProperties DEF Text
  <1>3. \A s, t, u \in Text : (s \o t) \o u = s \o (t \o u)
    BY ConcatAssociative DEF Text
  <1>4. (a \o slash) \o ((b \o slash) \o c) = (((a \o slash) \o b) \o slash) \o c
    <2>1. a \o slash \in Text /\ b \o slash \in Text
      BY <1>1, <1>2
    <2>2. (a \o slash) \o (b \o slash) = ((a \o slash) \o b) \o slash
      <3> DEFINE s == a \o slash
      <3>1. s \in Text
        BY <2>1
      <3> HIDE DEF s
      <3>2. s \o (b \o slash) = (s \o b) \o slash
        BY <1>1, <1>3, <3>1, Zenon
      <3>3. QED
        BY <3>2 DEF s
    <2>3. (a \o slash) \o ((b \o slash) \o c) = ((a \o slash) \o (b \o slash)) \o c
      BY <1>3, <2>1
    <2>4. QED
      BY <2>2, <2>3
  <1>5. QED
    BY <1>4 DEF Slashed, slash

(* The path down to the last part, and that part. *)
Directory(q) == SubSeq(q, 1, Len(q) - 1)

LEMMA DirectoryFacts ==
    ASSUME NEW q \in Paths, Len(q) >= 2
    PROVE  /\ Directory(q) \in Paths /\ Len(Directory(q)) = Len(q) - 1
           /\ \A i \in 1 .. Len(q) - 1 : Directory(q)[i] = q[i]
  <1> DEFINE n == Len(q) - 1
  <1>1. n \in 1 .. 3 /\ Len(q) = n + 1 /\ \A i \in 1 .. n : q[i] \in Part
    BY PathFacts
  <1>2. /\ SubSeq(q, 1, n) \in Seq(Part) /\ Len(SubSeq(q, 1, n)) = n
        /\ \A i \in 1 .. n : SubSeq(q, 1, n)[i] = q[i]
    BY <1>1, SubSeqProperties
  <1>3. QED
    BY <1>1, <1>2 DEF Directory, Paths

LEMMA JoinedLast ==
    ASSUME NEW q \in Paths, Len(q) >= 2
    PROVE  Joined(q) = Slashed(Joined(Directory(q)), q[Len(q)])
  <1> DEFINE dir == Directory(q)
  <1>1. /\ dir \in Paths /\ Len(dir) = Len(q) - 1
        /\ \A i \in 1 .. Len(q) - 1 : dir[i] = q[i]
    BY DirectoryFacts
  <1> HIDE DEF dir
  <1>2. CASE Len(q) = 2
    <2>1. Joined(dir) = q[1]
      BY <1>1, <1>2, JoinedByLength
    <2>2. QED
      BY <1>2, <2>1, JoinedByLength DEF dir
  <1>3. CASE Len(q) = 3
    <2>1. Joined(dir) = Slashed(q[1], q[2])
      BY <1>1, <1>3, JoinedByLength
    <2>2. Joined(q) = Slashed(q[1], Slashed(q[2], q[3]))
      BY <1>3, JoinedByLength
    <2>3. Slashed(q[1], Slashed(q[2], q[3])) = Slashed(Slashed(q[1], q[2]), q[3])
      BY <1>3, PathFacts, SlashedAssociates
    <2>4. QED
      BY <1>3, <2>1, <2>2, <2>3 DEF dir
  <1>4. CASE Len(q) = 4
    <2>1. Joined(q) = Slashed(q[1], Slashed(q[2], Slashed(q[3], q[4])))
      BY <1>4, JoinedByLength
    <2>2. Joined(dir) = Slashed(q[1], Slashed(q[2], q[3]))
      BY <1>1, <1>4, JoinedByLength
    <2>3. q[1] \in Text /\ q[2] \in Text /\ q[3] \in Text /\ q[4] \in Text
      BY <1>4, PathFacts
    <2>4. Slashed(q[2], Slashed(q[3], q[4])) = Slashed(Slashed(q[2], q[3]), q[4])
      BY <2>3, SlashedAssociates
    <2>5. Slashed(q[2], q[3]) \in Text
      BY <2>3, SlashedText
    <2>6. Slashed(q[1], Slashed(Slashed(q[2], q[3]), q[4]))
            = Slashed(Slashed(q[1], Slashed(q[2], q[3])), q[4])
      BY <2>3, <2>5, SlashedAssociates
    <2>7. QED
      BY <1>4, <2>1, <2>2, <2>4, <2>6 DEF dir
  <1>5. QED
    BY <1>2, <1>3, <1>4, PathFacts

(***************************************************************************)
(* An entry matches the registries that begin with it, part by part.       *)
(***************************************************************************)
Begins(path, entry) ==
    Len(entry) <= Len(path) /\ \A i \in 1 .. Len(entry) : path[i] = entry[i]

LEMMA FirstPartMatches ==
    ASSUME NEW r \in Paths, NEW e \in Paths, Len(r) = 1 \/ Len(e) = 1
    PROVE  registry_matches(Joined(r), Joined(e)) <=> Begins(r, e)
  <1>1. r[1] \in Part /\ e[1] \in Part /\ Len(r) \in 1 .. 4 /\ Len(e) \in 1 .. 4
    BY PathFacts
  <1>2. CASE Len(r) = 1 /\ Len(e) = 1
    BY <1>1, <1>2, JoinedByLength, PartMatchesPart DEF Begins
  <1>3. CASE Len(r) = 1 /\ Len(e) >= 2
    <2>1. Joined(e) = Slashed(e[1], Joined(Tail(e))) /\ Joined(Tail(e)) \in Text
      BY <1>3, JoinedFirst, PathTail, JoinedIsText
    <2>2. ~registry_matches(r[1], Joined(e))
      BY <1>1, <2>1, PartMatchesNothingDeeper
    <2>3. QED
      BY <1>1, <1>3, <2>2, JoinedByLength DEF Begins
  <1>4. CASE Len(e) = 1 /\ Len(r) >= 2
    <2>1. Joined(r) = Slashed(r[1], Joined(Tail(r))) /\ Joined(Tail(r)) \in Text
      BY <1>4, JoinedFirst, PathTail, JoinedIsText
    <2>2. registry_matches(Joined(r), e[1]) <=> r[1] = e[1]
      BY <1>1, <2>1, PathMatchesPart
    <2>3. QED
      BY <1>1, <1>4, <2>2, JoinedByLength DEF Begins
  <1>5. QED
    BY <1>1, <1>2, <1>3, <1>4

LEMMA NextPartMatches ==
    ASSUME NEW r \in Paths, NEW e \in Paths, Len(r) >= 2, Len(e) >= 2
    PROVE  /\ registry_matches(Joined(r), Joined(e))
                <=> r[1] = e[1] /\ registry_matches(Joined(Tail(r)), Joined(Tail(e)))
           /\ Begins(r, e) <=> r[1] = e[1] /\ Begins(Tail(r), Tail(e))
  <1>1. r[1] \in Part /\ e[1] \in Part /\ Len(r) \in 1 .. 4 /\ Len(e) \in 1 .. 4
    BY PathFacts
  <1>2. /\ Joined(r) = Slashed(r[1], Joined(Tail(r))) /\ Joined(Tail(r)) \in Text
        /\ Joined(e) = Slashed(e[1], Joined(Tail(e))) /\ Joined(Tail(e)) \in Text
    BY JoinedFirst, PathTail, JoinedIsText
  <1>3. registry_matches(Joined(r), Joined(e))
            <=> r[1] = e[1] /\ registry_matches(Joined(Tail(r)), Joined(Tail(e)))
    BY <1>1, <1>2, PathMatchesPath
  <1>4. /\ Len(Tail(r)) = Len(r) - 1 /\ \A i \in 1 .. Len(r) - 1 : Tail(r)[i] = r[i + 1]
        /\ Len(Tail(e)) = Len(e) - 1 /\ \A i \in 1 .. Len(e) - 1 : Tail(e)[i] = e[i + 1]
    BY PathTail
  <1>5. ASSUME Begins(r, e)
        PROVE  r[1] = e[1] /\ Begins(Tail(r), Tail(e))
    <2>1. Len(e) <= Len(r) /\ \A i \in 1 .. Len(e) : r[i] = e[i]
      BY <1>5 DEF Begins
    <2>2. \A i \in 1 .. Len(e) - 1 : i + 1 \in 1 .. Len(e) /\ i \in 1 .. Len(r) - 1
      BY <1>1, <2>1
    <2>3. \A i \in 1 .. Len(e) - 1 : Tail(r)[i] = Tail(e)[i]
      BY <1>4, <2>1, <2>2
    <2>4. QED
      BY <1>1, <1>4, <2>1, <2>3 DEF Begins
  <1>6. ASSUME r[1] = e[1], Begins(Tail(r), Tail(e))
        PROVE  Begins(r, e)
    <2>1. Len(e) - 1 <= Len(r) - 1 /\ \A i \in 1 .. Len(e) - 1 : Tail(r)[i] = Tail(e)[i]
      BY <1>4, <1>6 DEF Begins
    <2>2. \A i \in 1 .. Len(e) - 1 : r[i + 1] = e[i + 1]
      BY <1>1, <1>4, <2>1
    <2>3. \A i \in 1 .. Len(e) : r[i] = e[i]
      <3> SUFFICES ASSUME NEW i \in 1 .. Len(e), i # 1 PROVE r[i] = e[i]
        BY <1>6
      <3>1. i - 1 \in 1 .. Len(e) - 1
        BY <1>1
      <3>2. r[(i - 1) + 1] = e[(i - 1) + 1]
        BY <2>2, <3>1
      <3>3. QED
        BY <1>1, <3>2
    <2>4. QED
      BY <1>1, <2>1, <2>3 DEF Begins
  <1>7. QED
    BY <1>3, <1>5, <1>6

LEMMA EntryMatchesBeginning ==
    ASSUME NEW r \in Paths, Len(r) <= 3, NEW e \in Paths
    PROVE  registry_matches(Joined(r), Joined(e)) <=> Begins(r, e)
  <1> DEFINE Agree(s, f) == registry_matches(Joined(s), Joined(f)) <=> Begins(s, f)
             Depth(s) == Len(s)
             Rest(s) == Tail(s)
  <1>1. ASSUME NEW s \in Paths, NEW f \in Paths, Depth(s) = 1 \/ Depth(f) = 1
        PROVE  Agree(s, f)
    BY <1>1, FirstPartMatches
  <1>2. ASSUME NEW s \in Paths, NEW f \in Paths, Depth(s) >= 2, Depth(f) >= 2, Agree(Rest(s), Rest(f))
        PROVE  Agree(s, f)
    BY <1>2, NextPartMatches
  <1>3. ASSUME NEW s \in Paths
        PROVE  Depth(s) \in 1 .. 4 /\ (Depth(s) >= 2 => Rest(s) \in Paths /\ Depth(Rest(s)) = Depth(s) - 1)
    BY PathFacts, PathTail
  <1> HIDE DEF Agree, Depth, Rest
  <1>4. ASSUME NEW s \in Paths, NEW f \in Paths, Depth(s) <= 2
        PROVE  Agree(s, f)
    <2>1. CASE Depth(s) = 1 \/ Depth(f) = 1
      BY <1>1, <2>1
    <2>2. CASE Depth(s) = 2 /\ Depth(f) >= 2
      <3>1. Rest(s) \in Paths /\ Rest(f) \in Paths /\ Depth(Rest(s)) = 1
        BY <1>3, <2>2
      <3>2. Agree(Rest(s), Rest(f))
        BY <1>1, <3>1
      <3>3. QED
        BY <1>2, <2>2, <3>2
    <2>3. QED
      BY <1>3, <1>4, <2>1, <2>2
  <1>5. ASSUME NEW s \in Paths, NEW f \in Paths, Depth(s) <= 3
        PROVE  Agree(s, f)
    <2>1. CASE Depth(s) <= 2
      BY <1>4, <2>1
    <2>2. CASE Depth(f) = 1
      BY <1>1, <2>2
    <2>3. CASE Depth(s) = 3 /\ Depth(f) >= 2
      <3>1. Rest(s) \in Paths /\ Rest(f) \in Paths /\ Depth(Rest(s)) <= 2
        BY <1>3, <2>3
      <3>2. Agree(Rest(s), Rest(f))
        BY <1>4, <3>1
      <3>3. QED
        BY <1>2, <2>3, <3>2
    <2>4. QED
      BY <1>3, <1>5, <2>1, <2>2, <2>3
  <1>6. Depth(r) <= 3
    BY DEF Depth
  <1>7. Agree(r, e)
    BY <1>5, <1>6
  <1>8. QED
    BY <1>7 DEF Agree

-------------------------------------------------------------------------------
(***************************************************************************)
(* Parsing.  A name is given with the place of its last slash, after which *)
(* there is neither a slash nor a colon; the tag, and the digest, follow.  *)
(***************************************************************************)
LEMMA SeparatedText ==
    ASSUME NEW c \in {":", "@"}, NEW t \in Text
    PROVE  /\ <<c>> \o t \in Text /\ Len(<<c>> \o t) = Len(t) + 1 /\ (<<c>> \o t)[1] = c
           /\ \A i \in 1 .. Len(t) : (<<c>> \o t)[i + 1] = t[i]
  <1>1. <<c>> \in Text /\ Len(<<c>>) = 1 /\ <<c>>[1] = c
    <2>1. c \in Characters
      BY DEF Characters
    <2>2. QED
      BY <2>1 DEF Text
  <1>2. /\ <<c>> \o t \in Text /\ Len(<<c>> \o t) = 1 + Len(t)
        /\ \A i \in 1 .. 1 : (<<c>> \o t)[i] = <<c>>[i]
        /\ \A i \in 1 .. Len(t) : (<<c>> \o t)[1 + i] = t[i]
    BY <1>1, JoinedText
  <1>3. Len(t) \in Nat
    BY Lengths
  <1>4. QED
    BY <1>1, <1>2, <1>3

(* The digest is cut off. *)
LEMMA DigestCut ==
    ASSUME NEW s \in Text, ~Contains(s, "@"), NEW digest, digest = {} \/ \E d \in Text : digest = {d}
    PROVE  LET image == s \o Written("@", digest) IN
           /\ Contains(image, "@") <=> digest # {}
           /\ (IF Contains(image, "@") THEN Upto(image, Find(image, "@")) ELSE image) = s
  <1> DEFINE image == s \o Written("@", digest)
  <1>1. Len(s) \in Nat /\ \A i \in 1 .. Len(s) : s[i] # "@"
    BY Lengths DEF Contains
  <1>2. CASE digest = {}
    <2>1. image = s
      BY <1>2, ConcatEmptySeq DEF Written, Text
    <2>2. QED
      BY <1>2, <2>1
  <1>3. ASSUME NEW d \in Text, digest = {d}
        PROVE  Contains(image, "@") /\ Upto(image, Find(image, "@")) = s
    <2>1. Written("@", digest) = <<"@">> \o d
      BY <1>3 DEF Written
    <2>2. /\ image \in Text /\ Len(image) = Len(s) + (Len(d) + 1) /\ image[Len(s) + 1] = "@"
          /\ \A i \in 1 .. Len(s) : image[i] = s[i]
      <3> DEFINE w == <<"@">> \o d
      <3>1. w \in Text /\ Len(w) = Len(d) + 1 /\ w[1] = "@"
        BY SeparatedText
      <3> HIDE DEF w
      <3>2. /\ s \o w \in Text /\ Len(s \o w) = Len(s) + Len(w)
            /\ \A i \in 1 .. Len(s) : (s \o w)[i] = s[i]
            /\ \A i \in 1 .. Len(w) : (s \o w)[Len(s) + i] = w[i]
        BY <3>1, JoinedText
      <3>3. 1 \in 1 .. Len(w)
        BY <3>1, Lengths
      <3>4. QED
        BY <2>1, <3>1, <3>2, <3>3 DEF w
    <2> HIDE DEF image
    <2>3. Len(d) \in Nat
      BY Lengths
    <2>4. Len(s) + 1 \in 1 .. Len(image) /\ \A i \in 1 .. (Len(s) + 1) - 1 : image[i] # "@"
      BY <1>1, <2>2, <2>3
    <2>5. Find(image, "@") = Len(s) + 1
      BY <2>2, <2>4, FindFirst
    <2>6. /\ Upto(image, Len(s) + 1) \in Text /\ Len(Upto(image, Len(s) + 1)) = Len(s)
          /\ \A i \in 1 .. Len(s) : Upto(image, Len(s) + 1)[i] = s[i]
      <3>1. /\ Upto(image, Len(s) + 1) \in Text
            /\ Len(Upto(image, Len(s) + 1)) = (Len(s) + 1) - 1
            /\ \A i \in 1 .. (Len(s) + 1) - 1 : Upto(image, Len(s) + 1)[i] = image[i]
        BY <2>2, <2>4, CutPoints
      <3>2. QED
        BY <1>1, <2>2, <3>1
    <2>7. Upto(image, Len(s) + 1) = s
      BY <2>6, SameText
    <2>8. QED
      BY <2>2, <2>4, <2>5, <2>7 DEF Contains
  <1>4. QED
    BY <1>2, <1>3

(* The tag is cut off. *)
LEMMA TagCut ==
    ASSUME NEW name \in Text, NEW k \in 0 .. Len(name), k = 0 \/ name[k] = "/",
           \A i \in k + 1 .. Len(name) : name[i] # "/" /\ name[i] # ":",
           NEW tag, tag = {} \/ \E t \in Text : tag = {t} /\ ~Contains(t, "/")
    PROVE  LET s == name \o Written(":", tag)
               colon == Find(From(s, RFind(s, "/")), ":")
           IN  /\ tag = {} => colon = 0 /\ s = name
               /\ tag # {} => /\ colon # 0
                              /\ Upto(s, RFind(s, "/") + colon) = name
                              /\ tag = {From(s, RFind(s, "/") + colon)}
  <1> DEFINE s == name \o Written(":", tag)
             colon == Find(From(s, RFind(s, "/")), ":")
             n == Len(name)
  <1>1. n \in Nat /\ k \in 0 .. n
    BY Lengths
  <1>2. ASSUME NEW text \in Text, n <= Len(text), \A i \in 1 .. n : text[i] = name[i],
               \A i \in n + 1 .. Len(text) : text[i] # "/"
        PROVE  RFind(text, "/") = k
    <2>1. Len(text) \in Nat
      BY Lengths
    <2>2. \A i \in k + 1 .. Len(text) : text[i] # "/"
      BY <1>1, <1>2, <2>1
    <2>3. CASE k = 0
      BY <2>2, <2>3, FindNone
    <2>4. CASE k # 0
      <3>1. k \in 1 .. Len(text) /\ text[k] = "/"
        BY <1>1, <1>2, <2>1, <2>4
      <3>2. QED
        BY <2>2, <3>1, FindLast
    <2>5. QED
      BY <2>3, <2>4
  <1>3. CASE tag = {}
    <2>1. s = name
      BY <1>3, ConcatEmptySeq DEF Written, Text
    <2>2. RFind(name, "/") = k
      BY <1>1, <1>2
    <2>3. From(name, k) \in Text /\ Len(From(name, k)) = n - k
          /\ \A i \in 1 .. n - k : From(name, k)[i] = name[k + i]
      BY <1>1, CutRest
    <2>4. \A i \in 1 .. n - k : k + i \in k + 1 .. n
      BY <1>1
    <2>5. \A i \in 1 .. Len(From(name, k)) : From(name, k)[i] # ":"
      BY <2>3, <2>4
    <2>6. Find(From(name, k), ":") = 0
      BY <2>3, <2>5, FindNone
    <2>7. QED
      BY <1>3, <2>1, <2>2, <2>6
  <1>4. ASSUME NEW t \in Text, tag = {t}, ~Contains(t, "/")
        PROVE  /\ colon # 0
               /\ Upto(s, RFind(s, "/") + colon) = name
               /\ tag = {From(s, RFind(s, "/") + colon)}
    <2>1. Written(":", tag) = <<":">> \o t
      BY <1>4 DEF Written
    <2>2. /\ s \in Text /\ Len(s) = n + (Len(t) + 1) /\ s[n + 1] = ":"
          /\ \A i \in 1 .. n : s[i] = name[i]
          /\ \A i \in 1 .. Len(t) : s[n + (i + 1)] = t[i]
      <3> DEFINE w == <<":">> \o t
      <3>1. /\ w \in Text /\ Len(w) = Len(t) + 1 /\ w[1] = ":"
            /\ \A i \in 1 .. Len(t) : w[i + 1] = t[i]
        BY SeparatedText
      <3> HIDE DEF w
      <3>2. /\ name \o w \in Text /\ Len(name \o w) = n + Len(w)
            /\ \A i \in 1 .. n : (name \o w)[i] = name[i]
            /\ \A i \in 1 .. Len(w) : (name \o w)[n + i] = w[i]
        BY <3>1, JoinedText
      <3>3. 1 \in 1 .. Len(w) /\ \A i \in 1 .. Len(t) : i + 1 \in 1 .. Len(w)
        BY <3>1, Lengths
      <3>4. QED
        BY <2>1, <3>1, <3>2, <3>3 DEF w
    <2> HIDE DEF s
    <2>3. Len(t) \in Nat /\ \A i \in 1 .. Len(t) : t[i] # "/"
      BY <1>4, Lengths DEF Contains
    <2>4. \A i \in n + 1 .. Len(s) : s[i] # "/"
      <3> SUFFICES ASSUME NEW i \in n + 1 .. Len(s), i # n + 1 PROVE s[i] # "/"
        BY <2>2
      <3>1. i - (n + 1) \in 1 .. Len(t) /\ i = n + ((i - (n + 1)) + 1)
        BY <1>1, <2>2, <2>3
      <3>2. s[n + ((i - (n + 1)) + 1)] = t[i - (n + 1)]
        BY <2>2, <3>1
      <3>3. QED
        BY <2>3, <3>1, <3>2
    <2>5. RFind(s, "/") = k
      BY <1>1, <1>2, <2>2, <2>3, <2>4
    <2> DEFINE rest == From(s, k)
               m == (n - k) + 1
    <2>6. /\ rest \in Text /\ Len(rest) = Len(s) - k
          /\ \A i \in 1 .. Len(s) - k : rest[i] = s[k + i]
      <3>1. k \in 0 .. Len(s)
        BY <1>1, <2>2, <2>3
      <3>2. QED
        BY <2>2, <3>1, CutRest
    <2> HIDE DEF rest
    <2>7. m \in 1 .. Len(rest) /\ rest[m] = ":" /\ \A i \in 1 .. m - 1 : rest[i] # ":"
      <3>1. m \in 1 .. Len(s) - k /\ k + m = n + 1
        BY <1>1, <2>2, <2>3
      <3>2. rest[m] = ":"
        BY <2>2, <2>6, <3>1
      <3>3. ASSUME NEW i \in 1 .. m - 1
            PROVE  rest[i] # ":"
        <4>1. k + i \in k + 1 .. n /\ k + i \in 1 .. n /\ i \in 1 .. Len(s) - k
          BY <1>1, <2>2, <2>3
        <4>2. rest[i] = name[k + i]
          BY <2>2, <2>6, <4>1
        <4>3. QED
          BY <4>1, <4>2
      <3>4. QED
        BY <2>6, <3>1, <3>2, <3>3
    <2>8. Find(rest, ":") = m
      <3> HIDE DEF m
      <3>1. QED
        BY <2>6, <2>7, FindFirst
    <2>9. colon = m /\ k + m = n + 1
      BY <1>1, <2>5, <2>8 DEF rest
    <2>10. n + 1 \in 1 .. Len(s)
      BY <1>1, <2>2, <2>3
    <2>11. Upto(s, n + 1) = name
      <3>1. /\ Upto(s, n + 1) \in Text /\ Len(Upto(s, n + 1)) = (n + 1) - 1
            /\ \A i \in 1 .. (n + 1) - 1 : Upto(s, n + 1)[i] = s[i]
        BY <2>2, <2>10, CutPoints
      <3>2. Len(Upto(s, n + 1)) = n /\ \A i \in 1 .. n : Upto(s, n + 1)[i] = name[i]
        BY <1>1, <2>2, <3>1
      <3>3. QED
        BY <3>1, <3>2, SameText
    <2>12. From(s, n + 1) = t
      <3>1. /\ From(s, n + 1) \in Text /\ Len(From(s, n + 1)) = Len(s) - (n + 1)
            /\ \A i \in 1 .. Len(s) - (n + 1) : From(s, n + 1)[i] = s[(n + 1) + i]
        <4>1. n + 1 \in 0 .. Len(s)
          BY <1>1, <2>10
        <4>2. QED
          BY <2>2, <4>1, CutRest
      <3>2. Len(From(s, n + 1)) = Len(t)
        BY <1>1, <2>2, <2>3, <3>1
      <3>3. \A i \in 1 .. Len(t) : From(s, n + 1)[i] = t[i]
        <4>1. \A i \in 1 .. Len(t) : i \in 1 .. Len(s) - (n + 1) /\ (n + 1) + i = n + (i + 1)
          BY <1>1, <2>2, <2>3
        <4>2. QED
          BY <2>2, <3>1, <4>1
      <3>4. QED
        BY <3>1, <3>2, <3>3, SameText
    <2>13. colon # 0
      BY <1>1, <2>9
    <2>14. QED
      BY <1>4, <2>5, <2>9, <2>11, <2>12, <2>13
  <1>5. QED
    BY <1>3, <1>4

(***************************************************************************)
(* What is read of a name.                                                 *)
(***************************************************************************)
LEMMA DockerHubIsPart == DockerHub \in Part /\ <<"library">> \in Part
  <1>1. DockerHub \in Text /\ <<"library">> \in Text
    <2>1. "docker" \in Characters /\ "." \in Characters /\ "io" \in Characters /\ "library" \in Characters
      BY DEF Characters
    <2>2. QED
      BY <2>1 DEF DockerHub, Text
  <1>2. ~Contains(DockerHub, "/")
    <2>1. Len(DockerHub) = 3 /\ DockerHub[1] # "/" /\ DockerHub[2] # "/" /\ DockerHub[3] # "/"
      BY DEF DockerHub
    <2>2. QED
      BY <2>1 DEF Contains
  <1>3. ~Contains(<<"library">>, "/")
    <2>1. Len(<<"library">>) = 1 /\ <<"library">>[1] # "/"
      OBVIOUS
    <2>2. QED
      BY <2>1 DEF Contains
  <1>4. QED
    BY <1>1, <1>2, <1>3 DEF Part

LEMMA NoneInSlashed ==
    ASSUME NEW a \in Text, NEW b \in Text, ~Contains(a, "@"), ~Contains(b, "@")
    PROVE  ~Contains(Slashed(a, b), "@")
  <1> DEFINE s == Slashed(a, b)
  <1>1. Len(a) \in Nat /\ Len(b) \in Nat
    BY Lengths
  <1>2. /\ Len(s) = Len(a) + 1 + Len(b) /\ s[Len(a) + 1] = "/"
        /\ \A i \in 1 .. Len(a) : s[i] = a[i]
        /\ \A i \in 1 .. Len(b) : s[Len(a) + 1 + i] = b[i]
    BY SlashedText
  <1> HIDE DEF s
  <1>3. ASSUME NEW i \in 1 .. Len(s)
        PROVE  s[i] # "@"
    <2>1. CASE i <= Len(a)
      BY <1>1, <1>2, <2>1 DEF Contains
    <2>2. CASE i = Len(a) + 1
      BY <1>2, <2>2
    <2>3. CASE i > Len(a) + 1
      <3> DEFINE j == i - (Len(a) + 1)
      <3>1. j \in 1 .. Len(b) /\ i = Len(a) + 1 + j
        BY <1>1, <1>2, <2>3
      <3> HIDE DEF j
      <3>2. s[Len(a) + 1 + j] = b[j]
        BY <1>2, <3>1
      <3>3. QED
        BY <3>1, <3>2 DEF Contains
    <2>4. QED
      BY <1>1, <1>2, <2>1, <2>2, <2>3
  <1>4. QED
    BY <1>3 DEF Contains, s

LEMMA NoneInJoined ==
    ASSUME NEW q \in Paths, \A i \in 1 .. Len(q) : ~Contains(q[i], "@")
    PROVE  ~Contains(Joined(q), "@")
  <1>1. \A i \in 1 .. Len(q) : q[i] \in Text
    BY PathFacts
  <1>2. CASE Len(q) = 1
    BY <1>2, JoinedByLength
  <1>3. CASE Len(q) = 2
    BY <1>1, <1>3, JoinedByLength, NoneInSlashed
  <1>4. CASE Len(q) = 3
    <2>1. Slashed(q[2], q[3]) \in Text /\ ~Contains(Slashed(q[2], q[3]), "@")
      BY <1>1, <1>4, SlashedText, NoneInSlashed
    <2>2. ~Contains(Slashed(q[1], Slashed(q[2], q[3])), "@")
      BY <1>1, <1>4, <2>1, NoneInSlashed
    <2>3. QED
      BY <1>4, <2>2, JoinedByLength
  <1>5. CASE Len(q) = 4
    <2>1. Slashed(q[3], q[4]) \in Text /\ ~Contains(Slashed(q[3], q[4]), "@")
      BY <1>1, <1>5, SlashedText, NoneInSlashed
    <2>2. /\ Slashed(q[2], Slashed(q[3], q[4])) \in Text
          /\ ~Contains(Slashed(q[2], Slashed(q[3], q[4])), "@")
      BY <1>1, <1>5, <2>1, SlashedText, NoneInSlashed
    <2>3. ~Contains(Slashed(q[1], Slashed(q[2], Slashed(q[3], q[4]))), "@")
      BY <1>1, <1>5, <2>2, NoneInSlashed
    <2>4. QED
      BY <1>5, <2>3, JoinedByLength
  <1>6. QED
    BY <1>2, <1>3, <1>4, <1>5, PathFacts

(* The first and the last slash of a text cut it in two. *)
LEMMA FirstSlash ==
    ASSUME NEW a \in Part, NEW x \in Text
    PROVE  /\ Find(Slashed(a, x), "/") = Len(a) + 1
           /\ Upto(Slashed(a, x), Len(a) + 1) = a
  <1> DEFINE s == Slashed(a, x)
  <1>1. Len(a) \in Nat /\ Len(x) \in Nat
    BY PartFacts, Lengths
  <1>2. /\ s \in Text /\ Len(s) = Len(a) + 1 + Len(x) /\ s[Len(a) + 1] = "/"
        /\ \A i \in 1 .. Len(a) : s[i] = a[i]
    BY PartFacts, SlashedText
  <1> HIDE DEF s
  <1>3. Len(a) + 1 \in 1 .. Len(s) /\ \A i \in 1 .. (Len(a) + 1) - 1 : s[i] # "/"
    BY <1>1, <1>2, PartFacts
  <1>4. Find(s, "/") = Len(a) + 1
    BY <1>2, <1>3, FindFirst
  <1>5. /\ Upto(s, Len(a) + 1) \in Text /\ Len(Upto(s, Len(a) + 1)) = (Len(a) + 1) - 1
        /\ \A i \in 1 .. (Len(a) + 1) - 1 : Upto(s, Len(a) + 1)[i] = s[i]
    BY <1>2, <1>3, CutPoints
  <1>6. Len(Upto(s, Len(a) + 1)) = Len(a) /\ \A i \in 1 .. Len(a) : Upto(s, Len(a) + 1)[i] = a[i]
    BY <1>1, <1>2, <1>5
  <1>7. Upto(s, Len(a) + 1) = a
    BY <1>5, <1>6, PartFacts, SameText
  <1>8. QED
    BY <1>4, <1>7 DEF s

LEMMA LastSlash ==
    ASSUME NEW x \in Text, NEW b \in Part
    PROVE  /\ RFind(Slashed(x, b), "/") = Len(x) + 1
           /\ Upto(Slashed(x, b), Len(x) + 1) = x
           /\ Len(x) + 1 \in 0 .. Len(Slashed(x, b)) /\ Slashed(x, b)[Len(x) + 1] = "/"
           /\ \A i \in Len(x) + 2 .. Len(Slashed(x, b)) :
                \E j \in 1 .. Len(b) : Slashed(x, b)[i] = b[j]
  <1> DEFINE s == Slashed(x, b)
  <1>1. Len(x) \in Nat /\ Len(b) \in Nat
    BY PartFacts, Lengths
  <1>2. /\ s \in Text /\ Len(s) = Len(x) + 1 + Len(b) /\ s[Len(x) + 1] = "/"
        /\ \A i \in 1 .. Len(x) : s[i] = x[i]
        /\ \A i \in 1 .. Len(b) : s[Len(x) + 1 + i] = b[i]
    BY PartFacts, SlashedText
  <1> HIDE DEF s
  <1>3. ASSUME NEW i \in Len(x) + 2 .. Len(s)
        PROVE  \E j \in 1 .. Len(b) : s[i] = b[j]
    <2> DEFINE j == i - (Len(x) + 1)
    <2>1. j \in 1 .. Len(b) /\ i = Len(x) + 1 + j
      BY <1>1, <1>2
    <2> HIDE DEF j
    <2>2. s[Len(x) + 1 + j] = b[j]
      BY <1>2, <2>1
    <2>3. QED
      BY <2>1, <2>2
  <1>4. /\ Len(x) + 1 \in 1 .. Len(s) /\ Len(x) + 1 \in 0 .. Len(s)
        /\ \A i \in (Len(x) + 1) + 1 .. Len(s) : s[i] # "/"
    <2>1. \A i \in Len(x) + 2 .. Len(s) : s[i] # "/"
      BY <1>3, PartFacts
    <2>2. QED
      BY <1>1, <1>2, <2>1
  <1>5. RFind(s, "/") = Len(x) + 1
    BY <1>2, <1>4, FindLast
  <1>6. /\ Upto(s, Len(x) + 1) \in Text /\ Len(Upto(s, Len(x) + 1)) = (Len(x) + 1) - 1
        /\ \A i \in 1 .. (Len(x) + 1) - 1 : Upto(s, Len(x) + 1)[i] = s[i]
    BY <1>2, <1>4, CutPoints
  <1>7. Len(Upto(s, Len(x) + 1)) = Len(x) /\ \A i \in 1 .. Len(x) : Upto(s, Len(x) + 1)[i] = x[i]
    BY <1>1, <1>2, <1>6
  <1>8. Upto(s, Len(x) + 1) = x
    BY <1>6, <1>7, SameText
  <1>9. QED
    BY <1>2, <1>3, <1>4, <1>5, <1>8 DEF s

LEMMA RegistryOfPath ==
    ASSUME NEW q \in Paths
    PROVE  extract_registry(Joined(q)) =
            IF Len(q) = 1 THEN Joined(<<DockerHub, <<"library">>>>)
            ELSE IF HasExplicitRegistry(q[1]) THEN Joined(Directory(q))
            ELSE Joined(<<DockerHub, q[1]>>)
  <1>1. q[1] \in Part /\ Len(q) \in 1 .. 4
    BY PathFacts
  <1>2. \A b \in Part : Joined(<<DockerHub, b>>) = DockerHub \o <<"/">> \o b
    <2> SUFFICES ASSUME NEW b \in Part
                 PROVE  Joined(<<DockerHub, b>>) = DockerHub \o <<"/">> \o b
      OBVIOUS
    <2>1. <<DockerHub, b>> \in Paths /\ Len(<<DockerHub, b>>) = 2
      BY DockerHubIsPart DEF Paths
    <2>2. Joined(<<DockerHub, b>>) = Slashed(DockerHub, b)
      BY <2>1, JoinedByLength
    <2>3. QED
      BY <2>2 DEF Slashed
  <1>3. CASE Len(q) = 1
    <2>1. Joined(q) = q[1]
      BY <1>3, JoinedByLength
    <2>2. Find(q[1], "/") = 0
      BY <1>1, PartFacts, FindNone
    <2>3. extract_registry(q[1]) = DockerHub \o <<"/", "library">>
      BY <2>2 DEF extract_registry
    <2>4. DockerHub \o <<"/", "library">> = DockerHub \o <<"/">> \o <<"library">>
      BY DEF DockerHub
    <2>5. Joined(<<DockerHub, <<"library">>>>) = DockerHub \o <<"/">> \o <<"library">>
      BY <1>2, DockerHubIsPart
    <2>6. QED
      BY <1>3, <2>1, <2>3, <2>4, <2>5
  <1>4. ASSUME Len(q) >= 2
        PROVE  Len(q) # 1
    <2> DEFINE n == Len(q)
    <2>1. n \in 1 .. 4 /\ n >= 2
      BY <1>1, <1>4
    <2> HIDE DEF n
    <2>2. n # 1
      BY <2>1
    <2>3. QED
      BY <2>2, Zenon DEF n
  <1>5. CASE Len(q) >= 2
    <2> DEFINE name == Joined(q)
               first == Upto(name, Find(name, "/"))
    <2>1. Joined(q) = Slashed(q[1], Joined(Tail(q))) /\ Joined(Tail(q)) \in Text
      BY <1>5, JoinedFirst, PathTail, JoinedIsText
    <2>2. Find(name, "/") = Len(q[1]) + 1 /\ first = q[1] /\ Find(name, "/") # 0
      BY <1>1, <2>1, FirstSlash, PartFacts
    <2>3. /\ Joined(q) = Slashed(Joined(Directory(q)), q[Len(q)])
          /\ Joined(Directory(q)) \in Text /\ q[Len(q)] \in Part
      BY <1>1, <1>5, JoinedLast, DirectoryFacts, JoinedIsText, PathFacts
    <2>4. Upto(name, RFind(name, "/")) = Joined(Directory(q))
      BY <2>3, LastSlash
    <2> HIDE DEF name
    <2>5. extract_registry(name) =
            IF HasExplicitRegistry(q[1]) THEN Joined(Directory(q)) ELSE DockerHub \o <<"/">> \o q[1]
      BY <2>2, <2>4 DEF extract_registry
    <2>6. Joined(<<DockerHub, q[1]>>) = DockerHub \o <<"/">> \o q[1] /\ Len(q) # 1
      <3>1. q[1] \in Part
        BY <1>1
      <3>2. Len(q) # 1
        BY <1>4, <1>5
      <3>3. Joined(<<DockerHub, q[1]>>) = DockerHub \o <<"/">> \o q[1]
        BY <1>2, <3>1, Zenon
      <3>4. QED
        BY <3>2, <3>3
    <2>7. CASE HasExplicitRegistry(q[1])
      <3>1. extract_registry(name) = Joined(Directory(q))
        BY <2>5, <2>7
      <3>2. QED
        BY <2>6, <2>7, <3>1 DEF name
    <2>8. CASE ~HasExplicitRegistry(q[1])
      <3>1. extract_registry(name) = Joined(<<DockerHub, q[1]>>)
        BY <2>5, <2>6, <2>8
      <3>2. QED
        BY <2>6, <2>8, <3>1 DEF name
    <2>9. QED
      BY <2>7, <2>8
  <1>6. QED
    BY <1>1, <1>3, <1>5

(* The tag that is read, and whether there is a digest. *)
TagRead(ref) == IF ref.tag = {} THEN <<>> ELSE CHOOSE t \in ref.tag : TRUE

LEMMA PathParsed ==
    ASSUME NEW q \in Paths,
           \A i \in 1 .. Len(q) : ~Contains(q[i], "@"), ~Contains(q[Len(q)], ":"),
           NEW tag, tag = {} \/ \E t \in Tags : tag = {t},
           NEW digest, digest = {} \/ \E d \in Digests : digest = {d}
    PROVE  parse_image_ref(Joined(q) \o Written(":", tag) \o Written("@", digest)) =
            [registry |-> extract_registry(Joined(q)),
             tag |-> IF tag = {} THEN <<>> ELSE CHOOSE t \in tag : TRUE,
             has_digest |-> digest # {}]
  <1> DEFINE name == Joined(q)
             s == name \o Written(":", tag)
             image == s \o Written("@", digest)
             last_slash == RFind(s, "/")
             colon == Find(From(s, last_slash), ":")
  <1>strings. \A t \in Seq(STRING) : t \in Text
    BY SeqMonotonic DEF Text, Characters
  <1>1. name \in Text /\ ~Contains(name, "@") /\ Len(q) \in 1 .. 4
    BY JoinedIsText, NoneInJoined, PathFacts
  <1>2. \E k \in 0 .. Len(name) :
            /\ k = 0 \/ name[k] = "/"
            /\ \A i \in k + 1 .. Len(name) : name[i] # "/" /\ name[i] # ":"
    <2>1. q[Len(q)] \in Part /\ \A i \in 1 .. Len(q[Len(q)]) : q[Len(q)][i] # ":"
      BY <1>1, PathFacts DEF Contains
    <2>2. CASE Len(q) = 1
      <3>1. name = q[1]
        BY <2>2, JoinedByLength
      <3>2. Len(name) \in Nat /\ \A i \in 1 .. Len(name) : name[i] # "/" /\ name[i] # ":"
        BY <2>1, <2>2, <3>1, PartFacts
      <3>3. 0 \in 0 .. Len(name) /\ \A i \in 0 + 1 .. Len(name) : name[i] # "/" /\ name[i] # ":"
        BY <3>2
      <3> HIDE DEF name
      <3>4. QED
        BY <3>3
    <2>3. CASE Len(q) >= 2
      <3> DEFINE dir == Joined(Directory(q))
                 k == Len(dir) + 1
      <3>1. dir \in Text /\ name = Slashed(dir, q[Len(q)])
        BY <2>3, JoinedLast, DirectoryFacts, JoinedIsText
      <3> HIDE DEF name, dir
      <3>2. /\ k \in 0 .. Len(name) /\ name[k] = "/"
            /\ \A i \in Len(dir) + 2 .. Len(name) : \E j \in 1 .. Len(q[Len(q)]) : name[i] = q[Len(q)][j]
        BY <2>1, <3>1, LastSlash
      <3>3. \A i \in Len(dir) + 2 .. Len(name) : name[i] # "/" /\ name[i] # ":"
        BY <2>1, <3>2, PartFacts
      <3>4. k + 1 = Len(dir) + 2
        BY <3>1, Lengths
      <3> HIDE DEF k
      <3>5. QED
        BY <3>2, <3>3, <3>4
    <2>4. QED
      BY <1>1, <2>2, <2>3
  <1> HIDE DEF name
  <1>3. s \in Text /\ ~Contains(s, "@")
    <2>1. CASE tag = {}
      <3>1. s = name
        BY <1>1, <2>1, ConcatEmptySeq DEF Written, Text
      <3>2. QED
        BY <1>1, <3>1
    <2>2. ASSUME NEW t \in Tags, tag = {t}
          PROVE  s \in Text /\ ~Contains(s, "@")
      <3>1. t \in Text /\ Len(t) \in Nat /\ \A i \in 1 .. Len(t) : t[i] # "@"
        BY <1>strings, PartsAssumption, Lengths DEF Contains
      <3> DEFINE w == <<":">> \o t
      <3>2. /\ w \in Text /\ Len(w) = Len(t) + 1 /\ w[1] = ":"
            /\ \A i \in 1 .. Len(t) : w[i + 1] = t[i]
        BY <3>1, SeparatedText
      <3>3. s = name \o w
        BY <2>2 DEF Written
      <3> HIDE DEF w, s
      <3>4. \A i \in 1 .. Len(w) : w[i] # "@"
        <4> SUFFICES ASSUME NEW i \in 1 .. Len(w), i # 1 PROVE w[i] # "@"
          BY <3>2
        <4>1. i - 1 \in 1 .. Len(t) /\ i = (i - 1) + 1
          BY <3>1, <3>2
        <4>2. w[(i - 1) + 1] = t[i - 1]
          BY <3>2, <4>1
        <4>3. QED
          BY <3>1, <4>1, <4>2
      <3>5. /\ s \in Text /\ Len(s) = Len(name) + Len(w)
            /\ \A i \in 1 .. Len(name) : s[i] = name[i]
            /\ \A i \in 1 .. Len(w) : s[Len(name) + i] = w[i]
        BY <1>1, <3>2, <3>3, JoinedText
      <3>6. Len(name) \in Nat /\ Len(w) \in Nat
        BY <1>1, <3>2, Lengths
      <3>7. ASSUME NEW i \in 1 .. Len(s)
            PROVE  s[i] # "@"
        <4>1. CASE i <= Len(name)
          BY <1>1, <3>5, <3>6, <4>1 DEF Contains
        <4>2. CASE i > Len(name)
          <5>1. i - Len(name) \in 1 .. Len(w) /\ i = Len(name) + (i - Len(name))
            BY <3>5, <3>6, <4>2
          <5>2. s[Len(name) + (i - Len(name))] = w[i - Len(name)]
            BY <3>5, <5>1
          <5>3. QED
            BY <3>4, <5>1, <5>2
        <4>3. QED
          BY <3>6, <4>1, <4>2
      <3>8. QED
        BY <3>5, <3>7 DEF Contains
    <2>3. QED
      BY <2>1, <2>2
  <1>4. /\ Contains(image, "@") <=> digest # {}
        /\ (IF Contains(image, "@") THEN Upto(image, Find(image, "@")) ELSE image) = s
    <2>1. digest = {} \/ \E d \in Text : digest = {d}
      BY <1>strings, PartsAssumption
    <2> HIDE DEF s
    <2>2. QED
      BY <1>3, <2>1, DigestCut
  <1>5. /\ tag = {} => colon = 0 /\ s = name
        /\ tag # {} => /\ colon # 0
                       /\ Upto(s, last_slash + colon) = name
                       /\ tag = {From(s, last_slash + colon)}
    <2>1. tag = {} \/ \E t \in Text : tag = {t} /\ ~Contains(t, "/")
      BY <1>strings, PartsAssumption
    <2>2. PICK k \in 0 .. Len(name) :
            /\ k = 0 \/ name[k] = "/"
            /\ \A i \in k + 1 .. Len(name) : name[i] # "/" /\ name[i] # ":"
      BY <1>2
    <2>3. QED
      BY <1>1, <2>1, <2>2, TagCut
  <1> HIDE DEF s, image, colon, last_slash
  <1> DEFINE found == IF colon = 0 THEN <<>> ELSE From(s, last_slash + colon)
             named == IF colon = 0 THEN s ELSE Upto(s, last_slash + colon)
  <1>6. named = name /\ found = (IF tag = {} THEN <<>> ELSE CHOOSE t \in tag : TRUE)
    BY <1>5
  <1>7. parse_image_ref(image) =
            [registry |-> extract_registry(named), tag |-> found, has_digest |-> Contains(image, "@")]
    <2>1. parse_image_ref(image) =
            LET no_digest == IF Contains(image, "@") THEN Upto(image, Find(image, "@")) ELSE image
                slash == RFind(no_digest, "/")
                sep == Find(From(no_digest, slash), ":")
            IN  [registry |-> extract_registry(IF sep = 0 THEN no_digest
                                               ELSE Upto(no_digest, slash + sep)),
                 tag |-> IF sep = 0 THEN <<>> ELSE From(no_digest, slash + sep),
                 has_digest |-> Contains(image, "@")]
      BY Zenon DEF parse_image_ref
    <2>2. QED
      BY <1>4, <2>1, Zenon DEF colon, last_slash
  <1>8. Contains(image, "@") = (digest # {})
    BY <1>4 DEF Contains
  <1>9. parse_image_ref(image) =
            [registry |-> extract_registry(name),
             tag |-> IF tag = {} THEN <<>> ELSE CHOOSE t \in tag : TRUE,
             has_digest |-> digest # {}]
    BY <1>6, <1>7, <1>8, Zenon
  <1>10. QED
    BY <1>9, Zenon DEF name, s, image

-------------------------------------------------------------------------------
(***************************************************************************)
(* References.  What is named is read as a path, and the registry that is  *)
(* found for it is a beginning of the full name of the image: all of it    *)
(* but the last component, unless the image is an official one of a        *)
(* written out Docker Hub.                                                 *)
(***************************************************************************)
LEMMA PathOfComponents ==
    ASSUME NEW ref \in References
    PROVE  /\ ref.path \in Paths /\ Len(ref.path) \in 1 .. 3
           /\ \A i \in 1 .. Len(ref.path) : /\ ref.path[i] \in Components
                                            /\ ~Contains(ref.path[i], ":")
                                            /\ ~Contains(ref.path[i], "@")
  <1>1. PICK k \in 1 .. 3 : ref.path \in [1 .. k -> Components]
    BY DEF References, PathsUpTo
  <1>2. ASSUME NEW c \in Components
        PROVE  c \in Part /\ ~Contains(c, ":") /\ ~Contains(c, "@")
    BY PartsAssumption, SeqMonotonic DEF Part, Text, Characters
  <1> DEFINE path == ref.path
  <1>3. path \in Seq(Part) /\ Len(path) = k /\ \A i \in 1 .. k : path[i] \in Components
    BY <1>1, <1>2
  <1> HIDE DEF path
  <1>4. Len(path) \in 1 .. 3 /\ Len(path) \in 1 .. 4
    BY <1>3
  <1>5. path \in Paths
    BY <1>3, <1>4 DEF Paths
  <1>6. \A i \in 1 .. Len(path) : /\ path[i] \in Components
                                 /\ ~Contains(path[i], ":") /\ ~Contains(path[i], "@")
    BY <1>2, <1>3
  <1>7. QED
    BY <1>4, <1>5, <1>6 DEF path

LEMMA PartBefore ==
    ASSUME NEW p \in Part, NEW q \in Seq(Part)
    PROVE  /\ <<p>> \o q \in Seq(Part) /\ Len(<<p>> \o q) = Len(q) + 1
           /\ (<<p>> \o q)[1] = p /\ \A i \in 1 .. Len(q) : (<<p>> \o q)[i + 1] = q[i]
  <1>1. <<p>> \in Seq(Part) /\ Len(<<p>>) = 1 /\ <<p>>[1] = p
    OBVIOUS
  <1>2. /\ <<p>> \o q \in Seq(Part) /\ Len(<<p>> \o q) = 1 + Len(q)
        /\ \A i \in 1 .. 1 + Len(q) : (<<p>> \o q)[i] = IF i <= 1 THEN <<p>>[i] ELSE q[i - 1]
    BY <1>1, ConcatProperties
  <1>3. Len(q) \in Nat
    OBVIOUS
  <1> DEFINE whole == <<p>> \o q
  <1> HIDE DEF whole
  <1>4. /\ whole \in Seq(Part) /\ Len(whole) = 1 + Len(q)
        /\ \A i \in 1 .. 1 + Len(q) : whole[i] = IF i <= 1 THEN p ELSE q[i - 1]
    BY <1>1, <1>2 DEF whole
  <1>5. ASSUME NEW i \in 1 .. Len(q)
        PROVE  whole[i + 1] = q[i]
    <2>1. i + 1 \in 1 .. 1 + Len(q) /\ ~(i + 1 <= 1) /\ (i + 1) - 1 = i
      BY <1>3
    <2>2. QED
      BY <1>4, <2>1
  <1>6. whole[1] = p /\ Len(whole) = Len(q) + 1
    BY <1>3, <1>4
  <1>7. QED
    BY <1>4, <1>5, <1>6 DEF whole

LEMMA HostFacts ==
    ASSUME NEW h \in Hosts
    PROVE  h \in Part /\ HasExplicitRegistry(h) /\ ~Contains(h, "@") /\ Optional({h}) = <<h>>
  <1>1. h \in Part
    BY PartsAssumption, SeqMonotonic DEF Part, Text, Characters
  <1>2. QED
    BY <1>1, PartsAssumption DEF Optional

(* The path that is written: that of the components, below the host if there is one. *)
Name(ref) == Optional(ref.host) \o ref.path

LEMMA NameIsPath ==
    ASSUME NEW ref \in References
    PROVE  /\ Name(ref) \in Paths
           /\ \A i \in 1 .. Len(Name(ref)) : ~Contains(Name(ref)[i], "@")
           /\ ~Contains(Name(ref)[Len(Name(ref))], ":")
           /\ ref.host = {} => Name(ref) = ref.path
           /\ \A h \in Hosts : ref.host = {h} =>
                /\ Name(ref) = <<h>> \o ref.path /\ Len(Name(ref)) = Len(ref.path) + 1
                /\ Name(ref)[1] = h
                /\ \A i \in 1 .. Len(ref.path) : Name(ref)[i + 1] = ref.path[i]
  <1>1. ref.path \in Seq(Part) /\ Len(ref.path) \in 1 .. 3
    BY PathOfComponents DEF Paths
  <1>2. CASE ref.host = {}
    <2>1. Name(ref) = ref.path
      BY <1>1, <1>2, ConcatEmptySeq DEF Name, Optional
    <2>2. ASSUME NEW h, ref.host = {h}
          PROVE  FALSE
      BY <1>2, <2>2
    <2> DEFINE path == ref.path
               n == Len(path)
    <2>3. /\ path \in Paths /\ n \in 1 .. 3
          /\ \A i \in 1 .. n : ~Contains(path[i], ":") /\ ~Contains(path[i], "@")
      BY PathOfComponents
    <2> HIDE DEF path, n
    <2>4. \A i \in 1 .. n : ~Contains(path[i], "@")
      BY <2>3
    <2>5. ~Contains(path[n], ":")
      <3>1. n \in 1 .. n
        BY <2>3
      <3>2. QED
        BY <2>3, <3>1
    <2>6. Name(ref) = path
      BY <2>1 DEF path
    <2>7. QED
      BY <2>1, <2>2, <2>3, <2>4, <2>5, <2>6 DEF n
  <1>3. ASSUME NEW h \in Hosts, ref.host = {h}
        PROVE  /\ Name(ref) = <<h>> \o ref.path /\ Name(ref) \in Paths
               /\ Len(Name(ref)) = Len(ref.path) + 1 /\ Name(ref)[1] = h
               /\ \A i \in 1 .. Len(ref.path) : Name(ref)[i + 1] = ref.path[i]
    <2>1. Name(ref) = <<h>> \o ref.path
      BY <1>3, HostFacts DEF Name
    <2> DEFINE path == ref.path
               name == <<h>> \o path
               n == Len(path)
    <2>2. path \in Seq(Part) /\ n \in 1 .. 3 /\ h \in Part
      BY <1>1, HostFacts
    <2> HIDE DEF path
    <2>3. /\ name \in Seq(Part) /\ Len(name) = n + 1 /\ name[1] = h
          /\ \A i \in 1 .. n : name[i + 1] = path[i]
      BY <2>2, PartBefore
    <2> HIDE DEF name, n
    <2>4. Len(name) \in 1 .. 4
      BY <2>2, <2>3
    <2>5. name \in Paths
      BY <2>3, <2>4 DEF Paths
    <2>6. Name(ref) = name
      BY <2>1 DEF name, path
    <2>7. QED
      BY <2>1, <2>3, <2>5, <2>6 DEF n, path
  <1>4. ASSUME NEW h \in Hosts, ref.host = {h}
        PROVE  /\ \A i \in 1 .. Len(Name(ref)) : ~Contains(Name(ref)[i], "@")
               /\ ~Contains(Name(ref)[Len(Name(ref))], ":")
    <2> DEFINE n == Len(Name(ref))
               m == Len(ref.path)
               name == Name(ref)
    <2>1. n = m + 1 /\ m \in 1 .. 3 /\ name[1] = h /\ \A i \in 1 .. m : name[i + 1] = ref.path[i]
      BY <1>1, <1>3, <1>4
    <2>2. \A i \in 1 .. m : ~Contains(ref.path[i], ":") /\ ~Contains(ref.path[i], "@")
      BY PathOfComponents
    <2> HIDE DEF n, m, name
    <2>3. ASSUME NEW i \in 1 .. n
          PROVE  ~Contains(name[i], "@")
      <3>1. CASE i = 1
        BY <1>4, <2>1, <3>1, HostFacts
      <3>2. CASE i > 1
        <4>1. i - 1 \in 1 .. m /\ i = (i - 1) + 1
          BY <2>1, <3>2
        <4>2. name[(i - 1) + 1] = ref.path[i - 1]
          BY <2>1, <4>1
        <4>3. QED
          BY <2>2, <4>1, <4>2
      <3>3. QED
        BY <2>1, <3>1, <3>2
    <2>4. name[n] = ref.path[m] /\ m \in 1 .. m
      BY <2>1
    <2>5. QED
      BY <2>2, <2>3, <2>4 DEF n, name
  <1>5. ref.host = {} \/ \E h \in Hosts : ref.host = {h}
    BY DEF References, Option
  <1>6. CASE \E h \in Hosts : ref.host = {h}
    <2>1. ref.host # {}
      BY <1>6
    <2>2. QED
      BY <1>3, <1>4, <1>6, <2>1
  <1>7. QED
    BY <1>2, <1>5, <1>6

(* The full name of an image: its host, "library" if it is an official one, its path. *)
HostNamed(ref) == IF ref.host = {} THEN DockerHub ELSE CHOOSE h \in ref.host : TRUE

LEMMA HostIsNamed ==
    ASSUME NEW ref \in References
    PROVE  /\ HostNamed(ref) \in Part
           /\ (IF ref.host = {} THEN <<DockerHub>> ELSE Optional(ref.host)) = <<HostNamed(ref)>>
           /\ Official(ref) => HostNamed(ref) = DockerHub
  <1>1. ref.host = {} \/ \E h \in Hosts : ref.host = {h}
    BY DEF References, Option
  <1>2. HostNamed(ref) \in Part
    BY <1>1, HostFacts, DockerHubIsPart DEF HostNamed
  <1>3. (IF ref.host = {} THEN <<DockerHub>> ELSE Optional(ref.host)) = <<HostNamed(ref)>>
    <2>1. CASE ref.host = {}
      BY <2>1 DEF HostNamed
    <2>2. CASE ref.host # {}
      <3>1. Optional(ref.host) = <<CHOOSE h \in ref.host : TRUE>>
        BY <2>2, Zenon DEF Optional
      <3>2. HostNamed(ref) = CHOOSE h \in ref.host : TRUE
        BY <2>2, Zenon DEF HostNamed
      <3>3. Optional(ref.host) = <<HostNamed(ref)>>
        BY <3>1, <3>2, Zenon
      <3>4. QED
        BY <2>2, <3>3
    <2>3. QED
      BY <2>1, <2>2
  <1>4. ASSUME Official(ref)
        PROVE  HostNamed(ref) = DockerHub
    BY <1>4 DEF HostNamed, Official
  <1>5. QED
    BY <1>2, <1>3, <1>4

LEMMA OfficialName ==
    ASSUME NEW ref \in References, Official(ref)
    PROVE  /\ FullName(ref) \in Seq(Part) /\ Len(FullName(ref)) = 3
           /\ FullName(ref)[1] = DockerHub /\ FullName(ref)[2] = <<"library">>
  <1> DEFINE path == ref.path
             library == <<"library">>
             below == <<library>> \o path
             full == <<DockerHub>> \o below
  <1>1. path \in Seq(Part) /\ Len(path) = 1 /\ library \in Part /\ DockerHub \in Part
    BY PathOfComponents, DockerHubIsPart DEF Official, Paths
  <1>2. FullName(ref) = (<<DockerHub>> \o <<library>>) \o path
    BY HostIsNamed DEF FullName
  <1> HIDE DEF path, library
  <1>3. <<DockerHub>> \in Seq(Part) /\ <<library>> \in Seq(Part)
    BY <1>1
  <1>4. FullName(ref) = full
    BY <1>1, <1>2, <1>3, ConcatAssociative
  <1>5. below \in Seq(Part) /\ Len(below) = 2 /\ below[1] = library
    <2>1. below \in Seq(Part) /\ Len(below) = Len(path) + 1 /\ below[1] = library
      BY <1>1, PartBefore
    <2>2. QED
      BY <1>1, <2>1
  <1> HIDE DEF below
  <1>6. full \in Seq(Part) /\ Len(full) = 3 /\ full[1] = DockerHub /\ full[2] = library
    <2>1. /\ full \in Seq(Part) /\ Len(full) = Len(below) + 1 /\ full[1] = DockerHub
          /\ \A i \in 1 .. Len(below) : full[i + 1] = below[i]
      BY <1>1, <1>5, PartBefore
    <2> HIDE DEF full
    <2>2. full[1 + 1] = below[1]
      BY <1>5, <2>1
    <2>3. QED
      BY <1>5, <2>1, <2>2
  <1> HIDE DEF full
  <1>7. QED
    BY <1>4, <1>6 DEF library

LEMMA OtherName ==
    ASSUME NEW ref \in References, ~Official(ref)
    PROVE  /\ FullName(ref) = <<HostNamed(ref)>> \o ref.path
           /\ FullName(ref) \in Seq(Part) /\ Len(FullName(ref)) = Len(ref.path) + 1
           /\ FullName(ref)[1] = HostNamed(ref)
           /\ \A i \in 1 .. Len(ref.path) : FullName(ref)[i + 1] = ref.path[i]
  <1> DEFINE path == ref.path
             host == HostNamed(ref)
  <1>1. path \in Seq(Part) /\ host \in Part
    BY PathOfComponents, HostIsNamed DEF Paths
  <1>2. FullName(ref) = (<<host>> \o <<>>) \o path
    BY HostIsNamed DEF FullName
  <1> HIDE DEF path, host
  <1>3. <<host>> \in Seq(Part)
    BY <1>1
  <1>4. <<host>> \o <<>> = <<host>>
    BY <1>3, ConcatEmptySeq
  <1>5. FullName(ref) = <<host>> \o path
    BY <1>2, <1>4
  <1>6. /\ <<host>> \o path \in Seq(Part) /\ Len(<<host>> \o path) = Len(path) + 1
        /\ (<<host>> \o path)[1] = host
        /\ \A i \in 1 .. Len(path) : (<<host>> \o path)[i + 1] = path[i]
    BY <1>1, PartBefore
  <1>7. QED
    BY <1>5, <1>6 DEF host, path

(* r is a beginning of the full name: all of it but the component of the image. *)
RegistryFound(ref, r) ==
    /\ extract_registry(Joined(Name(ref))) = Joined(r)
    /\ r \in Paths /\ Len(r) \in 1 .. 3 /\ Len(r) < Len(FullName(ref))
    /\ \A i \in 1 .. Len(r) : r[i] = FullName(ref)[i]
    /\ (Official(ref) /\ ref.host # {}) \/ Len(r) = Len(FullName(ref)) - 1

LEMMA TwoParts ==
    ASSUME NEW a \in Part, NEW b \in Part
    PROVE  <<a, b>> \in Paths /\ Len(<<a, b>>) = 2 /\ <<a, b>>[1] = a /\ <<a, b>>[2] = b
  BY DEF Paths

LEMMA RegistryOfOfficial ==
    ASSUME NEW ref \in References, ref.host = {}, Len(ref.path) = 1
    PROVE  \E r : RegistryFound(ref, r)
  <1> DEFINE r == <<DockerHub, <<"library">>>>
             full == FullName(ref)
  <1>1. Name(ref) = ref.path /\ Name(ref) \in Paths
    BY NameIsPath
  <1>2. extract_registry(Joined(Name(ref))) = Joined(r)
    BY <1>1, RegistryOfPath
  <1>3. full \in Seq(Part) /\ Len(full) = 3 /\ full[1] = DockerHub /\ full[2] = <<"library">>
    BY OfficialName DEF Official
  <1>4. r \in Paths /\ Len(r) = 2 /\ r[1] = DockerHub /\ r[2] = <<"library">>
    BY DockerHubIsPart, TwoParts
  <1> HIDE DEF r, full
  <1>5. \A i \in 1 .. Len(r) : r[i] = full[i]
    BY <1>3, <1>4
  <1>6. Len(r) \in 1 .. 3 /\ Len(r) < Len(full) /\ Len(r) = Len(full) - 1
    BY <1>3, <1>4
  <1>7. RegistryFound(ref, r)
    BY <1>2, <1>4, <1>5, <1>6 DEF RegistryFound, full
  <1>8. QED
    BY <1>7

LEMMA RegistryOfHub ==
    ASSUME NEW ref \in References, IsReference(ref), ref.host = {}, Len(ref.path) # 1
    PROVE  \E r : RegistryFound(ref, r)
  <1> DEFINE path == ref.path
             r == <<DockerHub, path[1]>>
             full == FullName(ref)
  <1>1. Name(ref) = path /\ Name(ref) \in Paths
    BY NameIsPath
  <1>2. Len(path) = 2 /\ ~HasExplicitRegistry(path[1]) /\ path[1] \in Part
    <2>1. Len(path) \in 1 .. 3 /\ path \in Paths
      BY PathOfComponents
    <2>2. Len(path) <= 2 /\ ~HasExplicitRegistry(path[1])
      BY DEF IsReference
    <2> HIDE DEF path
    <2>3. path[1] \in Part
      BY <2>1, PathFacts
    <2>4. Len(path) # 1
      BY DEF path
    <2>5. QED
      BY <2>1, <2>2, <2>3, <2>4
  <1>3. extract_registry(Joined(Name(ref))) = Joined(r)
    BY <1>1, <1>2, RegistryOfPath
  <1>4. r \in Paths /\ Len(r) = 2 /\ r[1] = DockerHub /\ r[2] = path[1]
    BY <1>2, DockerHubIsPart, TwoParts
  <1>5. /\ Len(full) = Len(path) + 1 /\ full[1] = DockerHub
        /\ \A i \in 1 .. Len(path) : full[i + 1] = path[i]
    BY OtherName DEF Official, HostNamed
  <1> HIDE DEF r, full, path
  <1>6. Len(full) = 3 /\ full[2] = path[1]
    <2>1. full[1 + 1] = path[1]
      BY <1>2, <1>5
    <2>2. QED
      BY <1>2, <1>5, <2>1
  <1>7. \A i \in 1 .. Len(r) : r[i] = full[i]
    BY <1>4, <1>5, <1>6
  <1>8. Len(r) \in 1 .. 3 /\ Len(r) < Len(full) /\ Len(r) = Len(full) - 1
    BY <1>4, <1>6
  <1>9. RegistryFound(ref, r)
    BY <1>3, <1>4, <1>7, <1>8 DEF RegistryFound, full
  <1>10. QED
    BY <1>9

LEMMA RegistryOfHost ==
    ASSUME NEW ref \in References, NEW h \in Hosts, ref.host = {h}
    PROVE  \E r : RegistryFound(ref, r)
  <1> DEFINE name == Name(ref)
             r == Directory(name)
             full == FullName(ref)
             n == Len(name)
             m == Len(ref.path)
  <1>1. /\ name \in Paths /\ n = m + 1 /\ m \in 1 .. 3 /\ name[1] = h
        /\ name = <<h>> \o ref.path
    BY NameIsPath, PathOfComponents
  <1>2. n >= 2 /\ n # 1 /\ n \in 2 .. 4
    <2> HIDE DEF n, m
    <2>1. QED
      BY <1>1
  <1>3. extract_registry(Joined(name)) = Joined(r)
    BY <1>1, <1>2, HostFacts, RegistryOfPath
  <1>4. r \in Paths /\ Len(r) = n - 1 /\ \A i \in 1 .. n - 1 : r[i] = name[i]
    BY <1>1, <1>2, DirectoryFacts
  <1>5. CASE Official(ref)
    <2>1. Len(full) = 3 /\ full[1] = DockerHub
      BY <1>5, OfficialName
    <2>2. h = DockerHub /\ m = 1 /\ ref.host # {}
      BY <1>5 DEF Official
    <2> HIDE DEF r, full, n, m, name
    <2>3. Len(r) = 1 /\ r[1] = DockerHub
      BY <1>1, <1>2, <1>4, <2>2
    <2>4. \A i \in 1 .. Len(r) : r[i] = full[i]
      BY <2>1, <2>3
    <2>5. Len(r) \in 1 .. 3 /\ Len(r) < Len(full)
      BY <2>1, <2>3
    <2>6. RegistryFound(ref, r)
      BY <1>3, <1>4, <1>5, <2>2, <2>4, <2>5 DEF RegistryFound, full, name
    <2>7. QED
      BY <2>6
  <1>6. CASE ~Official(ref)
    <2>1. full = name
      <3>1. HostNamed(ref) = h
        BY DEF HostNamed
      <3>2. QED
        BY <1>1, <1>6, <3>1, OtherName
    <2> HIDE DEF r, full, n, name
    <2>2. Len(full) = n
      BY <2>1 DEF n
    <2>3. Len(r) \in 1 .. 3 /\ Len(r) < Len(full) /\ Len(r) = Len(full) - 1
      BY <1>2, <1>4, <2>2
    <2>4. \A i \in 1 .. Len(r) : r[i] = full[i]
      BY <1>4, <2>1
    <2>5. RegistryFound(ref, r)
      BY <1>3, <1>4, <2>3, <2>4 DEF RegistryFound, full, name
    <2>6. QED
      BY <2>5
  <1>7. QED
    BY <1>5, <1>6

LEMMA RegistryOfReference ==
    ASSUME NEW ref \in References, IsReference(ref)
    PROVE  \E r : RegistryFound(ref, r)
  <1>1. ref.host = {} \/ \E h \in Hosts : ref.host = {h}
    BY DEF References, Option
  <1>2. QED
    BY <1>1, RegistryOfOfficial, RegistryOfHub, RegistryOfHost

LEMMA ReferenceParsed ==
    ASSUME NEW ref \in References
    PROVE  parse_image_ref(Image(ref)) =
            [registry |-> extract_registry(Joined(Name(ref))), tag |-> TagRead(ref),
             has_digest |-> ref.digest # {}]
  <1> DEFINE q == Name(ref)
  <1>1. /\ q \in Paths /\ \A i \in 1 .. Len(q) : ~Contains(q[i], "@")
        /\ ~Contains(q[Len(q)], ":")
    BY NameIsPath
  <1>2. ref.tag = {} \/ \E t \in Tags : ref.tag = {t}
    BY DEF References, Option
  <1>3. ref.digest = {} \/ \E d \in Digests : ref.digest = {d}
    BY DEF References, Option
  <1>4. Image(ref) = Joined(q) \o Written(":", ref.tag) \o Written("@", ref.digest)
    BY DEF Image, Name
  <1> HIDE DEF q
  <1>5. parse_image_ref(Joined(q) \o Written(":", ref.tag) \o Written("@", ref.digest)) =
            [registry |-> extract_registry(Joined(q)),
             tag |-> IF ref.tag = {} THEN <<>> ELSE CHOOSE t \in ref.tag : TRUE,
             has_digest |-> ref.digest # {}]
    BY <1>1, <1>2, <1>3, PathParsed
  <1>6. QED
    BY <1>4, <1>5, Zenon DEF q, TagRead

LEMMA EntriesArePaths == Entries \subseteq Paths
  <1> SUFFICES ASSUME NEW entry \in Entries
               PROVE  entry \in Paths
    OBVIOUS
  <1>1. /\ entry \in Seq(Seq(STRING)) /\ Len(entry) \in 1 .. 4
        /\ \A i \in 1 .. Len(entry) : ~Contains(entry[i], "/")
    BY PartsAssumption
  <1>2. ASSUME NEW i \in 1 .. Len(entry)
        PROVE  entry[i] \in Part
    <2>1. entry[i] \in Seq(STRING)
      BY <1>1
    <2>2. entry[i] \in Text
      BY <2>1, SeqMonotonic DEF Text, Characters
    <2>3. QED
      BY <1>1, <2>2 DEF Part
  <1>3. entry \in Seq(Part)
    BY <1>1, <1>2
  <1>4. QED
    BY <1>1, <1>3 DEF Paths

(* An image lies below an entry its full name begins with. *)
LEMMA BelowMeaning ==
    ASSUME NEW ref, FullName(ref) \in Seq(Part), NEW entry \in Paths
    PROVE  Below(ref, entry) <=>
            /\ Len(entry) < Len(FullName(ref))
            /\ \A i \in 1 .. Len(entry) : FullName(ref)[i] = entry[i]
  <1> DEFINE full == FullName(ref)
             n == Len(entry)
             front == SubSeq(full, 1, n)
  <1>1. n \in 1 .. 4 /\ entry \in Seq(Part) /\ full \in Seq(Part) /\ Len(full) \in Nat
    BY DEF Paths
  <1>2. ASSUME n < Len(full)
        PROVE  front = entry <=> \A i \in 1 .. n : full[i] = entry[i]
    <2> HIDE DEF full, n
    <2>1. \A i \in 1 .. n : full[i] \in Part
      BY <1>1, <1>2
    <2>2. front \in Seq(Part) /\ Len(front) = n /\ \A i \in 1 .. n : front[i] = full[i]
      BY <1>1, <2>1, SubSeqProperties
    <2> HIDE DEF front
    <2>3. ASSUME \A i \in 1 .. n : full[i] = entry[i]
          PROVE  front = entry
      <3>1. Len(front) = Len(entry) /\ \A i \in 1 .. Len(front) : front[i] = entry[i]
        BY <2>2, <2>3 DEF n
      <3>2. QED
        BY <1>1, <2>2, <3>1, SeqEqual
    <2>4. QED
      BY <2>2, <2>3
  <1>3. Below(ref, entry) <=> n < Len(full) /\ front = entry
    BY DEF Below
  <1> HIDE DEF full, n, front
  <1>4. Below(ref, entry) <=> n < Len(full) /\ \A i \in 1 .. n : full[i] = entry[i]
    BY <1>2, <1>3
  <1>5. QED
    BY <1>4 DEF full, n

LEMMA EntriesMatchNames ==
    ASSUME NEW ref \in References, IsReference(ref), NEW entry \in Entries
    PROVE  LET found == registry_matches(extract_registry(Joined(Name(ref))), Joined(entry))
           IN  /\ found => Below(ref, entry)
               /\ Below(ref, entry) /\ ~(Official(ref) /\ ref.host # {}) => found
  <1> DEFINE found == registry_matches(extract_registry(Joined(Name(ref))), Joined(entry))
             full == FullName(ref)
  <1>1. PICK r : RegistryFound(ref, r)
    BY RegistryOfReference
  <1>2. entry \in Paths
    BY EntriesArePaths
  <1>3. found <=> Begins(r, entry)
    BY <1>1, <1>2, EntryMatchesBeginning DEF RegistryFound
  <1>4. full \in Seq(Part) /\ Len(full) \in Nat
    <2>1. full \in Seq(Part)
      BY OfficialName, OtherName
    <2>2. QED
      BY <2>1
  <1>5. Below(ref, entry) <=>
            Len(entry) < Len(full) /\ \A i \in 1 .. Len(entry) : full[i] = entry[i]
    BY <1>2, <1>4, BelowMeaning
  <1>6. /\ Len(r) \in 1 .. 3 /\ Len(r) < Len(full) /\ \A i \in 1 .. Len(r) : r[i] = full[i]
        /\ (Official(ref) /\ ref.host # {}) \/ Len(r) = Len(full) - 1
    BY <1>1 DEF RegistryFound
  <1>7. Len(entry) \in 1 .. 4
    BY <1>2, PathFacts
  <1> HIDE DEF found, full
  <1>8. ASSUME found
        PROVE  Below(ref, entry)
    <2>1. Len(entry) <= Len(r) /\ \A i \in 1 .. Len(entry) : r[i] = entry[i]
      BY <1>3, <1>8 DEF Begins
    <2>2. Len(entry) < Len(full) /\ \A i \in 1 .. Len(entry) : i \in 1 .. Len(r)
      BY <1>4, <1>6, <1>7, <2>1
    <2>3. QED
      BY <1>5, <1>6, <2>1, <2>2
  <1>9. ASSUME Below(ref, entry), ~(Official(ref) /\ ref.host # {})
        PROVE  found
    <2>1. Len(r) = Len(full) - 1
      BY <1>6, <1>9
    <2>2. Len(entry) <= Len(r) /\ \A i \in 1 .. Len(entry) : i \in 1 .. Len(r)
      BY <1>4, <1>5, <1>6, <1>7, <1>9, <2>1
    <2>3. QED
      BY <1>3, <1>5, <1>6, <1>9, <2>2 DEF Begins
  <1>10. QED
    BY <1>8, <1>9 DEF found

-------------------------------------------------------------------------------
(***************************************************************************)
(* Every reference, and what it is parsed to if it has been.               *)
(***************************************************************************)
ParsedAsWritten ==
    /\ reference \in References /\ IsReference(reference)
    /\ parsed = {} \/ parsed = {parse_image_ref(Image(reference))}

LEMMA AlwaysAsWritten == Spec => []ParsedAsWritten
  <1>1. Init => ParsedAsWritten
    BY Zenon DEF Init, ParsedAsWritten
  <1>2. ParsedAsWritten /\ [Parse]_vars => ParsedAsWritten'
    BY Zenon DEF ParsedAsWritten, Parse, vars
  <1>3. QED
    BY <1>1, <1>2, PTL DEF Spec

(* An entry of the allowlist admits only images that lie below it: a host  *)
(* or a component that merely begins like the entry is not admitted.       *)
THEOREM OnlyBelowAdmitted == Spec => []AdmitsOnlyBelow
  <1>1. ParsedAsWritten => AdmitsOnlyBelow
    <2> SUFFICES ASSUME ParsedAsWritten, NEW p \in parsed, NEW entry \in Entries,
                        registry_matches(p.registry, Joined(entry))
                 PROVE  Below(reference, entry)
      BY DEF AdmitsOnlyBelow
    <2>1. p = parse_image_ref(Image(reference)) /\ reference \in References /\ IsReference(reference)
      BY DEF ParsedAsWritten
    <2>2. p.registry = extract_registry(Joined(Name(reference)))
      BY <2>1, ReferenceParsed
    <2>3. QED
      BY <2>1, <2>2, EntriesMatchNames
  <1>2. QED
    BY <1>1, AlwaysAsWritten, PTL

(* It admits all of them, except official images whose host is written out. *)
THEOREM AllBelowAdmitted == Spec => []AdmitsAllBelow
  <1>1. ParsedAsWritten => AdmitsAllBelow
    <2> SUFFICES ASSUME ParsedAsWritten, NEW p \in parsed, NEW entry \in Entries,
                        Below(reference, entry), ~(Official(reference) /\ reference.host # {})
                 PROVE  registry_matches(p.registry, Joined(entry))
      BY DEF AdmitsAllBelow
    <2>1. p = parse_image_ref(Image(reference)) /\ reference \in References /\ IsReference(reference)
      BY DEF ParsedAsWritten
    <2>2. p.registry = extract_registry(Joined(Name(reference)))
      BY <2>1, ReferenceParsed
    <2>3. QED
      BY <2>1, <2>2, EntriesMatchNames
  <1>2. QED
    BY <1>1, AlwaysAsWritten, PTL

(* The latest tag is recognised when it is written and when it is implied, *)
(* and nothing else is: not a port, nor an image pinned by its digest.     *)
THEOREM LatestRecognised == Spec => []LatestIsRecognised
  <1>1. ParsedAsWritten => LatestIsRecognised
    <2> SUFFICES ASSUME ParsedAsWritten, NEW p \in parsed
                 PROVE  is_latest(p) <=> \/ reference.tag = {<<"latest">>}
                                         \/ reference.tag = {} /\ reference.digest = {}
      BY DEF LatestIsRecognised
    <2>1. p = parse_image_ref(Image(reference)) /\ reference \in References
      BY DEF ParsedAsWritten
    <2>2. p.tag = TagRead(reference) /\ p.has_digest = (reference.digest # {})
      BY <2>1, ReferenceParsed
    <2>3. reference.tag = {} \/ \E t \in Tags : reference.tag = {t}
      BY <2>1 DEF References, Option
    <2>4. CASE reference.tag = {}
      <3>1. p.tag = <<>>
        BY <2>2, <2>4 DEF TagRead
      <3>2. <<>> # <<"latest">> /\ reference.tag # {<<"latest">>}
        BY <2>4
      <3>3. QED
        BY <2>2, <2>4, <3>1, <3>2 DEF is_latest
    <2>5. ASSUME NEW t \in Tags, reference.tag = {t}
          PROVE  is_latest(p) <=> \/ reference.tag = {<<"latest">>}
                                  \/ reference.tag = {} /\ reference.digest = {}
      <3>1. p.tag = t
        BY <2>2, <2>5 DEF TagRead
      <3>2. t # <<>>
        BY PartsAssumption
      <3>3. QED
        BY <2>5, <3>1, <3>2 DEF is_latest
    <2>6. QED
      BY <2>3, <2>4, <2>5
  <1>2. QED
    BY <1>1, AlwaysAsWritten, PTL
===============================================================================

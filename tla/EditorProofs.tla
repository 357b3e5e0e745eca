---------------------------- MODULE EditorProofs ----------------------------
(***************************************************************************)
(* Proofs about the text of the editor and its cursors, for any text, any  *)
(* width of the editor and any window, and about the sounds it plays, for  *)
(* any set of sounds.                                                      *)
(*                                                                         *)
(* Wrapping gives rows that follow each other through the lines, from the  *)
(* first character to the last one; this is why every column has one row,  *)
(* why joining the rows gives the lines back, and why the two cursors,     *)
(* each of which is corrected to be in the text, end at the same place.    *)
(* A place that the rule of the lines has chosen is one that both rules    *)
(* leave alone; this is why they come to rest.                             *)
(***************************************************************************)
EXTENDS EditorCursor, TypedText, Playback,
        SequenceTheorems, WellFoundedInduction, TLAPS

(* Induction over the numbers, for a set: every set of numbers has a least *)
(* one.                                                                    *)
LEMMA LeastNumber ==
  ASSUME NEW T, T \subseteq Nat, T # {}
  PROVE  \E m \in T : \A n \in T : m <= n
  <1> DEFINE R == {ss \in Nat \X Nat : ss[1] < ss[2]}
  <1>1. IsWellFoundedOn(R, Nat)
    BY NatLessThanWellFounded DEF OpToRel
  <1> HIDE DEF R
  <1>2. PICK m \in T : \A n \in T : ~(<<n, m>> \in R)
    BY <1>1, WFMin, Zenon
  <1>3. \A n \in T : ~(n < m)
    BY <1>2 DEF R
  <1> QED
    BY <1>3

LEMMA SetInduction ==
  ASSUME NEW S, 0 \in S, \A n \in Nat : n \in S => n + 1 \in S
  PROVE  Nat \subseteq S
  <1> SUFFICES ASSUME Nat \ S # {} PROVE FALSE
    OBVIOUS
  <1>1. PICK m \in Nat \ S : \A n \in Nat \ S : m <= n
    BY LeastNumber
  <1>2. m - 1 \in Nat /\ m - 1 \in S
    BY <1>1
  <1> QED
    BY <1>1, <1>2

(* f is what is got from x by the functions of h, one after another.       *)
Iterates(f, x, h, n) == f[0] = x /\ \A i \in 1..n : f[i] = h[i][f[i - 1]]

LEMMA Recursion ==
  ASSUME NEW n \in Nat, NEW D, NEW x \in D, NEW h \in [1..n -> [D -> D]]
  PROVE  \E f \in [0..n -> D] : Iterates(f, x, h, n)
  <1> DEFINE Defined(k) == \E f \in [0..k -> D] :
                              f[0] = x /\ \A i \in 1..k : f[i] = h[i][f[i - 1]]
             S == {k \in Nat : k <= n => Defined(k)}
  <1>1. Defined(0)
    <2> DEFINE f == [i \in 0..0 |-> x]
    <2>1. f \in [0..0 -> D] /\ f[0] = x
      OBVIOUS
    <2>2. \A i \in 1..0 : f[i] = h[i][f[i - 1]]
      OBVIOUS
    <2> HIDE DEF f
    <2> QED
      BY <2>1, <2>2
  <1>2. ASSUME NEW k \in Nat, Defined(k), k + 1 <= n PROVE Defined(k + 1)
    <2>1. PICK f \in [0..k -> D] : f[0] = x /\ \A i \in 1..k : f[i] = h[i][f[i - 1]]
      BY <1>2
    <2> DEFINE g == [i \in 0..(k + 1) |-> IF i = k + 1 THEN h[k + 1][f[k]] ELSE f[i]]
    <2>2. h[k + 1][f[k]] \in D
      BY <1>2
    <2>3. g \in [0..(k + 1) -> D]
      BY <2>1, <2>2
    <2>4. g[0] = x /\ \A i \in 1..(k + 1) : g[i] = h[i][g[i - 1]]
      BY <2>1
    <2> HIDE DEF g
    <2> QED
      BY <2>3, <2>4
  <1> HIDE DEF Defined
  <1>5. 0 \in S /\ \A k \in Nat : k \in S => k + 1 \in S
    BY <1>1, <1>2
  <1> HIDE DEF S
  <1>3. Nat \subseteq S
    BY <1>5, SetInduction
  <1>4. Defined(n)
    BY <1>3 DEF S
  <1> QED
    BY <1>4 DEF Defined, Iterates

LEMMA Recursive ==
  ASSUME NEW n \in Nat, NEW D, NEW f, f[0] \in D,
         \A i \in 1..n : f[i - 1] \in D => f[i] \in D
  PROVE  \A i \in 0..n : f[i] \in D
  <1> DEFINE S == {k \in Nat : k <= n => f[k] \in D}
  <1>1. 0 \in S
    OBVIOUS
  <1>2. \A k \in Nat : k \in S => k + 1 \in S
    <2> SUFFICES ASSUME NEW k \in Nat, k \in S, k + 1 <= n PROVE f[k + 1] \in D
      OBVIOUS
    <2>1. k + 1 \in 1..n /\ k + 1 - 1 = k
      OBVIOUS
    <2> QED
      BY <2>1
  <1> HIDE DEF S
  <1>3. Nat \subseteq S
    BY <1>1, <1>2, SetInduction
  <1> QED
    BY <1>3 DEF S

(* A sequence of sequences put together, one after another.                *)
LEMMA FlattenSteps ==
  ASSUME NEW D, NEW s \in Seq(Seq(D))
  PROVE  \E f \in [0..Len(s) -> Seq(D)] :
            /\ f[0] = <<>>
            /\ \A i \in 1..Len(s) : f[i] = f[i - 1] \o s[i]
            /\ FlattenSeq(s) = f[Len(s)]
  <1> DEFINE n == Len(s)
             T == Seq(D)
             After(r, i) == r \o s[i]
             Def(f) == [i \in 1..n |-> IF i = 1 THEN s[i] ELSE After(f[i - 1], i)]
             h == [i \in 1..n |-> [r \in T |-> After(r, i)]]
             g == CHOOSE f : f = Def(f)
             p == [i \in 0..n |-> IF i = 0 THEN <<>> ELSE g[i]]
  <1>1. n \in Nat /\ <<>> \in T /\ \A i \in 1..n : \A r \in T : After(r, i) \in T
    OBVIOUS
  <1>2. \A i \in 1..n : After(<<>>, i) = s[i]
    OBVIOUS
  <1>3. FlattenSeq(s) = p[n]
    <2>1. CASE n = 0
      <3>1. s = <<>> /\ p[n] = <<>>
        BY <2>1
      <3> QED
        BY <2>1, <3>1 DEF FlattenSeq
    <2>2. CASE n > 0
      <3>1. FlattenSeq(s) = g[n]
        BY <2>2 DEF FlattenSeq
      <3>2. p[n] = g[n]
        <4> HIDE DEF g
        <4> QED
          BY <1>1, <2>2
      <3> QED
        BY <3>1, <3>2
    <2> QED
      BY <1>1, <2>1, <2>2
  <1> HIDE DEF After, T, n
  <1>4. h \in [1..n -> [T -> T]] /\ \A i \in 1..n : \A r \in T : h[i][r] = After(r, i)
    BY <1>1
  <1> HIDE DEF h
  <1>5. PICK f \in [0..n -> T] : Iterates(f, <<>>, h, n)
    BY <1>1, <1>4, Recursion, Zenon
  <1>6. f[0] = <<>> /\ \A i \in 1..n : f[i] = After(f[i - 1], i)
    <2>1. \A i \in 1..n : f[i - 1] \in T
      BY <1>1
    <2> QED
      BY <1>4, <1>5, <2>1 DEF Iterates
  <1> DEFINE e == [i \in 1..n |-> f[i]]
  <1>7. \A i \in 1..n : e[i] = IF i = 1 THEN s[i] ELSE After(e[i - 1], i)
    <2> SUFFICES ASSUME NEW i \in 1..n
                 PROVE  e[i] = IF i = 1 THEN s[i] ELSE After(e[i - 1], i)
      OBVIOUS
    <2>1. CASE i = 1
      BY <1>2, <1>6, <2>1
    <2>2. CASE i # 1
      <3>1. i - 1 \in 1..n
        BY <1>1, <2>2
      <3> QED
        BY <1>6, <2>2, <3>1
    <2> QED
      BY <2>1, <2>2
  <1>8. e = Def(e)
    BY <1>7
  <1>9. g = Def(g)
    <2> HIDE DEF Def
    <2> QED
      BY <1>8
  <1> HIDE DEF g, e
  <1>10. \A i \in 1..n : g[i] = IF i = 1 THEN s[i] ELSE After(g[i - 1], i)
    BY <1>9
  <1>11. p[0] = <<>> /\ \A i \in 1..n : p[i] = After(p[i - 1], i)
    <2>1. 0 \in 0..n
      BY <1>1
    <2> SUFFICES ASSUME NEW i \in 1..n PROVE p[i] = After(p[i - 1], i)
      BY <2>1
    <2>2. CASE i = 1
      <3>1. p[i - 1] = <<>> /\ p[i] = g[i]
        BY <2>1, <2>2
      <3> QED
        BY <1>2, <1>10, <2>2, <3>1
    <2>3. CASE i # 1
      <3>1. p[i - 1] = g[i - 1] /\ p[i] = g[i]
        BY <1>1, <2>3
      <3> QED
        BY <1>10, <2>3, <3>1
    <2> QED
      BY <2>2, <2>3
  <1>12. p = [i \in 0..n |-> p[i]]
    OBVIOUS
  <1> HIDE DEF p
  <1>13. \A i \in 0..n : p[i] \in T
    <2>1. p[0] \in T /\ \A i \in 1..n : p[i - 1] \in T => p[i] \in T
      BY <1>1, <1>11
    <2> QED
      BY <1>1, <2>1, Recursive, Zenon
  <1>14. p \in [0..n -> T]
    BY <1>12, <1>13
  <1> QED
    BY <1>3, <1>11, <1>14 DEF n, T, After

(* Where the elements of the parts are in the whole.                       *)
Places(off, s, all) ==
    /\ off \in [0..Len(s) -> Nat] /\ off[0] = 0 /\ Len(all) = off[Len(s)]
    /\ \A i \in 1..Len(s) : /\ off[i] = off[i - 1] + Len(s[i])
                            /\ off[i] <= Len(all)
    /\ \A i \in 1..Len(s) : \A k \in 1..Len(s[i]) : all[off[i - 1] + k] = s[i][k]
    /\ \A r \in 1..Len(all) :
          \E i \in 1..Len(s) : \E k \in 1..Len(s[i]) : r = off[i - 1] + k

LEMMA FlattenPlaces ==
  ASSUME NEW D, NEW s \in Seq(Seq(D))
  PROVE  /\ FlattenSeq(s) \in Seq(D)
         /\ \E off : Places(off, s, FlattenSeq(s))
  <1>1. PICK f \in [0..Len(s) -> Seq(D)] :
            /\ f[0] = <<>>
            /\ \A i \in 1..Len(s) : f[i] = f[i - 1] \o s[i]
            /\ FlattenSeq(s) = f[Len(s)]
    BY FlattenSteps
  <1> DEFINE n == Len(s)
             off == [i \in 0..n |-> Len(f[i])]
             Good(m) == /\ \A i \in 1..m : off[i] <= off[m]
                        /\ \A i \in 1..m : \A k \in 1..Len(s[i]) :
                              f[m][off[i - 1] + k] = s[i][k]
                        /\ \A r \in 1..off[m] :
                              \E i \in 1..m : \E k \in 1..Len(s[i]) : r = off[i - 1] + k
             S == {m \in Nat : m <= n => Good(m)}
  <1>2. n \in Nat /\ \A i \in 0..n : f[i] \in Seq(D) /\ off[i] = Len(f[i]) /\ off[i] \in Nat
    OBVIOUS
  <1>3. off \in [0..n -> Nat] /\ off[0] = 0
    BY <1>1, <1>2
  <1>4. \A i \in 1..n : /\ i - 1 \in 0..n /\ s[i] \in Seq(D)
                        /\ off[i] = off[i - 1] + Len(s[i])
    <2> SUFFICES ASSUME NEW i \in 1..n
                 PROVE  /\ i - 1 \in 0..n /\ s[i] \in Seq(D)
                        /\ off[i] = off[i - 1] + Len(s[i])
      OBVIOUS
    <2>1. i \in 0..n /\ i - 1 \in 0..n /\ s[i] \in Seq(D)
      BY <1>2
    <2>2. f[i] = f[i - 1] \o s[i]
      BY <1>1
    <2> HIDE DEF off
    <2>3. f[i - 1] \in Seq(D) /\ off[i - 1] = Len(f[i - 1]) /\ off[i] = Len(f[i])
      BY <1>2, <2>1
    <2>4. Len(f[i - 1] \o s[i]) = Len(f[i - 1]) + Len(s[i])
      BY <2>1, <2>3
    <2> QED
      BY <2>1, <2>2, <2>3, <2>4
  <1> HIDE DEF off
  <1>5. Good(0)
    BY <1>3
  <1>6. ASSUME NEW m \in Nat, m + 1 <= n, Good(m) PROVE Good(m + 1)
    <2>1. /\ m \in 0..n /\ m + 1 \in 1..n /\ (m + 1) - 1 = m
          /\ f[m + 1] = f[m] \o s[m + 1] /\ off[m + 1] = off[m] + Len(s[m + 1])
          /\ f[m] \in Seq(D) /\ s[m + 1] \in Seq(D) /\ Len(f[m]) = off[m]
          /\ off[m] \in Nat
      <3>1. m \in 0..n /\ m + 1 \in 1..n /\ (m + 1) - 1 = m
        BY <1>2, <1>6
      <3>2. f[m + 1] = f[(m + 1) - 1] \o s[m + 1]
        BY <1>1, <3>1, Zenon
      <3>3. off[m + 1] = off[(m + 1) - 1] + Len(s[m + 1]) /\ s[m + 1] \in Seq(D)
        BY <1>4, <3>1
      <3>4. f[m] \in Seq(D) /\ Len(f[m]) = off[m] /\ off[m] \in Nat
        BY <1>2, <3>1
      <3> QED
        BY <3>1, <3>2, <3>3, <3>4
    <2>2. \A i \in 1..(m + 1) : off[i] <= off[m + 1]
      <3> SUFFICES ASSUME NEW i \in 1..(m + 1) PROVE off[i] <= off[m + 1]
        OBVIOUS
      <3>1. i \in 1..m \/ i = m + 1
        OBVIOUS
      <3>2. off[i] \in Nat /\ i \in 0..n
        BY <1>2, <1>6
      <3> QED
        BY <1>6, <2>1, <3>1, <3>2
    <2>3. ASSUME NEW i \in 1..(m + 1), NEW k \in 1..Len(s[i])
          PROVE  f[m + 1][off[i - 1] + k] = s[i][k]
      <3>1. CASE i = m + 1
        <4> DEFINE p == f[m]
                   q == s[m + 1]
        <4>1. p \in Seq(D) /\ q \in Seq(D) /\ k \in 1..Len(q)
          BY <2>1, <3>1
        <4>2. off[i - 1] = Len(p) /\ f[m + 1] = p \o q
          BY <2>1, <3>1
        <4> HIDE DEF p, q
        <4>3. (p \o q)[Len(p) + k] = q[k]
          BY <4>1
        <4> QED
          BY <3>1, <4>2, <4>3 DEF q
      <3>2. CASE i \in 1..m
        <4>0. i \in 1..n
          BY <1>2, <1>6, <3>2
        <4>1. i - 1 \in 0..n /\ s[i] \in Seq(D) /\ off[i] = off[i - 1] + Len(s[i])
          BY <1>4, <4>0
        <4>4. off[i - 1] \in Nat /\ off[i] \in Nat /\ Len(s[i]) \in Nat
          BY <1>2, <4>0, <4>1
        <4>5. off[i] <= off[m]
          BY <1>6, <3>2
        <4>6. off[m] \in Nat /\ Len(f[m]) = off[m]
          BY <2>1
        <4>7. k \in Nat /\ 1 <= k /\ k <= Len(s[i])
          BY <4>4
        <4>8. off[i - 1] + k \in Nat /\ off[i - 1] + k <= off[m] /\ 1 <= off[i - 1] + k
          <5> DEFINE a == off[i - 1]
                     b == off[i]
                     c == off[m]
                     l == Len(s[i])
          <5>1. a \in Nat /\ c \in Nat /\ l \in Nat /\ b = a + l /\ b <= c
            BY <4>1, <4>4, <4>5, <4>6, Zenon
          <5>2. k \in Nat /\ 1 <= k /\ k <= l
            BY <4>7
          <5> HIDE DEF a, b, c, l
          <5>3. a + k \in Nat /\ a + k <= c /\ 1 <= a + k
            BY <5>1, <5>2
          <5> QED
            BY <5>3 DEF a, c
        <4>2. off[i - 1] + k \in 1..Len(f[m])
          BY <4>6, <4>8
        <4>3. f[m + 1][off[i - 1] + k] = f[m][off[i - 1] + k]
          BY <2>1, <4>2
        <4> QED
          BY <1>6, <3>2, <4>3
      <3> QED
        BY <3>1, <3>2
    <2>4. ASSUME NEW r \in 1..off[m + 1]
          PROVE  \E i \in 1..(m + 1) : \E k \in 1..Len(s[i]) : r = off[i - 1] + k
      <3>1. CASE r \in 1..off[m]
        <4>1. PICK i \in 1..m : \E k \in 1..Len(s[i]) : r = off[i - 1] + k
          BY <1>6, <3>1
        <4>2. i \in 1..(m + 1)
          OBVIOUS
        <4> QED
          BY <4>1, <4>2
      <3>2. CASE ~(r \in 1..off[m])
        <4>1. r - off[m] \in 1..Len(s[m + 1]) /\ r = off[(m + 1) - 1] + (r - off[m])
          BY <2>1, <3>2
        <4> QED
          BY <2>1, <4>1
      <3> QED
        BY <3>1, <3>2
    <2> QED
      BY <2>2, <2>3, <2>4
  <1> HIDE DEF Good
  <1>7. 0 \in S /\ \A m \in Nat : m \in S => m + 1 \in S
    BY <1>5, <1>6
  <1> HIDE DEF S
  <1>8. Good(n)
    <2>1. Nat \subseteq S
      BY <1>7, SetInduction
    <2>2. n \in S
      BY <1>2, <2>1
    <2> QED
      BY <1>2, <2>2 DEF S
  <1>9. Len(FlattenSeq(s)) = off[n] /\ FlattenSeq(s) \in Seq(D)
    BY <1>1, <1>2
  <1>10. Places(off, s, FlattenSeq(s))
    BY <1>1, <1>3, <1>4, <1>8, <1>9 DEF Good, Places
  <1> QED
    BY <1>9, <1>10

-----------------------------------------------------------------------------
(* Wrapping a line.                                                        *)

LEMMA WordEnds ==
  ASSUME NEW line \in Seq(Chars), NEW i \in 1..Len(line), line[i] # Blank
  PROVE  /\ WordEnd(line, i) \in i..Len(line)
         /\ \A k \in i..WordEnd(line, i) : line[k] # Blank
         /\ WordEnd(line, i) = Len(line) \/ line[WordEnd(line, i) + 1] = Blank
  <1> DEFINE n == Len(line)
             T == {j \in i..n : j = n \/ line[j + 1] = Blank}
  <1>1. n \in Nat /\ i \in Nat /\ i <= n
    OBVIOUS
  <1>2. n \in T
    BY <1>1
  <1>3. T \subseteq Nat
    BY <1>1
  <1>4. PICK m \in T : \A j \in T : m <= j
    BY <1>2, <1>3, LeastNumber, Zenon
  <1>5. ASSUME NEW k \in i..m PROVE line[k] # Blank
    <2>1. CASE k = i
      BY <2>1
    <2>2. CASE k # i
      <3>1. k - 1 \in i..n /\ k - 1 < m /\ (k - 1) + 1 = k
        BY <1>1, <2>2
      <3>2. ~(k - 1 \in T)
        <4>1. k - 1 \in T => m <= k - 1
          BY <1>4
        <4>2. m \in Nat /\ k - 1 \in Int
          BY <1>3, <3>1
        <4> HIDE DEF T
        <4> QED
          BY <3>1, <4>1, <4>2
      <3> QED
        BY <3>1, <3>2
    <2> QED
      BY <2>1, <2>2
  <1>6. \E j \in i..Len(line) : /\ \A k \in i..j : line[k] # Blank
                                /\ j = Len(line) \/ line[j + 1] = Blank
    BY <1>5
  <1> QED
    BY <1>6 DEF WordEnd

(* The starts b of the rows of a line that is wrapped, as far as position  *)
(* n: they are the first position and words, each of which did not fit in  *)
(* the row before; every other word fits in its row.                       *)
Broken(line, b, n) ==
    /\ b \in Seq(1..Len(line)) /\ Len(b) >= 1 /\ b[1] = 1
    /\ \A j, k \in 1..Len(b) : j < k => b[j] < b[k]
    /\ \A k \in 2..Len(b) : /\ b[k] <= n
                            /\ StartsWord(line, b[k])
                            /\ WordEnd(line, b[k]) - b[k - 1] >= EditorWidth
    /\ \A w \in 1..n : \A k \in 1..Len(b) :
          /\ StartsWord(line, w) /\ b[k] < w
          /\ k = Len(b) \/ w < b[k + 1]
          => WordEnd(line, w) - b[k] < EditorWidth

Breaking(line, b, i) ==
    IF /\ StartsWord(line, i) /\ i # Last(b)
       /\ WordEnd(line, i) - Last(b) >= EditorWidth
    THEN Append(b, i) ELSE b

LEMMA BreakingStep ==
  ASSUME NEW line \in Seq(Chars), NEW i \in 1..Len(line), NEW b,
         Broken(line, b, i - 1)
  PROVE  Broken(line, Breaking(line, b, i), i)
  <1> DEFINE m == Len(b)
  <1>1. /\ m \in Nat /\ m >= 1 /\ i \in Nat /\ i >= 1 /\ i - 1 \in Nat
        /\ Last(b) = b[m] /\ m \in 1..m
    BY DEF Broken, Last
  <1>2. \A k \in 1..m : b[k] \in Nat
    BY DEF Broken
  <1>3. m = 1 \/ b[m] <= i - 1
    <2> HIDE DEF m
    <2>1. m # 1 => m \in 2..m
      BY <1>1
    <2> QED
      BY <2>1 DEF Broken, m
  <1>4. StartsWord(line, i) => WordEnd(line, i) \in Nat
    <2>1. StartsWord(line, i) => line[i] # Blank
      BY DEF StartsWord
    <2> QED
      BY <2>1, WordEnds, <1>1
  <1>5. CASE StartsWord(line, i) /\ i # Last(b) /\ WordEnd(line, i) - Last(b) >= EditorWidth
    <2> DEFINE c == Append(b, i)
    <2>1. Breaking(line, b, i) = c
      BY <1>5 DEF Breaking
    <2>2. /\ c \in Seq(1..Len(line)) /\ Len(c) = m + 1 /\ c[m + 1] = i
          /\ \A k \in 1..m : c[k] = b[k]
      BY DEF Broken
    <2>3. b[m] < i
      BY <1>1, <1>2, <1>3, <1>5 DEF Broken
    <2>4. \A k \in 1..m : b[k] < i
      BY <1>1, <1>2, <2>3 DEF Broken
    <2> HIDE DEF c, m
    <2>5. Len(c) >= 1 /\ c[1] = 1
      BY <1>1, <2>2 DEF Broken, m
    <2>6. \A j, k \in 1..Len(c) : j < k => c[j] < c[k]
      <3> SUFFICES ASSUME NEW j \in 1..(m + 1), NEW k \in 1..(m + 1), j < k
                   PROVE  c[j] < c[k]
        BY <2>2
      <3>1. j \in 1..m /\ c[j] = b[j]
        BY <1>1, <2>2
      <3>2. CASE k = m + 1
        BY <2>2, <2>4, <3>1, <3>2
      <3>3. CASE k # m + 1
        <4>1. k \in 1..m /\ c[k] = b[k]
          BY <1>1, <2>2, <3>3
        <4> QED
          BY <3>1, <4>1 DEF Broken, m
      <3> QED
        BY <3>2, <3>3
    <2>7. ASSUME NEW k \in 2..Len(c)
          PROVE  /\ c[k] <= i
                 /\ StartsWord(line, c[k])
                 /\ WordEnd(line, c[k]) - c[k - 1] >= EditorWidth
      <3>1. CASE k = m + 1
        <4>1. k - 1 = m /\ c[k - 1] = Last(b) /\ c[k] = i
          BY <1>1, <2>2, <3>1
        <4> QED
          BY <1>1, <1>5, <4>1
      <3>2. CASE k # m + 1
        <4>1. k \in 2..m /\ k \in 1..m /\ k - 1 \in 1..m
          BY <1>1, <2>2, <3>2
        <4>2. c[k] = b[k] /\ c[k - 1] = b[k - 1] /\ b[k] \in Nat
          BY <1>2, <2>2, <4>1
        <4>3. b[k] <= i - 1 /\ StartsWord(line, b[k])
              /\ WordEnd(line, b[k]) - b[k - 1] >= EditorWidth
          BY <4>1 DEF Broken, m
        <4> QED
          BY <1>1, <4>2, <4>3
      <3> QED
        BY <3>1, <3>2
    <2>8. ASSUME NEW w \in 1..i, NEW k \in 1..Len(c), StartsWord(line, w), c[k] < w,
                 k = Len(c) \/ w < c[k + 1]
          PROVE  WordEnd(line, w) - c[k] < EditorWidth
      <3>1. k \in 1..m /\ c[k] = b[k]
        BY <1>1, <2>2, <2>8
      <3>2. CASE k = m
        <4>1. w < i
          BY <1>1, <2>2, <2>8, <3>2
        <4>2. w \in 1..(i - 1)
          BY <1>1, <4>1
        <4> QED
          BY <2>8, <3>1, <3>2, <4>2 DEF Broken, m
      <3>3. CASE k # m
        <4>1. k + 1 \in 1..m /\ k # Len(c)
          BY <1>1, <2>2, <3>1, <3>3
        <4>2. w < b[k + 1] /\ b[k + 1] < i /\ b[k + 1] \in Nat
          BY <1>2, <2>2, <2>4, <2>8, <4>1
        <4>3. w \in 1..(i - 1)
          BY <1>1, <4>2
        <4> QED
          BY <2>8, <3>1, <4>2, <4>3 DEF Broken, m
      <3> QED
        BY <3>2, <3>3
    <2> QED
      BY <2>1, <2>2, <2>5, <2>6, <2>7, <2>8 DEF Broken
  <1>6. CASE ~(StartsWord(line, i) /\ i # Last(b)
               /\ WordEnd(line, i) - Last(b) >= EditorWidth)
    <2>1. Breaking(line, b, i) = b
      BY <1>6 DEF Breaking
    <2>2. \A k \in 2..Len(b) : b[k] <= i
      <3>1. \A k \in 2..Len(b) : k \in 1..m /\ b[k] <= i - 1
        BY <1>1 DEF Broken
      <3> QED
        BY <1>1, <1>2, <3>1
    <2>3. ASSUME NEW w \in 1..i, NEW k \in 1..Len(b), StartsWord(line, w), b[k] < w,
                 k = Len(b) \/ w < b[k + 1]
          PROVE  WordEnd(line, w) - b[k] < EditorWidth
      <3>1. CASE w # i
        <4>1. w \in 1..(i - 1)
          BY <1>1, <3>1
        <4> QED
          BY <2>3, <4>1 DEF Broken
      <3>2. CASE w = i
        <4>1. k = m
          <5> SUFFICES ASSUME k # m PROVE FALSE
            OBVIOUS
          <5>1. k + 1 \in 2..m /\ k + 1 \in 1..m
            BY <1>1
          <5>2. b[k + 1] <= i /\ b[k + 1] \in Nat
            BY <1>2, <2>2, <5>1
          <5> QED
            BY <1>1, <2>3, <3>2, <5>2
        <4>2. i # Last(b) /\ Last(b) = b[k] /\ b[k] \in Nat
          BY <1>1, <1>2, <2>3, <3>2, <4>1
        <4>3. ~(WordEnd(line, i) - Last(b) >= EditorWidth)
          BY <1>6, <2>3, <3>2, <4>2
        <4>4. WordEnd(line, i) \in Nat
          BY <1>4, <2>3, <3>2
        <4> HIDE DEF m
        <4> QED
          BY <3>2, <4>2, <4>3, <4>4, EditorWidthAssumption
      <3> QED
        BY <3>1, <3>2
    <2> QED
      BY <2>1, <2>2, <2>3 DEF Broken
  <1> QED
    BY <1>5, <1>6

LEMMA BreaksOfLine ==
  ASSUME NEW line \in Seq(Chars), ~KeptWhole(line)
  PROVE  Broken(line, Breaks(line), Len(line))
  <1> DEFINE n == Len(line)
             T == Seq(1..n)
             one == <<1>>
             After(b, i) == Breaking(line, b, i)
             Def(f) == [i \in 0..n |-> IF i = 0 THEN one ELSE After(f[i - 1], i)]
             h == [i \in 1..n |-> [b \in T |-> After(b, i)]]
             g == CHOOSE f : f = Def(f)
             Good(i) == Broken(line, g[i], i)
             S == {i \in Nat : i <= n => Good(i)}
  <1>1. n \in Nat /\ n >= 1
    BY DEF KeptWhole
  <1>2. Breaks(line) = g[n]
    BY Zenon DEF Breaks, Breaking
  <1>3. \A i \in 1..n : \A b \in T : After(b, i) \in T
    <2> SUFFICES ASSUME NEW i \in 1..n, NEW b \in T PROVE After(b, i) \in T
      OBVIOUS
    <2>1. Append(b, i) \in T
      OBVIOUS
    <2> HIDE DEF T
    <2> QED
      BY <2>1, Zenon DEF Breaking
  <1>4. one \in T
    BY <1>1
  <1> HIDE DEF n, T, After, one
  <1>5. h \in [1..n -> [T -> T]] /\ \A i \in 1..n : \A b \in T : h[i][b] = After(b, i)
    BY <1>3
  <1> HIDE DEF h
  <1>6. PICK f \in [0..n -> T] : Iterates(f, one, h, n)
    BY <1>1, <1>4, <1>5, Recursion, Zenon
  <1>7. f[0] = one /\ \A i \in 1..n : f[i] = After(f[i - 1], i)
    <2>1. \A i \in 1..n : f[i - 1] \in T
      BY <1>1
    <2> QED
      BY <1>5, <1>6, <2>1 DEF Iterates
  <1>8. f = Def(f)
    <2>1. \A i \in 0..n : f[i] = IF i = 0 THEN one ELSE After(f[i - 1], i)
      BY <1>1, <1>7
    <2> QED
      BY <2>1
  <1>9. g = Def(g)
    <2> HIDE DEF Def
    <2> QED
      BY <1>8
  <1> HIDE DEF g
  <1>10. g[0] = one /\ \A i \in 1..n : g[i] = After(g[i - 1], i)
    BY <1>1, <1>9
  <1>11. Good(0)
    BY <1>1, <1>10 DEF Broken, n, one
  <1>12. ASSUME NEW i \in Nat, i + 1 <= n, Good(i) PROVE Good(i + 1)
    <2>1. i + 1 \in 1..n /\ (i + 1) - 1 = i
      BY <1>1, <1>12
    <2>2. g[i + 1] = Breaking(line, g[(i + 1) - 1], i + 1)
      BY <1>10, <2>1 DEF After
    <2>3. Broken(line, g[(i + 1) - 1], (i + 1) - 1)
      BY <1>12, <2>1
    <2> QED
      BY <2>1, <2>2, <2>3, BreakingStep DEF n
  <1> HIDE DEF Good
  <1>13. 0 \in S /\ \A i \in Nat : i \in S => i + 1 \in S
    BY <1>11, <1>12, <1>1
  <1> HIDE DEF S
  <1>14. n \in S
    BY <1>1, <1>13, SetInduction
  <1> QED
    BY <1>1, <1>2, <1>14 DEF S, Good, n

(* The starts of rows, kept whole or not.                                  *)
Starts(line, b) ==
    /\ b \in Seq(Nat \ {0}) /\ Len(b) >= 1 /\ b[1] = 1
    /\ \A j, k \in 1..Len(b) : j < k => b[j] < b[k]
    /\ \A k \in 2..Len(b) : b[k] <= Len(line)

LEMMA BreaksAreStarts ==
  ASSUME NEW line \in Seq(Chars)
  PROVE  Starts(line, Breaks(line))
  <1>1. CASE KeptWhole(line)
    <2>1. Breaks(line) = <<1>>
      BY <1>1 DEF Breaks
    <2> QED
      BY <2>1 DEF Starts
  <1>2. CASE ~KeptWhole(line)
    <2> DEFINE b == Breaks(line)
    <2>1. Broken(line, b, Len(line))
      BY <1>2, BreaksOfLine
    <2> HIDE DEF b
    <2>2. b \in Seq(Nat \ {0})
      <3>1. b \in Seq(1..Len(line)) /\ 1..Len(line) \subseteq Nat \ {0}
        BY <2>1 DEF Broken
      <3> QED
        BY <3>1
    <2> QED
      BY <2>1, <2>2 DEF Broken, Starts, b
  <1> QED
    BY <1>1, <1>2

RowSet == [line : Nat, start : Nat, stop : Nat, chars : Seq(Chars)]

LEMMA RowParts ==
  ASSUME NEW row \in RowSet
  PROVE  /\ row.line \in Nat /\ row.start \in Nat /\ row.stop \in Nat
         /\ row.chars \in Seq(Chars) /\ Len(row.chars) \in Nat
  <1>1. /\ row.line \in Nat /\ row.start \in Nat /\ row.stop \in Nat
        /\ row.chars \in Seq(Chars)
    BY DEF RowSet
  <1> QED
    BY <1>1

(* A row k of line n with starts b.                                        *)
StartAfter(line, b, k) == IF k = Len(b) THEN Len(line) + 1 ELSE b[k + 1]

RowFits(row, line, n, b, k) ==
    /\ row \in RowSet /\ row.line = n /\ row.start = b[k] - 1
    /\ row.stop = IF k = Len(b) THEN Len(line) ELSE b[k + 1] - 2
    /\ Len(row.chars) = StartAfter(line, b, k) - b[k]
    /\ \A i \in 1..Len(row.chars) : row.chars[i] = line[row.start + i]

LEMMA RowsFitLine ==
  ASSUME NEW line \in Seq(Chars), NEW n \in Nat
  PROVE  /\ Starts(line, Breaks(line))
         /\ RowsOfLine(line, n) \in Seq(RowSet)
         /\ Len(RowsOfLine(line, n)) = Len(Breaks(line))
         /\ \A k \in 1..Len(Breaks(line)) :
               RowFits(RowsOfLine(line, n)[k], line, n, Breaks(line), k)
  <1> DEFINE b == Breaks(line)
             m == Len(b)
             len == Len(line)
             next(k) == StartAfter(line, b, k)
             StopOf(k) == IF k = m THEN len ELSE next(k) - 2
             Row(k) == [line |-> n, start |-> b[k] - 1, stop |-> StopOf(k),
                        chars |-> SubSeq(line, b[k], next(k) - 1)]
             R == RowsOfLine(line, n)
  <1>1. Starts(line, b)
    BY BreaksAreStarts
  <1>2. R = [k \in DOMAIN b |-> Row(k)]
    BY DEF RowsOfLine, StartAfter
  <1> HIDE DEF b, R
  <1>3. m \in Nat /\ m >= 1 /\ len \in Nat /\ DOMAIN b = 1..m
        /\ \A k \in 1..m : b[k] \in Nat /\ b[k] >= 1
    BY <1>1 DEF Starts
  <1> HIDE DEF m, len, next
  <1>4. ASSUME NEW k \in 1..m
        PROVE  /\ next(k) \in Nat /\ b[k] <= next(k) /\ next(k) <= len + 1
               /\ k # m => b[k] < next(k) /\ next(k) = b[k + 1]
    <2>1. CASE k = m
      <3>1. b[k] <= len + 1
        <4>1. k = 1 \/ k \in 2..m
          BY <1>3
        <4> QED
          BY <1>1, <1>3, <4>1 DEF Starts, m, len
      <3>2. next(k) = len + 1
        BY <2>1 DEF StartAfter, next, m, len
      <3> QED
        BY <1>3, <2>1, <3>1, <3>2
    <2>2. CASE k # m
      <3>1. k + 1 \in 1..m /\ k + 1 \in 2..m /\ k < k + 1
        BY <1>3, <2>2
      <3>2. b[k] < b[k + 1] /\ b[k + 1] <= len
        BY <1>1, <3>1 DEF Starts, m, len
      <3>3. next(k) = b[k + 1]
        BY <2>2 DEF StartAfter, next, m, len
      <3>4. b[k] \in Nat /\ b[k + 1] \in Nat
        BY <1>3, <3>1
      <3> QED
        BY <1>3, <2>2, <3>2, <3>3, <3>4
    <2> QED
      BY <2>1, <2>2
  <1>5. ASSUME NEW k \in 1..m
        PROVE  RowFits(Row(k), line, n, b, k)
    <2> DEFINE a == b[k]
               c == next(k) - 1
               s == SubSeq(line, a, c)
    <2>1. a \in Nat /\ c \in Int /\ a >= 1 /\ c >= a - 1 /\ c <= len
      BY <1>3, <1>4
    <2> HIDE DEF a, c
    <2>9. len = Len(line)
      BY DEF len
    <2>2. /\ s \in Seq(Chars) /\ Len(s) = c - a + 1
          /\ \A i \in 1..Len(s) : s[i] = line[a - 1 + i]
      BY <2>1, <2>9
    <2>3. StopOf(k) \in Nat /\ StopOf(k) = IF k = m THEN len ELSE b[k + 1] - 2
      BY <1>3, <1>4
    <2>4. Len(s) = next(k) - b[k] /\ b[k] - 1 \in Nat
      <3>1. Len(s) = (next(k) - 1) - b[k] + 1
        BY <2>2 DEF a, c
      <3> HIDE DEF s
      <3> QED
        BY <1>3, <1>4, <3>1
    <2> DEFINE row == Row(k)
    <2> HIDE DEF StopOf
    <2>5. row.line = n /\ row.start = b[k] - 1 /\ row.stop = StopOf(k) /\ row.chars = s
      BY DEF a, c
    <2>6. row \in RowSet
      <3> DEFINE x == b[k] - 1
                 y == StopOf(k)
                 z == SubSeq(line, b[k], next(k) - 1)
      <3>1. x \in Nat /\ y \in Nat /\ z \in Seq(Chars)
        BY <2>2, <2>3, <2>4 DEF a, c
      <3> HIDE DEF x, y, z
      <3>2. [line |-> n, start |-> x, stop |-> y, chars |-> z] \in RowSet
        BY <3>1 DEF RowSet
      <3> QED
        BY <3>2 DEF x, y, z
    <2> HIDE DEF row, s, StopOf
    <2>7. \A i \in 1..Len(s) : s[i] = line[b[k] - 1 + i]
      BY <2>2 DEF a
    <2>8. row.start = b[k] - 1 /\ row.chars = s
      BY <2>5
    <2> QED
      BY <2>3, <2>4, <2>5, <2>6, <2>7, <2>8, <2>9 DEF RowFits, row, next, m
  <1> HIDE DEF Row
  <1>6. \A k \in 1..m : Row(k) \in RowSet
    BY <1>5 DEF RowFits
  <1>7. R \in Seq(RowSet) /\ Len(R) = m /\ \A k \in 1..m : R[k] = Row(k)
    BY <1>2, <1>3, <1>6 DEF m
  <1> QED
    BY <1>1, <1>5, <1>7 DEF R, b, m

(* A column of a line is in one of its rows.                               *)
LastColumn(line, b, k) == IF k = Len(b) THEN Len(line) ELSE b[k + 1] - 2

LEMMA ColumnInLine ==
  ASSUME NEW line \in Seq(Chars), NEW b, Starts(line, b), NEW x \in 0..Len(line)
  PROVE  \E k \in 1..Len(b) : \A j \in 1..Len(b) :
            b[j] - 1 <= x /\ x <= LastColumn(line, b, j) <=> j = k
  <1> DEFINE m == Len(b)
             T == {k \in 1..m : k = m \/ x + 1 < b[k + 1]}
  <1>1. m \in Nat /\ m >= 1 /\ b[1] = 1 /\ \A k \in 1..m : b[k] \in Nat
    BY DEF Starts
  <1>2. \A j, k \in 1..m : j < k => b[j] < b[k]
    BY DEF Starts
  <1>3. x \in Nat /\ Len(line) \in Nat /\ x <= Len(line)
    OBVIOUS
  <1>4. \A k \in 1..m : LastColumn(line, b, k) = IF k = m THEN Len(line) ELSE b[k + 1] - 2
    BY DEF LastColumn
  <1> HIDE DEF m
  <1>5. PICK k \in T : \A j \in T : k <= j
    <2>1. m \in T /\ T \subseteq Nat
      BY <1>1
    <2> HIDE DEF T
    <2> QED
      BY <2>1, LeastNumber, Zenon
  <1>6. k \in 1..m /\ (k = m \/ x + 1 < b[k + 1])
    OBVIOUS
  <1>7. b[k] <= x + 1
    <2>1. CASE k = 1
      BY <1>1, <1>3, <2>1
    <2>2. CASE k # 1
      <3>1. k - 1 \in 1..m /\ (k - 1) + 1 = k /\ k - 1 # m /\ ~(k <= k - 1)
        BY <1>1, <1>6, <2>2
      <3>2. ~(k - 1 \in T)
        BY <1>5, <3>1
      <3>3. ~(x + 1 < b[k])
        BY <3>1, <3>2
      <3> HIDE DEF T
      <3> QED
        BY <1>1, <1>3, <1>6, <3>3
    <2> QED
      BY <2>1, <2>2
  <1> HIDE DEF T
  <1>8. ASSUME NEW j \in 1..m
        PROVE  b[j] - 1 <= x /\ x <= LastColumn(line, b, j) <=> j = k
    <2>1. CASE j = k
      <3>1. k # m => k + 1 \in 1..m
        BY <1>1, <1>6
      <3>2. x <= LastColumn(line, b, k)
        BY <1>1, <1>3, <1>4, <1>6, <3>1
      <3> QED
        BY <1>1, <1>3, <1>6, <1>7, <2>1, <3>2
    <2>2. CASE j < k
      <3>1. j + 1 \in 1..m /\ j # m
        BY <1>1, <1>6, <2>2
      <3>2. b[j + 1] <= b[k]
        <4>1. j + 1 = k \/ j + 1 < k
          BY <1>6, <2>2
        <4> QED
          BY <1>1, <1>2, <1>6, <3>1, <4>1
      <3>3. LastColumn(line, b, j) = b[j + 1] - 2
        BY <1>4, <3>1
      <3> QED
        BY <1>1, <1>3, <1>6, <1>7, <2>2, <3>1, <3>2, <3>3
    <2>3. CASE j > k
      <3>1. k # m /\ k + 1 \in 1..m
        BY <1>1, <1>6, <2>3
      <3>2. b[k + 1] <= b[j]
        <4>1. k + 1 = j \/ k + 1 < j
          BY <1>6, <2>3
        <4> QED
          BY <1>1, <1>2, <1>6, <3>1, <4>1
      <3> QED
        BY <1>1, <1>3, <1>6, <2>3, <3>1, <3>2
    <2> QED
      BY <1>6, <2>1, <2>2, <2>3
  <1> QED
    BY <1>6, <1>8 DEF m

-----------------------------------------------------------------------------
(* Wrapping a text.                                                        *)
RowsOfLines(text) == [n \in 1..Len(text) |-> RowsOfLine(text[n], n - 1)]

LEMMA WrapPlaces ==
  ASSUME NEW text \in Seq(Seq(Chars))
  PROVE  /\ Wrap(text) \in Seq(RowSet)
         /\ \E off : Places(off, RowsOfLines(text), Wrap(text))
         /\ Len(RowsOfLines(text)) = Len(text)
         /\ \A n \in 1..Len(text) :
               /\ text[n] \in Seq(Chars) /\ n - 1 \in Nat
               /\ RowsOfLines(text)[n] = RowsOfLine(text[n], n - 1)
  <1> DEFINE s == RowsOfLines(text)
  <1>1. \A n \in 1..Len(text) : text[n] \in Seq(Chars) /\ n - 1 \in Nat
    OBVIOUS
  <1>2. \A n \in 1..Len(text) : RowsOfLine(text[n], n - 1) \in Seq(RowSet)
    BY <1>1, RowsFitLine
  <1>3. Len(text) \in Nat /\ DOMAIN text = 1..Len(text)
    OBVIOUS
  <1>4. /\ s \in Seq(Seq(RowSet)) /\ Len(s) = Len(text)
        /\ \A n \in 1..Len(text) : s[n] = RowsOfLine(text[n], n - 1)
    BY <1>2, <1>3 DEF RowsOfLines
  <1>5. Wrap(text) = FlattenSeq(s)
    BY <1>3, Zenon DEF Wrap, RowsOfLines
  <1> HIDE DEF s
  <1>6. FlattenSeq(s) \in Seq(RowSet) /\ \E off : Places(off, s, FlattenSeq(s))
    BY <1>4, FlattenPlaces, Zenon
  <1> QED
    BY <1>1, <1>4, <1>5, <1>6 DEF s

(* Each row is one of the rows of its line, and they are all there.        *)
LEMMA ColumnsHaveOneRow ==
  ASSUME NEW text \in Seq(Seq(Chars))
  PROVE  ColumnsHaveOneRowIn(text)
  <1> DEFINE rows == Wrap(text)
             s == RowsOfLines(text)
  <1>0. rows \in Seq(RowSet)
    BY WrapPlaces
  <1>1. PICK off : Places(off, s, rows)
    BY WrapPlaces
  <1>10. DOMAIN text = 1..Len(text) /\ DOMAIN rows = 1..Len(rows)
    BY <1>0
  <1> SUFFICES ASSUME NEW n \in DOMAIN text, NEW x \in 0..Len(text[n])
               PROVE  \E r \in DOMAIN rows : \A q \in DOMAIN rows :
                        rows[q].line = n - 1 /\ x \in rows[q].start..rows[q].stop <=> q = r
    BY Zenon DEF ColumnsHaveOneRowIn
  <1>11. n \in 1..Len(text)
    BY <1>10
  <1> DEFINE b == Breaks(text[n])
  <1>2. /\ Len(s) = Len(text)
        /\ \A i \in 1..Len(text) : /\ text[i] \in Seq(Chars) /\ i - 1 \in Nat
                                   /\ s[i] = RowsOfLine(text[i], i - 1)
    BY WrapPlaces
  <1>3. \A i \in 1..Len(text) :
           /\ Len(s[i]) = Len(Breaks(text[i]))
           /\ \A k \in 1..Len(s[i]) : RowFits(s[i][k], text[i], i - 1, Breaks(text[i]), k)
    BY <1>2, RowsFitLine
  <1>4. PICK m \in 1..Len(b) : \A j \in 1..Len(b) :
            b[j] - 1 <= x /\ x <= LastColumn(text[n], b, j) <=> j = m
    BY <1>2, <1>11, BreaksAreStarts, ColumnInLine
  <1> HIDE DEF rows, s, b
  <1>5. Len(s[n]) = Len(b) /\ m \in 1..Len(s[n])
    BY <1>3, <1>11 DEF b
  <1> DEFINE r == off[n - 1] + m
  <1>6. \A k \in 1..Len(s[n]) : rows[off[n - 1] + k] = s[n][k]
    BY <1>1, <1>2, <1>11 DEF Places
  <1>7. r \in 1..Len(rows)
    <2>1. n - 1 \in 0..Len(s) /\ n \in 0..Len(s) /\ n \in 1..Len(s)
      BY <1>2, <1>11
    <2>2. /\ off[n - 1] \in Nat /\ off[n] \in Nat
          /\ off[n] = off[n - 1] + Len(s[n]) /\ off[n] <= Len(rows)
      BY <1>1, <2>1 DEF Places
    <2>3. m \in Nat /\ m >= 1 /\ m <= Len(s[n]) /\ Len(s[n]) \in Nat
      <3>1. s[n] \in Seq(RowSet)
        BY <1>2, <1>11, RowsFitLine
      <3> QED
        BY <1>5, <3>1
    <2>4. Len(rows) \in Nat
      BY <1>0
    <2> DEFINE o == off[n - 1]
               p == off[n]
               l == Len(s[n])
    <2>5. o \in Nat /\ p \in Nat /\ p = o + l /\ p <= Len(rows) /\ l \in Nat /\ m <= l
      BY <2>2, <2>3
    <2> HIDE DEF o, p, l
    <2>6. o + m \in 1..Len(rows)
      BY <2>3, <2>4, <2>5
    <2> QED
      BY <2>6 DEF o
  <1>8. \A k \in 1..Len(b) :
           x \in s[n][k].start..s[n][k].stop <=> k = m
    <2> SUFFICES ASSUME NEW k \in 1..Len(b)
                 PROVE  x \in s[n][k].start..s[n][k].stop
                          <=> b[k] - 1 <= x /\ x <= LastColumn(text[n], b, k)
      BY <1>4
    <2> DEFINE row == s[n][k]
    <2>1. RowFits(row, text[n], n - 1, b, k)
      BY <1>3, <1>5, <1>11 DEF b
    <2> HIDE DEF row
    <2>2. row.start = b[k] - 1 /\ row.stop = LastColumn(text[n], b, k)
          /\ row.start \in Nat /\ row.stop \in Nat
      BY <2>1 DEF RowFits, LastColumn, RowSet
    <2>3. x \in Nat
      OBVIOUS
    <2>4. x \in row.start..row.stop <=> b[k] - 1 <= x /\ x <= LastColumn(text[n], b, k)
      BY <2>2, <2>3
    <2> QED
      BY <2>4 DEF row
  <1>9. ASSUME NEW q \in 1..Len(rows)
        PROVE  rows[q].line = n - 1 /\ x \in rows[q].start..rows[q].stop <=> q = r
    <2>1. PICK i \in 1..Len(s) : \E k \in 1..Len(s[i]) : q = off[i - 1] + k
      BY <1>1 DEF Places
    <2>2. PICK k \in 1..Len(s[i]) : q = off[i - 1] + k
      BY <2>1
    <2>3. rows[q] = s[i][k]
      BY <1>1, <2>2 DEF Places
    <2>4. i \in 1..Len(text) /\ rows[q].line = i - 1
      BY <1>2, <1>3, <2>3 DEF RowFits
    <2>5. rows[r] = s[n][m] /\ s[n][m].line = n - 1
      BY <1>3, <1>5, <1>6, <1>11 DEF RowFits, r
    <2>6. rows[q].line = n - 1 => i = n
      BY <1>11, <2>4
    <2>7. q = r => rows[q].line = n - 1 /\ x \in rows[q].start..rows[q].stop
      BY <1>5, <1>8, <2>5
    <2>8. i = n /\ x \in rows[q].start..rows[q].stop => k = m
      BY <1>5, <1>8, <2>3
    <2> QED
      BY <2>2, <2>6, <2>7, <2>8
  <1> HIDE DEF r
  <1>12. r \in DOMAIN rows
    BY <1>7, <1>10
  <1>13. ASSUME NEW q \in DOMAIN rows
         PROVE  rows[q].line = n - 1 /\ x \in rows[q].start..rows[q].stop <=> q = r
    BY <1>9, <1>10
  <1> QED
    BY <1>12, <1>13, Zenon

(* The rows of a text follow each other through its lines, each from its   *)
(* first character to its last one.                                        *)
RowEnd(row) == row.start + Len(row.chars)

InItsLine(row, text) ==
    /\ row.line + 1 \in 1..Len(text)
    /\ RowEnd(row) <= Len(text[row.line + 1])
    /\ \A i \in 1..Len(row.chars) : row.chars[i] = text[row.line + 1][row.start + i]

EndsItsLine(row, text) == RowEnd(row) = Len(text[row.line + 1])

ComesAfter(row, next, text) ==
    \/ next.line = row.line /\ next.start = RowEnd(row)
    \/ next.line = row.line + 1 /\ next.start = 0 /\ EndsItsLine(row, text)

Chained(text, rows) ==
    /\ rows \in Seq(RowSet)
    /\ text # <<>> <=> rows # <<>>
    /\ \A r \in 1..Len(rows) :
          /\ InItsLine(rows[r], text)
          /\ r = 1 => rows[r].line = 0 /\ rows[r].start = 0
          /\ r = Len(rows) => rows[r].line + 1 = Len(text) /\ EndsItsLine(rows[r], text)
          /\ r + 1 <= Len(rows) => ComesAfter(rows[r], rows[r + 1], text)

LEMMA RowsOfALine ==
  ASSUME NEW line \in Seq(Chars), NEW n \in Nat, NEW text \in Seq(Seq(Chars)),
         n + 1 \in 1..Len(text), text[n + 1] = line
  PROVE  LET s == RowsOfLine(line, n)
         IN  /\ s \in Seq(RowSet) /\ Len(s) \in Nat /\ Len(s) >= 1
             /\ \A k \in 1..Len(s) :
                   /\ s[k] \in RowSet /\ InItsLine(s[k], text) /\ s[k].line = n
                   /\ k = 1 => s[k].start = 0
                   /\ k = Len(s) => EndsItsLine(s[k], text)
                   /\ k + 1 <= Len(s) => s[k + 1].start = RowEnd(s[k])
  <1> DEFINE s == RowsOfLine(line, n)
             b == Breaks(line)
             m == Len(s)
             len == Len(line)
  <1>1. /\ Starts(line, b) /\ s \in Seq(RowSet) /\ Len(s) = Len(b)
        /\ \A k \in 1..Len(b) : RowFits(s[k], line, n, b, k)
    BY RowsFitLine
  <1> HIDE DEF s, b
  <1>2. m \in Nat /\ m >= 1 /\ len \in Nat
    BY <1>1 DEF Starts
  <1>3. m = Len(b) /\ b[1] = 1 /\ \A k \in 1..m : b[k] \in Nat
    BY <1>1 DEF Starts
  <1> HIDE DEF m
  <1>4. ASSUME NEW k \in 1..m
        PROVE  /\ s[k] \in RowSet /\ InItsLine(s[k], text) /\ s[k].line = n
               /\ k = 1 => s[k].start = 0
               /\ k = m => EndsItsLine(s[k], text)
               /\ k + 1 <= m => s[k + 1].start = RowEnd(s[k])
    <2> DEFINE row == s[k]
    <2>1. RowFits(row, line, n, b, k)
      BY <1>1, <1>3
    <2>2. k + 1 <= m => k + 1 \in 1..m /\ s[k + 1].start = b[k + 1] - 1
      <3>1. k + 1 <= m => k + 1 \in 1..m
        BY <1>2
      <3>2. \A j \in 1..m : s[j].start = b[j] - 1
        BY <1>1, <1>3 DEF RowFits
      <3> QED
        BY <3>1, <3>2
    <2> HIDE DEF row
    <2>3. /\ row \in RowSet /\ row.line = n /\ row.start = b[k] - 1 /\ row.start \in Nat
          /\ row.chars \in Seq(Chars)
          /\ \A i \in 1..Len(row.chars) : row.chars[i] = line[row.start + i]
      BY <2>1 DEF RowFits, RowSet
    <2>4. RowEnd(row) = StartAfter(line, b, k) - 1
      <3>1. Len(row.chars) = StartAfter(line, b, k) - b[k] /\ Len(row.chars) \in Nat
        BY <2>1, <2>3 DEF RowFits
      <3>2. StartAfter(line, b, k) \in Int
        <4>1. k # m => k + 1 \in 1..m
          BY <1>2
        <4> QED
          BY <1>2, <1>3, <4>1 DEF StartAfter
      <3>3. b[k] \in Nat
        BY <1>3
      <3> QED
        BY <2>3, <3>1, <3>2, <3>3 DEF RowEnd
    <2>5. k = m => StartAfter(line, b, k) = len + 1
      BY <1>3 DEF StartAfter
    <2>6. k + 1 <= m => StartAfter(line, b, k) = b[k + 1] /\ b[k + 1] <= len /\ b[k + 1] \in Nat
      <3>1. k + 1 <= m => k # m /\ k + 1 \in 2..m /\ k + 1 \in 1..m
        BY <1>2
      <3>2. \A j \in 2..m : b[j] <= len
        BY <1>1, <1>3 DEF Starts
      <3> QED
        BY <1>3, <3>1, <3>2 DEF StartAfter
    <2>7. k = m \/ k + 1 <= m
      BY <1>2
    <2>8. RowEnd(row) <= len /\ (k = m => RowEnd(row) = len)
      BY <1>2, <2>4, <2>5, <2>6, <2>7
    <2>9. InItsLine(row, text) /\ (k = m => EndsItsLine(row, text))
      BY <2>3, <2>8 DEF InItsLine, EndsItsLine
    <2>10. k = 1 => row.start = 0
      BY <1>3, <2>3
    <2> QED
      BY <2>2, <2>3, <2>4, <2>6, <2>9, <2>10 DEF row
  <1> QED
    BY <1>1, <1>2, <1>4 DEF s, m

LEMMA WrapChains ==
  ASSUME NEW text \in Seq(Seq(Chars))
  PROVE  Chained(text, Wrap(text))
  <1> DEFINE rows == Wrap(text)
             s == RowsOfLines(text)
             N == Len(text)
             M == Len(rows)
  <1>0. rows \in Seq(RowSet)
    BY WrapPlaces
  <1>1. PICK off : Places(off, s, rows)
    BY WrapPlaces
  <1>2. /\ Len(s) = N
        /\ \A i \in 1..N : /\ text[i] \in Seq(Chars) /\ i - 1 \in Nat
                           /\ s[i] = RowsOfLine(text[i], i - 1)
    BY WrapPlaces
  <1>3. ASSUME NEW i \in 1..N
        PROVE  /\ Len(s[i]) \in Nat /\ Len(s[i]) >= 1
               /\ \A k \in 1..Len(s[i]) :
                   /\ InItsLine(s[i][k], text) /\ s[i][k].line = i - 1
                   /\ k = 1 => s[i][k].start = 0
                   /\ k = Len(s[i]) => EndsItsLine(s[i][k], text)
                   /\ k + 1 <= Len(s[i]) => s[i][k + 1].start = RowEnd(s[i][k])
    <2>1. (i - 1) + 1 = i
      OBVIOUS
    <2> HIDE DEF s, rows
    <2> QED
      BY <1>2, <2>1, RowsOfALine
  <1> HIDE DEF s, rows
  <1>4. N \in Nat /\ M \in Nat /\ (text = <<>> <=> N = 0) /\ (rows = <<>> <=> M = 0)
    BY <1>0
  <1> HIDE DEF N, M
  <1>5. /\ off[0] = 0 /\ M = off[N]
        /\ \A i \in 0..N : off[i] \in Nat
        /\ \A i \in 1..N : off[i] = off[i - 1] + Len(s[i]) /\ off[i] <= M
        /\ \A i \in 1..N : \A k \in 1..Len(s[i]) : rows[off[i - 1] + k] = s[i][k]
        /\ \A r \in 1..M : \E i \in 1..N : \E k \in 1..Len(s[i]) : r = off[i - 1] + k
    BY <1>1, <1>2 DEF Places, M, N
  <1>6. N # 0 <=> M # 0
    <2>1. CASE N = 0
      BY <1>5, <2>1
    <2>2. CASE N # 0
      <3>1. N \in 1..N /\ N - 1 \in 0..N
        BY <1>4, <2>2
      <3>2. off[N] = off[N - 1] + Len(s[N]) /\ off[N - 1] \in Nat
        BY <1>5, <3>1
      <3>3. Len(s[N]) \in Nat /\ Len(s[N]) >= 1
        BY <1>3, <3>1
      <3> QED
        BY <1>5, <2>2, <3>2, <3>3
    <2> QED
      BY <2>1, <2>2
  <1>7. ASSUME NEW r \in 1..M
        PROVE  /\ InItsLine(rows[r], text)
               /\ r = 1 => rows[r].line = 0 /\ rows[r].start = 0
               /\ r = M => rows[r].line + 1 = N /\ EndsItsLine(rows[r], text)
               /\ r + 1 <= M => ComesAfter(rows[r], rows[r + 1], text)
    <2>1. PICK i \in 1..N : \E k \in 1..Len(s[i]) : r = off[i - 1] + k
      BY <1>5
    <2>2. PICK k \in 1..Len(s[i]) : r = off[i - 1] + k
      BY <2>1
    <2>3. rows[r] = s[i][k]
      BY <1>5, <2>2
    <2> DEFINE o == off[i - 1]
               l == Len(s[i])
    <2>4. /\ i \in Nat /\ i >= 1 /\ i <= N /\ i - 1 \in 0..N /\ i \in 0..N
      BY <1>4
    <2>5. /\ o \in Nat /\ l \in Nat /\ l >= 1 /\ off[i] = o + l /\ off[i] <= M
          /\ r = o + k /\ off[i] \in Nat
      BY <1>3, <1>5, <2>2, <2>4
    <2>6. InItsLine(rows[r], text) /\ rows[r].line = i - 1
          /\ (k = 1 => rows[r].start = 0) /\ (k = l => EndsItsLine(rows[r], text))
      BY <1>3, <2>3
    <2>7. /\ \A j \in 1..l : rows[o + j] = s[i][j]
          /\ k + 1 <= l => s[i][k + 1].start = RowEnd(s[i][k])
                           /\ s[i][k + 1].line = i - 1
      <3>1. \A j \in 1..l : rows[o + j] = s[i][j]
        BY <1>5
      <3>2. k + 1 <= l => s[i][k + 1].start = RowEnd(s[i][k])
        BY <1>3
      <3>3. k + 1 <= l => k + 1 \in 1..l
        BY <2>5
      <3>4. \A j \in 1..l : s[i][j].line = i - 1
        BY <1>3
      <3> QED
        BY <3>1, <3>2, <3>3, <3>4
    <2>8. k \in 1..l /\ k \in Nat
      BY <2>5
    <2> HIDE DEF o, l
    <2>9. r = 1 => rows[r].line = 0 /\ rows[r].start = 0
      <3> SUFFICES ASSUME r = 1 PROVE i = 1 /\ k = 1
        BY <2>6
      <3>1. o = 0 /\ k = 1
        BY <2>5, <2>8
      <3>2. i = 1
        <4> SUFFICES ASSUME i # 1 PROVE FALSE
          OBVIOUS
        <4>1. i - 1 \in 1..N /\ i - 2 \in 0..N /\ (i - 1) - 1 = i - 2
          BY <1>4, <2>4
        <4>2. off[i - 1] = off[i - 2] + Len(s[i - 1]) /\ off[i - 2] \in Nat
          BY <1>5, <4>1
        <4>3. Len(s[i - 1]) \in Nat /\ Len(s[i - 1]) >= 1
          BY <1>3, <4>1
        <4> QED
          BY <3>1, <4>2, <4>3 DEF o
      <3> QED
        BY <3>1, <3>2
    <2>10. CASE k + 1 <= l
      <3>1. k + 1 \in 1..l /\ o + (k + 1) = r + 1 /\ r < M
        BY <1>4, <2>5, <2>8, <2>10
      <3>2. rows[r + 1] = s[i][k + 1]
        BY <2>7, <3>1
      <3>3. ComesAfter(rows[r], rows[r + 1], text)
        BY <2>3, <2>6, <2>7, <2>10, <3>2 DEF ComesAfter
      <3> QED
        BY <2>6, <2>9, <3>1, <3>3
    <2>11. CASE ~(k + 1 <= l)
      <3>1. k = l /\ r = off[i]
        BY <2>5, <2>8, <2>11
      <3>2. CASE i = N
        <4>1. r = M /\ ~(r + 1 <= M)
          BY <1>5, <3>1, <3>2
        <4> QED
          BY <2>4, <2>6, <2>9, <3>1, <3>2, <4>1
      <3>3. CASE i # N
        <4>1. i + 1 \in 1..N /\ (i + 1) - 1 = i
          BY <1>4, <2>4, <3>3
        <4>2. off[i + 1] = off[i] + Len(s[i + 1]) /\ off[i + 1] <= M
          BY <1>5, <4>1
        <4>3. Len(s[i + 1]) \in Nat /\ Len(s[i + 1]) >= 1
          BY <1>3, <4>1
        <4>4. 1 \in 1..Len(s[i + 1])
          BY <4>3
        <4>5. rows[off[(i + 1) - 1] + 1] = s[i + 1][1]
          BY <1>5, <4>1, <4>4
        <4>6. rows[r + 1] = s[i + 1][1]
          BY <3>1, <4>1, <4>5
        <4>7. s[i + 1][1].line = (i + 1) - 1 /\ s[i + 1][1].start = 0
          BY <1>3, <4>1, <4>4
        <4>8. r # M
          <5> DEFINE p == off[i]
                     q == Len(s[i + 1])
          <5>1. p + q <= M /\ p \in Nat /\ q \in Nat /\ q >= 1 /\ r = p
            BY <2>5, <3>1, <4>2, <4>3
          <5> HIDE DEF p, q
          <5> QED
            BY <1>4, <5>1
        <4>9. ComesAfter(rows[r], rows[r + 1], text)
          BY <2>4, <2>6, <3>1, <4>1, <4>6, <4>7 DEF ComesAfter
        <4> QED
          BY <2>6, <2>9, <4>8, <4>9
      <3> QED
        BY <3>2, <3>3
    <2> QED
      BY <2>10, <2>11
  <1> QED
    BY <1>0, <1>4, <1>6, <1>7 DEF Chained, rows, N, M

-----------------------------------------------------------------------------
(* Joining rows.                                                           *)
LEMMA SameSequence ==
  ASSUME NEW D, NEW a \in Seq(D), NEW b \in Seq(D), Len(a) = Len(b),
         \A i \in 1..Len(b) : a[i] = b[i]
  PROVE  a = b
  OBVIOUS

Joined(t, chars, rows, r) ==
    IF r <= Len(rows) /\ rows[r].line < Len(t)
    THEN [t EXCEPT ![rows[r].line + 1] = @ \o chars[r]]
    ELSE Append(t, chars[r])

LEMMA JoinedIsText ==
  ASSUME NEW chars \in Seq(Seq(Chars)), NEW rows \in Seq(RowSet),
         NEW t \in Seq(Seq(Chars)), NEW r \in 1..Len(chars)
  PROVE  Joined(t, chars, rows, r) \in Seq(Seq(Chars))
  <1>1. chars[r] \in Seq(Chars)
    OBVIOUS
  <1>2. CASE r <= Len(rows) /\ rows[r].line < Len(t)
    <2> DEFINE k == rows[r].line + 1
               v == t[k] \o chars[r]
    <2>1. rows[r] \in RowSet
      BY <1>2
    <2>2. k \in 1..Len(t)
      <3>1. rows[r].line \in Nat /\ rows[r].line < Len(t) /\ Len(t) \in Nat
        BY <1>2, <2>1, RowParts
      <3> QED
        BY <3>1
    <2>3. Joined(t, chars, rows, r) = [t EXCEPT ![k] = v]
      BY <1>2 DEF Joined
    <2>4. v \in Seq(Chars)
      <3> HIDE DEF k
      <3>1. t[k] \in Seq(Chars)
        BY <2>2
      <3> QED
        BY <1>1, <3>1
    <2> HIDE DEF k, v
    <2> QED
      BY <2>2, <2>3, <2>4
  <1>3. CASE ~(r <= Len(rows) /\ rows[r].line < Len(t))
    <2>1. Joined(t, chars, rows, r) = Append(t, chars[r])
      BY <1>3 DEF Joined
    <2> QED
      BY <1>1, <2>1
  <1> QED
    BY <1>2, <1>3

LEMMA UnwrapSteps ==
  ASSUME NEW chars \in Seq(Seq(Chars)), NEW rows \in Seq(RowSet)
  PROVE  \E f \in [0..Len(chars) -> Seq(Seq(Chars))] :
            /\ f[0] = <<>>
            /\ \A r \in 1..Len(chars) : f[r] = Joined(f[r - 1], chars, rows, r)
            /\ Unwrap(chars, rows) = f[Len(chars)]
  <1> DEFINE n == Len(chars)
             T == Seq(Seq(Chars))
             none == <<>>
             After(t, i) == Joined(t, chars, rows, i)
             Def(f) == [i \in 0..n |-> IF i = 0 THEN none ELSE After(f[i - 1], i)]
             h == [i \in 1..n |-> [t \in T |-> After(t, i)]]
             g == CHOOSE f : f = Def(f)
  <1>1. n \in Nat /\ none \in T
    OBVIOUS
  <1>2. Unwrap(chars, rows) = g[n]
    BY Zenon DEF Unwrap, Joined
  <1>3. \A i \in 1..n : \A t \in T : After(t, i) \in T
    BY JoinedIsText
  <1> HIDE DEF n, T, After, none
  <1>5. h \in [1..n -> [T -> T]] /\ \A i \in 1..n : \A t \in T : h[i][t] = After(t, i)
    BY <1>3
  <1> HIDE DEF h
  <1>6. PICK f \in [0..n -> T] : Iterates(f, none, h, n)
    BY <1>1, <1>5, Recursion, Zenon
  <1>7. f[0] = none /\ \A i \in 1..n : f[i] = After(f[i - 1], i)
    <2>1. \A i \in 1..n : f[i - 1] \in T
      BY <1>1
    <2> QED
      BY <1>5, <1>6, <2>1 DEF Iterates
  <1>8. f = Def(f)
    <2>1. \A i \in 0..n : f[i] = IF i = 0 THEN none ELSE After(f[i - 1], i)
      BY <1>1, <1>7
    <2> QED
      BY <2>1
  <1>9. g = Def(g)
    <2> HIDE DEF Def
    <2> QED
      BY <1>8
  <1> HIDE DEF g
  <1>10. g[0] = none /\ \A i \in 1..n : g[i] = After(g[i - 1], i)
    BY <1>1, <1>9
  <1>11. \A i \in 0..n : g[i] \in T
    <2>1. g[0] \in T /\ \A i \in 1..n : g[i - 1] \in T => g[i] \in T
      BY <1>1, <1>3, <1>10
    <2> QED
      BY <1>1, <2>1, Recursive, Zenon
  <1>12. g \in [0..n -> T]
    <2>1. g = [i \in 0..n |-> IF i = 0 THEN none ELSE After(g[i - 1], i)]
      BY <1>9
    <2>2. g = [i \in 0..n |-> g[i]]
      BY <2>1
    <2> QED
      BY <1>11, <2>2
  <1> QED
    BY <1>2, <1>10, <1>12 DEF n, T, After, none

(* The first n lines of a text, and the first e characters of line n after *)
(* those before it.                                                        *)
WholeUpTo(t, text, n) ==
    /\ t \in Seq(Seq(Chars)) /\ Len(t) = n
    /\ \A j \in 1..n : t[j] = text[j]

PartUpTo(t, text, n, e) ==
    /\ t \in Seq(Seq(Chars)) /\ Len(t) = n /\ n \in 1..Len(text)
    /\ \A j \in 1..(n - 1) : t[j] = text[j]
    /\ Len(t[n]) = e /\ e <= Len(text[n])
    /\ \A i \in 1..e : t[n][i] = text[n][i]

LEMMA LineDone ==
  ASSUME NEW text \in Seq(Seq(Chars)), NEW t, NEW n,
         PartUpTo(t, text, n, Len(text[n]))
  PROVE  WholeUpTo(t, text, n)
  <1>1. /\ t \in Seq(Seq(Chars)) /\ Len(t) = n /\ n \in 1..Len(text)
        /\ \A j \in 1..(n - 1) : t[j] = text[j]
        /\ Len(t[n]) = Len(text[n])
        /\ \A i \in 1..Len(text[n]) : t[n][i] = text[n][i]
    BY DEF PartUpTo
  <1> DEFINE a == t[n]
             c == text[n]
  <1>2. a \in Seq(Chars) /\ c \in Seq(Chars)
    BY <1>1
  <1>3. Len(a) = Len(c) /\ \A i \in 1..Len(c) : a[i] = c[i]
    BY <1>1
  <1> HIDE DEF a, c
  <1>4. a = c
    BY <1>2, <1>3
  <1>5. \A j \in 1..n : j = n \/ j \in 1..(n - 1)
    BY <1>1
  <1> QED
    BY <1>1, <1>4, <1>5 DEF WholeUpTo, a, c

LEMMA LineBegun ==
  ASSUME NEW text \in Seq(Seq(Chars)), NEW t, NEW n \in Nat, WholeUpTo(t, text, n),
         NEW row \in RowSet, InItsLine(row, text), row.line = n, row.start = 0
  PROVE  PartUpTo(Append(t, row.chars), text, n + 1, RowEnd(row))
  <1> DEFINE c == row.chars
             u == Append(t, c)
  <1>1. c \in Seq(Chars) /\ RowEnd(row) = Len(c)
    BY RowParts DEF RowEnd
  <1>2. n + 1 \in 1..Len(text) /\ Len(c) <= Len(text[n + 1])
        /\ \A i \in 1..Len(c) : c[i] = text[n + 1][0 + i]
    BY <1>1 DEF InItsLine
  <1>3. t \in Seq(Seq(Chars)) /\ Len(t) = n /\ \A j \in 1..n : t[j] = text[j]
    BY DEF WholeUpTo
  <1> HIDE DEF c
  <1>4. u \in Seq(Seq(Chars)) /\ Len(u) = n + 1 /\ u[n + 1] = c
        /\ \A j \in 1..n : u[j] = text[j]
    BY <1>1, <1>3
  <1>5. \A i \in 1..Len(c) : c[i] = text[n + 1][i]
    BY <1>1, <1>2
  <1>6. (n + 1) - 1 = n
    OBVIOUS
  <1> QED
    BY <1>1, <1>2, <1>4, <1>5, <1>6 DEF PartUpTo, c

LEMMA LineContinued ==
  ASSUME NEW text \in Seq(Seq(Chars)), NEW t, NEW n,
         NEW row \in RowSet, InItsLine(row, text), row.line + 1 = n,
         PartUpTo(t, text, n, row.start)
  PROVE  PartUpTo([t EXCEPT ![n] = @ \o row.chars], text, n, RowEnd(row))
  <1> DEFINE c == row.chars
             a == t[n]
             u == [t EXCEPT ![n] = a \o c]
  <1>1. c \in Seq(Chars) /\ row.start \in Nat /\ RowEnd(row) = row.start + Len(c)
    BY RowParts DEF RowEnd
  <1>2. /\ t \in Seq(Seq(Chars)) /\ Len(t) = n /\ n \in 1..Len(text)
        /\ \A j \in 1..(n - 1) : t[j] = text[j]
        /\ Len(a) = row.start
        /\ \A i \in 1..row.start : a[i] = text[n][i]
    BY DEF PartUpTo
  <1>3. a \in Seq(Chars) /\ n \in 1..Len(t)
    BY <1>2
  <1>4. RowEnd(row) <= Len(text[n]) /\ \A i \in 1..Len(c) : c[i] = text[n][row.start + i]
    BY DEF InItsLine
  <1> HIDE DEF a, c
  <1> DEFINE v == a \o c
  <1>5. v \in Seq(Chars) /\ Len(v) = RowEnd(row)
    <2>1. v \in Seq(Chars) /\ Len(v) = Len(a) + Len(c)
      BY <1>1, <1>3
    <2> QED
      BY <1>1, <1>2, <2>1
  <1>6. ASSUME NEW i \in 1..RowEnd(row) PROVE v[i] = text[n][i]
    <2>1. CASE i <= row.start
      <3>1. i \in 1..Len(a) /\ i \in 1..row.start
        BY <1>1, <1>2, <2>1
      <3>2. v[i] = a[i]
        BY <1>1, <1>3, <3>1
      <3> QED
        BY <1>2, <3>1, <3>2
    <2>2. CASE ~(i <= row.start)
      <3>1. i - row.start \in 1..Len(c) /\ row.start + (i - row.start) = i
        BY <1>1, <2>2
      <3>2. v[i] = c[i - row.start]
        <4> DEFINE j == i - row.start
        <4>1. j \in 1..Len(c) /\ i = Len(a) + j
          BY <1>2, <3>1
        <4> HIDE DEF j
        <4>2. v[Len(a) + j] = c[j]
          BY <1>1, <1>3, <4>1
        <4> QED
          BY <4>1, <4>2 DEF j
      <3> QED
        BY <1>4, <3>1, <3>2
    <2> QED
      BY <2>1, <2>2
  <1> HIDE DEF v
  <1>7. /\ u \in Seq(Seq(Chars)) /\ Len(u) = n /\ u[n] = v
        /\ \A j \in 1..(n - 1) : u[j] = text[j]
    <2>1. u = [t EXCEPT ![n] = v]
      BY DEF v
    <2> HIDE DEF u
    <2>2. u \in Seq(Seq(Chars)) /\ Len(u) = n /\ u[n] = v
      BY <1>2, <1>3, <1>5, <2>1
    <2>3. \A j \in 1..(n - 1) : j \in 1..Len(t) /\ j # n
      BY <1>2
    <2> QED
      BY <1>2, <2>1, <2>2, <2>3
  <1> HIDE DEF u
  <1>8. PartUpTo(u, text, n, RowEnd(row))
    BY <1>2, <1>4, <1>5, <1>6, <1>7 DEF PartUpTo
  <1> QED
    BY <1>8 DEF u, a, c

LEMMA ChainUnwraps ==
  ASSUME NEW text \in Seq(Seq(Chars)), NEW rows, Chained(text, rows)
  PROVE  Unwrap([r \in DOMAIN rows |-> rows[r].chars], rows) = text
  <1> DEFINE chars == [r \in DOMAIN rows |-> rows[r].chars]
             M == Len(rows)
             n(r) == rows[r].line + 1
  <1>1. /\ rows \in Seq(RowSet) /\ M \in Nat /\ Len(chars) = M /\ chars \in Seq(Seq(Chars))
        /\ \A r \in 1..M : rows[r] \in RowSet /\ chars[r] = rows[r].chars
    <2>1. rows \in Seq(RowSet)
      BY DEF Chained
    <2>2. \A r \in 1..M : rows[r] \in RowSet /\ rows[r].chars \in Seq(Chars)
      BY <2>1, RowParts
    <2>3. DOMAIN rows = 1..M /\ M \in Nat
      BY <2>1
    <2> QED
      BY <2>1, <2>2, <2>3
  <1> HIDE DEF chars
  <1>2. PICK f \in [0..M -> Seq(Seq(Chars))] :
            /\ f[0] = <<>>
            /\ \A r \in 1..M : f[r] = Joined(f[r - 1], chars, rows, r)
            /\ Unwrap(chars, rows) = f[M]
    BY <1>1, UnwrapSteps
  <1>3. /\ text # <<>> <=> rows # <<>>
        /\ \A r \in 1..M :
              /\ InItsLine(rows[r], text)
              /\ r = 1 => rows[r].line = 0 /\ rows[r].start = 0
              /\ r = M => rows[r].line + 1 = Len(text) /\ EndsItsLine(rows[r], text)
              /\ r + 1 <= M => ComesAfter(rows[r], rows[r + 1], text)
    BY DEF Chained
  <1>4. CASE M = 0
    <2>1. rows = <<>> /\ text = <<>>
      BY <1>1, <1>3, <1>4
    <2> QED
      BY <1>2, <1>4, <2>1 DEF chars
  <1>5. CASE M # 0
    <2> DEFINE Good(r) == PartUpTo(f[r], text, n(r), RowEnd(rows[r]))
               S == {r \in Nat : r + 1 <= M => Good(r + 1)}
    <2> HIDE DEF M
    <2>0. ASSUME NEW r \in 1..M
          PROVE  n(r) \in Nat /\ n(r) >= 1 /\ rows[r].line \in Nat /\ rows[r] \in RowSet
      <3> DEFINE row == rows[r]
      <3>1. row \in RowSet
        BY <1>1
      <3> HIDE DEF row
      <3>2. row.line \in Nat
        BY <3>1, RowParts
      <3>3. row.line + 1 \in Nat /\ row.line + 1 >= 1
        BY <3>2
      <3> QED
        BY <3>1, <3>2, <3>3 DEF row
    <2>1. Good(1)
      <3>1. 1 \in 1..M /\ 1 - 1 = 0
        BY <1>1, <1>5
      <3>2. rows[1].line = 0 /\ rows[1].start = 0 /\ InItsLine(rows[1], text)
        BY <1>3, <3>1
      <3>3. f[1] = Joined(<<>>, chars, rows, 1)
        BY <1>2, <3>1
      <3>4. Joined(<<>>, chars, rows, 1) = Append(<<>>, rows[1].chars)
        <4>1. ~(rows[1].line < Len(<<>>)) /\ chars[1] = rows[1].chars
          BY <1>1, <3>1, <3>2
        <4> QED
          BY <4>1, Zenon DEF Joined
      <3>5. WholeUpTo(<<>>, text, 0)
        BY DEF WholeUpTo
      <3>6. PartUpTo(Append(<<>>, rows[1].chars), text, 0 + 1, RowEnd(rows[1]))
        BY <1>1, <3>1, <3>2, <3>5, LineBegun
      <3> QED
        BY <3>2, <3>3, <3>4, <3>6
    <2>2. ASSUME NEW r \in Nat, r \in 1..M, r + 1 <= M, Good(r) PROVE Good(r + 1)
      <3> DEFINE row == rows[r]
                 next == rows[r + 1]
                 t == f[r]
      <3>0. M \in Nat /\ r \in Nat /\ r + 1 <= M
        BY <1>1, <2>2, Zenon
      <3>1. r + 1 \in 1..M /\ (r + 1) - 1 = r
        BY <3>0
      <3>2. ComesAfter(row, next, text) /\ InItsLine(next, text) /\ next \in RowSet
        BY <1>1, <1>3, <2>2, <3>1
      <3>3. f[r + 1] = Joined(t, chars, rows, r + 1)
        BY <1>2, <3>1
      <3>4. PartUpTo(t, text, n(r), RowEnd(row))
        BY <2>2
      <3>5. Len(t) = n(r)
        BY <3>4 DEF PartUpTo
      <3>6. chars[r + 1] = next.chars /\ r + 1 <= Len(rows)
        BY <1>1, <3>1 DEF M
      <3>7. CASE next.line = row.line /\ next.start = RowEnd(row)
        <4>1. next.line < Len(t) /\ next.line + 1 = n(r)
          BY <2>0, <2>2, <3>5, <3>7
        <4>2. f[r + 1] = [t EXCEPT ![next.line + 1] = @ \o next.chars]
          BY <3>3, <3>6, <4>1, Zenon DEF Joined
        <4>3. PartUpTo([t EXCEPT ![n(r)] = @ \o next.chars], text, n(r), RowEnd(next))
          BY <3>2, <3>4, <3>7, <4>1, LineContinued, Zenon
        <4> QED
          BY <4>1, <4>2, <4>3, Zenon
      <3>8. CASE next.line = row.line + 1 /\ next.start = 0 /\ EndsItsLine(row, text)
        <4>1. ~(next.line < Len(t)) /\ next.line = n(r)
          BY <2>0, <2>2, <3>5, <3>8
        <4>2. f[r + 1] = Append(t, next.chars)
          BY <3>3, <3>6, <4>1 DEF Joined
        <4>3. RowEnd(row) = Len(text[n(r)])
          BY <3>8 DEF EndsItsLine
        <4>4. WholeUpTo(t, text, n(r))
          BY <3>4, <4>3, LineDone, Zenon
        <4>5. n(r) \in Nat
          BY <2>0, <2>2
        <4>6. PartUpTo(Append(t, next.chars), text, n(r) + 1, RowEnd(next))
          BY <3>2, <3>8, <4>1, <4>4, <4>5, LineBegun, Zenon
        <4> QED
          BY <4>1, <4>2, <4>6, Zenon
      <3> QED
        BY <3>2, <3>7, <3>8 DEF ComesAfter
    <2> HIDE DEF Good
    <2>3. 0 \in S /\ \A r \in Nat : r \in S => r + 1 \in S
      <3>1. 0 \in S
        BY <2>1
      <3>2. ASSUME NEW r \in Nat, r \in S, (r + 1) + 1 <= M PROVE Good((r + 1) + 1)
        <4>1. r + 1 \in Nat /\ r + 1 \in 1..M
          BY <1>1, <3>2
        <4>2. Good(r + 1)
          BY <3>2, <4>1
        <4> QED
          BY <2>2, <3>2, <4>1, <4>2
      <3> QED
        BY <3>1, <3>2
    <2> HIDE DEF S
    <2>4. M \in 1..M /\ M - 1 \in Nat /\ (M - 1) + 1 = M
      BY <1>1, <1>5
    <2>5. M - 1 \in S
      BY <2>3, <2>4, SetInduction
    <2>6. Good(M)
      <3>1. (M - 1) + 1 <= M => Good((M - 1) + 1)
        BY <2>5 DEF S
      <3> QED
        BY <2>4, <3>1
    <2>7. n(M) = Len(text) /\ RowEnd(rows[M]) = Len(text[n(M)])
      BY <1>3, <2>4 DEF EndsItsLine
    <2>8. WholeUpTo(f[M], text, Len(text))
      BY <2>6, <2>7, LineDone DEF Good
    <2>9. f[M] = text
      <3>1. f[M] \in Seq(Seq(Chars)) /\ Len(f[M]) = Len(text)
            /\ \A j \in 1..Len(text) : f[M][j] = text[j]
        BY <2>8 DEF WholeUpTo
      <3> DEFINE t == f[M]
      <3> HIDE DEF t
      <3>2. t \in Seq(Seq(Chars)) /\ Len(t) = Len(text) /\ \A j \in 1..Len(text) : t[j] = text[j]
        BY <3>1 DEF t
      <3>3. t = text
        BY <3>2, SameSequence, Zenon
      <3> QED
        BY <3>3 DEF t
    <2> QED
      BY <1>2, <2>9 DEF chars
  <1> QED
    BY <1>4, <1>5

LEMMA UnwrapRestoresText ==
  ASSUME NEW text \in Seq(Seq(Chars))
  PROVE  UnwrapRestoresIn(text)
  BY WrapChains, ChainUnwraps, Zenon DEF UnwrapRestoresIn

-----------------------------------------------------------------------------
(* What is in a row fits, and is as much as fits.                          *)
LEMMA UsedColumns ==
  ASSUME NEW chars \in Seq(Chars)
  PROVE  /\ Used(chars) \in 0..Len(chars)
         /\ Used(chars) = 0 \/ chars[Used(chars)] # Blank
         /\ \A i \in (Used(chars) + 1)..Len(chars) : chars[i] = Blank
  <1> DEFINE n == Len(chars)
             T == {k \in 0..n : \A i \in (k + 1)..n : chars[i] = Blank}
  <1>1. n \in Nat
    OBVIOUS
  <1>2. PICK m \in T : \A j \in T : m <= j
    <2>1. n \in T /\ T \subseteq Nat
      BY <1>1
    <2> HIDE DEF T
    <2> QED
      BY <2>1, LeastNumber, Zenon
  <1>3. m \in 0..n /\ \A i \in (m + 1)..n : chars[i] = Blank
    OBVIOUS
  <1>4. m = 0 \/ chars[m] # Blank
    <2> SUFFICES ASSUME m # 0, chars[m] = Blank PROVE FALSE
      OBVIOUS
    <2>1. m - 1 \in 0..n /\ ~(m <= m - 1)
      BY <1>1, <1>3
    <2>2. \A i \in ((m - 1) + 1)..n : i = m \/ i \in (m + 1)..n
      BY <1>1, <1>3
    <2>3. m - 1 \in T
      BY <1>3, <2>1, <2>2
    <2> QED
      BY <1>2, <2>1, <2>3
  <1>5. \E k \in 0..Len(chars) : /\ k = 0 \/ chars[k] # Blank
                                 /\ \A i \in (k + 1)..Len(chars) : chars[i] = Blank
    BY <1>3, <1>4
  <1> QED
    BY <1>5 DEF Used

LEMMA RowFitsWidth ==
  ASSUME NEW line \in Seq(Chars), NEW b, Broken(line, b, Len(line)),
         NEW k \in 1..Len(b), NEW n, NEW row, RowFits(row, line, n, b, k)
  PROVE  Used(row.chars) <= EditorWidth \/ OneWord(row.chars)
  <1> DEFINE c == row.chars
             start == row.start
             u == Used(c)
             l == Len(c)
             m == Len(b)
             len == Len(line)
  <1>1. c \in Seq(Chars) /\ start \in Nat /\ l \in Nat
    BY RowParts DEF RowFits
  <1>2. /\ start = b[k] - 1 /\ l = StartAfter(line, b, k) - b[k]
        /\ \A i \in 1..l : c[i] = line[start + i]
    BY DEF RowFits
  <1>3. u \in 0..l /\ (u = 0 \/ c[u] # Blank) /\ \A i \in (u + 1)..l : c[i] = Blank
    BY <1>1, UsedColumns
  <1>4. OneWord(c) <=> \A i \in 2..l : ~StartsWord(c, i)
    BY DEF OneWord
  <1>5. /\ m \in Nat /\ m >= 1 /\ len \in Nat
        /\ \A j \in 1..m : b[j] \in Nat /\ b[j] >= 1 /\ b[j] <= len
    BY DEF Broken
  <1>6. \A w \in 1..len : \A j \in 1..m :
          /\ StartsWord(line, w) /\ b[j] < w
          /\ j = m \/ w < b[j + 1]
          => WordEnd(line, w) - b[j] < EditorWidth
    BY DEF Broken
  <1>7. EditorWidth \in Nat /\ EditorWidth >= 1
    BY EditorWidthAssumption
  <1>8. StartAfter(line, b, k) = (IF k = m THEN len + 1 ELSE b[k + 1])
    BY DEF StartAfter
  <1> HIDE DEF c, start, u, l, m
  <1> SUFFICES ASSUME u > EditorWidth, NEW j \in 2..l, StartsWord(c, j) PROVE FALSE
    BY <1>3, <1>4, <1>7, <1>1 DEF c, u
  <1>9. u >= 1 /\ u \in Nat /\ u <= l /\ c[u] # Blank
    BY <1>1, <1>3, <1>7
  <1> DEFINE T == {w \in 1..u : \A i \in w..u : c[i] # Blank}
  <1>10. PICK w \in T : \A v \in T : w <= v
    <2>1. u \in T /\ T \subseteq Nat
      BY <1>9
    <2> HIDE DEF T
    <2> QED
      BY <2>1, LeastNumber, Zenon
  <1>11. w \in 1..u /\ \A i \in w..u : c[i] # Blank
    OBVIOUS
  <1>12. CASE w = 1
    <2>1. c[j] # Blank /\ c[j - 1] = Blank
      <3>1. j # 1
        OBVIOUS
      <3> QED
        BY <3>1 DEF StartsWord
    <2>2. j <= u
      <3> SUFFICES ASSUME ~(j <= u) PROVE FALSE
        OBVIOUS
      <3>1. j \in (u + 1)..l
        BY <1>1, <1>9
      <3> QED
        BY <1>3, <2>1, <3>1
    <2>3. j - 1 \in w..u
      BY <1>9, <1>12, <2>2
    <2> QED
      BY <1>11, <2>1, <2>3
  <1>13. CASE w # 1
    <2>1. w - 1 \in 1..u /\ ~(w <= w - 1)
      BY <1>9, <1>11, <1>13
    <2>2. c[w - 1] = Blank
      <3> SUFFICES ASSUME c[w - 1] # Blank PROVE FALSE
        OBVIOUS
      <3>1. \A i \in (w - 1)..u : i = w - 1 \/ i \in w..u
        BY <1>9, <1>11
      <3>2. w - 1 \in T
        BY <1>11, <2>1, <3>1
      <3> QED
        BY <1>10, <2>1, <3>2
    <2> HIDE DEF T
    <2> DEFINE p == start + w
    <2>3. w \in 1..l /\ w - 1 \in 1..l /\ w \in Nat /\ w >= 2
      BY <1>1, <1>9, <1>11, <1>13
    <2>4. /\ b[k] \in Nat /\ b[k] >= 1 /\ b[k] = start + 1
          /\ k \in 1..m
      BY <1>1, <1>2, <1>5 DEF m
    <2>5. k # m => b[k + 1] \in Nat /\ b[k + 1] <= len
      <3>1. k # m => k + 1 \in 1..m
        BY <1>5, <2>4
      <3> QED
        BY <1>5, <3>1
    <2>6. StartAfter(line, b, k) \in Nat /\ StartAfter(line, b, k) <= len + 1
      BY <1>5, <1>8, <2>5
    <2>7. start + l = StartAfter(line, b, k) - 1
      <3> DEFINE q == StartAfter(line, b, k)
      <3>1. q \in Nat /\ b[k] = start + 1 /\ start \in Nat /\ l = q - b[k]
        BY <1>1, <1>2, <2>4, <2>6
      <3> HIDE DEF q
      <3>2. l = q - (start + 1)
        BY <3>1
      <3>3. start + l = q - 1
        BY <3>1, <3>2
      <3> QED
        BY <3>3 DEF q
    <2>8. start + u <= len /\ p <= start + u /\ p \in 1..len /\ p \in Nat /\ b[k] < p
      BY <1>1, <1>5, <1>9, <1>11, <2>3, <2>4, <2>6, <2>7
    <2>9. k = m \/ p < b[k + 1]
      BY <1>1, <1>8, <1>9, <2>3, <2>5, <2>7
    <2>10. StartsWord(line, p)
      <3>1. c[w] # Blank
        BY <1>11
      <3>2. c[w] = line[p] /\ c[w - 1] = line[start + (w - 1)]
        BY <1>2, <2>3
      <3>3. start + (w - 1) = p - 1
        BY <1>1, <2>3
      <3> QED
        BY <2>2, <3>1, <3>2, <3>3 DEF StartsWord
    <2>11. WordEnd(line, p) - b[k] < EditorWidth
      BY <1>6, <2>4, <2>8, <2>9, <2>10
    <2> DEFINE e == WordEnd(line, p)
    <2> HIDE DEF p
    <2>12. e \in p..len /\ (e = len \/ line[e + 1] = Blank)
      <3>1. line[p] # Blank
        BY <2>10 DEF StartsWord
      <3> QED
        BY <2>8, <3>1, WordEnds
    <2> HIDE DEF e
    <2>13. e >= start + u
      <3> SUFFICES ASSUME ~(e >= start + u) PROVE FALSE
        OBVIOUS
      <3>1. e \in Nat /\ e + 1 <= start + u /\ e >= p /\ e # len
        BY <1>1, <1>5, <1>9, <2>8, <2>12
      <3> DEFINE i == e + 1 - start
      <3>2. i \in w..u /\ i \in 1..l /\ start + i = e + 1
        BY <1>1, <1>9, <2>3, <3>1 DEF p
      <3> HIDE DEF i
      <3>3. c[i] # Blank /\ c[i] = line[e + 1]
        BY <1>2, <1>11, <3>2
      <3> QED
        BY <2>12, <3>1, <3>3
    <2>14. e - b[k] < EditorWidth /\ e \in Nat
      BY <1>5, <2>8, <2>11, <2>12 DEF e
    <2> QED
      BY <1>1, <1>7, <1>9, <2>4, <2>13, <2>14
  <1> QED
    BY <1>12, <1>13

LEMMA NextWordIsTooWide ==
  ASSUME NEW line \in Seq(Chars), NEW b, Broken(line, b, Len(line)),
         NEW k \in 1..Len(b), k + 1 <= Len(b), NEW n,
         NEW row, RowFits(row, line, n, b, k),
         NEW next, RowFits(next, line, n, b, k + 1)
  PROVE  Len(row.chars) + WordEnd(next.chars, 1) > EditorWidth
  <1> DEFINE c == next.chars
             l == Len(c)
             m == Len(b)
             len == Len(line)
             p == b[k + 1]
             e == WordEnd(c, 1)
             f == WordEnd(line, p)
  <1>1. c \in Seq(Chars) /\ next.start \in Nat /\ l \in Nat
    BY RowParts DEF RowFits
  <1>2. /\ next.start = p - 1 /\ l = StartAfter(line, b, k + 1) - p
        /\ \A i \in 1..l : c[i] = line[next.start + i]
    BY DEF RowFits
  <1>3. Len(row.chars) = p - b[k]
    <2>1. k # Len(b)
      BY DEF Broken
    <2> QED
      BY <2>1 DEF RowFits, StartAfter
  <1>4. /\ m \in Nat /\ len \in Nat
        /\ \A j \in 1..m : b[j] \in Nat /\ b[j] >= 1 /\ b[j] <= len
    BY DEF Broken
  <1>5. \A i, j \in 1..m : i < j => b[i] < b[j]
    BY DEF Broken
  <1>6. \A j \in 2..m : StartsWord(line, b[j]) /\ WordEnd(line, b[j]) - b[j - 1] >= EditorWidth
    BY DEF Broken
  <1>7. StartAfter(line, b, k + 1) = (IF k + 1 = m THEN len + 1 ELSE b[(k + 1) + 1])
    BY DEF StartAfter
  <1>8. k \in 1..m /\ k + 1 <= m
    OBVIOUS
  <1> HIDE DEF c, l, m, len, e, f
  <1>9. k + 1 \in 2..m /\ k + 1 \in 1..m /\ (k + 1) - 1 = k /\ k < k + 1
    BY <1>4, <1>8
  <1>10. /\ p \in Nat /\ b[k] \in Nat /\ b[k] < p /\ p <= len /\ p >= 1
         /\ StartsWord(line, p) /\ f - b[k] >= EditorWidth
    BY <1>4, <1>5, <1>6, <1>8, <1>9 DEF f
  <1>11. line[p] # Blank
    BY <1>10 DEF StartsWord
  <1>12. f \in p..len /\ \A i \in p..f : line[i] # Blank
    <2>1. p \in 1..Len(line)
      BY <1>4, <1>10 DEF len
    <2> QED
      BY <1>11, <2>1, WordEnds DEF f, len
  <1>13. k + 1 # m => /\ b[(k + 1) + 1] \in Nat /\ p < b[(k + 1) + 1]
                      /\ line[b[(k + 1) + 1] - 1] = Blank
    <2> SUFFICES ASSUME k + 1 # m
                 PROVE  /\ b[(k + 1) + 1] \in Nat /\ p < b[(k + 1) + 1]
                        /\ line[b[(k + 1) + 1] - 1] = Blank
      OBVIOUS
    <2> DEFINE j == (k + 1) + 1
    <2>1. j \in 1..m /\ j \in 2..m /\ k + 1 < j
      BY <1>4, <1>8
    <2> HIDE DEF j
    <2>2. b[j] \in Nat /\ p < b[j] /\ StartsWord(line, b[j])
      BY <1>4, <1>5, <1>6, <1>9, <2>1
    <2>3. b[j] # 1
      BY <1>10, <2>2
    <2> QED
      BY <2>2, <2>3 DEF StartsWord, j
  <1> DEFINE a == StartAfter(line, b, k + 1)
  <1>14. a \in Nat /\ p < a /\ (a = len + 1 \/ line[a - 1] = Blank)
    BY <1>4, <1>7, <1>10, <1>13
  <1>15. l = a - p
    BY <1>2
  <1> HIDE DEF a, p
  <1>16. l >= 1 /\ 1 \in 1..l /\ next.start + 1 = p
    BY <1>1, <1>2, <1>10, <1>14, <1>15
  <1>17. c[1] # Blank
    BY <1>2, <1>11, <1>16
  <1>18. e \in 1..l /\ (e = l \/ c[e + 1] = Blank)
    BY <1>1, <1>16, <1>17, WordEnds DEF e, l
  <1>19. e >= f - p + 1
    <2> SUFFICES ASSUME ~(e >= f - p + 1) PROVE FALSE
      OBVIOUS
    <2>1. e \in Nat /\ e >= 1 /\ f \in Nat /\ p + e <= f /\ f <= len
      BY <1>1, <1>4, <1>10, <1>12, <1>18
    <2>2. CASE e # l
      <3> DEFINE o == next.start
      <3>4. o \in Nat /\ o + 1 = p
        BY <1>1, <1>16
      <3> HIDE DEF o
      <3>5. e + 1 \in 1..l
        BY <1>1, <1>18, <2>1, <2>2
      <3>6. o + (e + 1) = p + e /\ p + e \in p..f
        BY <1>10, <2>1, <3>4
      <3>1. e + 1 \in 1..l /\ next.start + (e + 1) = p + e /\ p + e \in p..f
        BY <3>5, <3>6 DEF o
      <3>2. c[e + 1] = line[p + e]
        BY <1>2, <3>1
      <3> QED
        BY <1>12, <1>18, <2>2, <3>1, <3>2
    <2>3. CASE e = l
      <3>1. a = p + e
        BY <1>10, <1>14, <1>15, <2>1, <2>3
      <3>2. a # len + 1
        BY <1>4, <2>1, <3>1
      <3>3. a - 1 \in p..f
        BY <1>10, <2>1, <3>1
      <3> QED
        BY <1>12, <1>14, <3>2, <3>3
    <2> QED
      BY <2>2, <2>3
  <1>20. e \in Nat /\ f \in Nat
    BY <1>1, <1>4, <1>10, <1>12, <1>18
  <1>21. Len(row.chars) + e > EditorWidth
    <2>1. Len(row.chars) = p - b[k]
      BY <1>3 DEF p
    <2> QED
      BY <1>10, <1>19, <1>20, <2>1, EditorWidthAssumption
  <1> QED
    BY <1>21 DEF e, c

LEMMA RowsFit ==
  ASSUME NEW text \in Seq(Seq(Chars))
  PROVE  RowsFitIn(text)
  <1> DEFINE rows == Wrap(text)
             s == RowsOfLines(text)
             N == Len(text)
             M == Len(rows)
  <1>0. rows \in Seq(RowSet)
    BY WrapPlaces
  <1>1. PICK off : Places(off, s, rows)
    BY WrapPlaces
  <1>2. /\ Len(s) = N
        /\ \A i \in 1..N : /\ text[i] \in Seq(Chars) /\ i - 1 \in Nat
                           /\ s[i] = RowsOfLine(text[i], i - 1)
    BY WrapPlaces
  <1>3. \A i \in 1..N :
           /\ Len(s[i]) = Len(Breaks(text[i]))
           /\ \A k \in 1..Len(s[i]) : RowFits(s[i][k], text[i], i - 1, Breaks(text[i]), k)
    BY <1>2, RowsFitLine
  <1>4. DOMAIN rows = 1..M /\ M \in Nat
    BY <1>0
  <1>6. N \in Nat
    OBVIOUS
  <1> HIDE DEF rows, s, M, N
  <1>5. /\ \A i \in 0..N : off[i] \in Nat
        /\ \A i \in 1..N : \A k \in 1..Len(s[i]) : rows[off[i - 1] + k] = s[i][k]
        /\ \A r \in 1..M : \E i \in 1..N : \E k \in 1..Len(s[i]) : r = off[i - 1] + k
    <2>1. off \in [0..N -> Nat] /\ N = Len(s) /\ M = Len(rows)
      BY <1>1, <1>2 DEF Places, M
    <2>2. \A i \in 0..N : off[i] \in Nat
      BY <2>1
    <2> QED
      BY <1>1, <2>1, <2>2, Zenon DEF Places
  <1>7. ASSUME NEW r \in 1..M
        PROVE  \E i \in 1..N : \E k \in 1..Len(s[i]) :
                  /\ r = off[i - 1] + k /\ rows[r] = s[i][k] /\ rows[r].line = i - 1
                  /\ RowFits(s[i][k], text[i], i - 1, Breaks(text[i]), k)
    <2>1. PICK i \in 1..N : \E k \in 1..Len(s[i]) : r = off[i - 1] + k
      BY <1>5
    <2>2. PICK k \in 1..Len(s[i]) : r = off[i - 1] + k
      BY <2>1
    <2>3. rows[r] = s[i][k]
      BY <1>5, <2>2
    <2>4. RowFits(s[i][k], text[i], i - 1, Breaks(text[i]), k)
      BY <1>3
    <2>5. s[i][k].line = i - 1
      BY <2>4 DEF RowFits
    <2> QED
      BY <2>2, <2>3, <2>4, <2>5
  <1>8. ASSUME NEW r \in 1..M
        PROVE  /\ \/ Used(rows[r].chars) <= EditorWidth
                  \/ OneWord(rows[r].chars)
                  \/ KeptWhole(text[rows[r].line + 1])
               /\ r < M /\ rows[r].line = rows[r + 1].line =>
                     Len(rows[r].chars) + WordEnd(rows[r + 1].chars, 1) > EditorWidth
    <2>1. PICK i \in 1..N : \E k \in 1..Len(s[i]) :
              /\ r = off[i - 1] + k /\ rows[r] = s[i][k] /\ rows[r].line = i - 1
              /\ RowFits(s[i][k], text[i], i - 1, Breaks(text[i]), k)
      BY <1>7
    <2>2. PICK k \in 1..Len(s[i]) :
              /\ r = off[i - 1] + k /\ rows[r] = s[i][k] /\ rows[r].line = i - 1
              /\ RowFits(s[i][k], text[i], i - 1, Breaks(text[i]), k)
      BY <2>1
    <2> DEFINE line == text[i]
               b == Breaks(line)
    <2>3. /\ line \in Seq(Chars) /\ Len(s[i]) = Len(b) /\ rows[r].line + 1 = i
          /\ RowFits(rows[r], line, i - 1, b, k) /\ k \in 1..Len(b)
      BY <1>2, <1>3, <2>2
    <2>4. ~KeptWhole(line) => Broken(line, b, Len(line))
      BY <2>3, BreaksOfLine
    <2>5. KeptWhole(line) => b = <<1>>
      BY DEF Breaks
    <2> HIDE DEF b, line
    <2>6. \/ Used(rows[r].chars) <= EditorWidth
          \/ OneWord(rows[r].chars)
          \/ KeptWhole(text[rows[r].line + 1])
      BY <2>3, <2>4, RowFitsWidth DEF line
    <2>7. ASSUME r < M, rows[r].line = rows[r + 1].line
          PROVE  Len(rows[r].chars) + WordEnd(rows[r + 1].chars, 1) > EditorWidth
      <3>1. r + 1 \in 1..M
        BY <1>4, <2>7
      <3>2. PICK j \in 1..N : \E q \in 1..Len(s[j]) :
              /\ r + 1 = off[j - 1] + q /\ rows[r + 1] = s[j][q]
              /\ rows[r + 1].line = j - 1
              /\ RowFits(s[j][q], text[j], j - 1, Breaks(text[j]), q)
        BY <1>7, <3>1
      <3>3. PICK q \in 1..Len(s[j]) :
              /\ r + 1 = off[j - 1] + q /\ rows[r + 1] = s[j][q]
              /\ rows[r + 1].line = j - 1
              /\ RowFits(s[j][q], text[j], j - 1, Breaks(text[j]), q)
        BY <3>2
      <3>4. j = i
        BY <2>2, <2>7, <3>3
      <3>5. q = k + 1
        <4>1. i - 1 \in 0..N
          BY <1>6
        <4>2. off[i - 1] \in Nat /\ k \in Int /\ q \in Int /\ r \in Int
          BY <1>5, <4>1
        <4>3. r = off[i - 1] + k /\ r + 1 = off[i - 1] + q
          BY <2>2, <3>3, <3>4
        <4> QED
          BY <4>2, <4>3
      <3>6. k + 1 \in 1..Len(b) /\ RowFits(rows[r + 1], line, i - 1, b, k + 1)
        BY <2>3, <3>3, <3>4, <3>5 DEF b, line
      <3>7. ~KeptWhole(line)
        <4>1. ASSUME Len(b) = 1 PROVE FALSE
          BY <2>3, <3>6, <4>1
        <4>2. KeptWhole(line) => b = <<1>>
          BY <2>5
        <4> QED
          BY <4>1, <4>2
      <3>8. k + 1 <= Len(b)
        BY <3>6
      <3> QED
        BY <2>3, <2>4, <3>6, <3>7, <3>8, NextWordIsTooWide
    <2> QED
      BY <2>6, <2>7
  <1> QED
    <2> SUFFICES ASSUME NEW r \in DOMAIN rows
                 PROVE  /\ \/ Used(rows[r].chars) <= EditorWidth
                           \/ OneWord(rows[r].chars)
                           \/ KeptWhole(text[rows[r].line + 1])
                        /\ r < Len(rows) /\ rows[r].line = rows[r + 1].line =>
                              Len(rows[r].chars) + WordEnd(rows[r + 1].chars, 1) > EditorWidth
      BY Zenon DEF RowsFitIn, rows
    <2>1. r \in 1..M
      BY <1>4
    <2> QED
      BY <1>8, <2>1 DEF M

-----------------------------------------------------------------------------
(* The text that is typed.                                                 *)
LEMMA TypedIsText == TextSpec => [](typed \in Text)
  <1>1. TextInit => typed \in Text
    BY DEF TextInit, Text
  <1>2. typed \in Text /\ [TextNext]_typed => (typed \in Text)'
    <2> SUFFICES ASSUME typed \in Text, [TextNext]_typed PROVE typed' \in Text
      OBVIOUS
    <2>1. CASE TypeChar
      <3>1. PICK ch \in Chars : typed' = [typed EXCEPT ![Len(typed)] = Append(@, ch)]
        BY <2>1 DEF TypeChar
      <3> DEFINE n == Len(typed)
                 line == Append(typed[n], ch)
      <3>2. n \in 1..Len(typed) /\ typed[n] \in Seq(Chars) /\ typed \in Seq(Seq(Chars))
        BY DEF Text
      <3>3. line \in Seq(Chars)
        BY <3>2
      <3>4. typed' = [typed EXCEPT ![n] = line]
        BY <3>1
      <3> HIDE DEF line, n
      <3>5. typed' \in Seq(Seq(Chars)) /\ Len(typed') = Len(typed)
        BY <3>2, <3>3, <3>4, ExceptSeq
      <3> QED
        BY <3>2, <3>5 DEF Text
    <2>2. CASE NewLine
      <3>1. typed' = Append(typed, <<>>) /\ typed \in Seq(Seq(Chars))
        BY <2>2 DEF NewLine, Text
      <3>2. typed' \in Seq(Seq(Chars)) /\ Len(typed') = Len(typed) + 1
        BY <3>1
      <3>3. Len(typed') # 0
        BY <3>1, <3>2
      <3> QED
        BY <3>2, <3>3 DEF Text
    <2>3. CASE UNCHANGED typed
      BY <2>3
    <2> QED
      BY <2>1, <2>2, <2>3 DEF TextNext
  <1> QED
    BY <1>1, <1>2, PTL DEF TextSpec

(* Every column of every text is in one row, and the rows fit and are full.*)
THEOREM TextIsCovered == TextSpec => []RowsCoverLines
  <1>1. typed \in Text => RowsCoverLines
    BY ColumnsHaveOneRow, RowsFit DEF RowsCoverLines, Text
  <1> QED
    BY <1>1, TypedIsText, PTL

(* Joining the rows of a text gives the text back.                         *)
THEOREM TextIsRestored == TextSpec => []UnwrapRestores
  <1>1. typed \in Text => UnwrapRestores
    BY UnwrapRestoresText DEF UnwrapRestores, Text
  <1> QED
    BY <1>1, TypedIsText, PTL

-----------------------------------------------------------------------------
(* The two cursors and the window.                                         *)

Facts == {"cx", "cy", "wx", "wy", "sx", "sy"}
CursorRules == {"updateCursor", "cursorChanged",
                "updateWrappedCursor", "wrappedCursorChanged"}

CursorTyped ==
    /\ lines \in Text
    /\ wrapped \in Seq(RowSet) /\ wrapped # <<>>
    /\ at \in [Facts -> Int]
    /\ cursor \in Int \X Int /\ wrappedCursor \in Int \X Int
    /\ moved \in BOOLEAN

(* The rows are those of the lines, unless the rule that makes them waits; *)
(* it never waits together with a rule that reads them.                    *)
RowsAreWrapped ==
    /\ "wrapLines" \notin queue => wrapped = Wrap(lines)
    /\ "wrapLines" \in queue =>
          {"cursorChanged", "wrappedCursorChanged"} \cap queue = {}

(* The facts Cursor and WrappedCursor are up to date, unless the rule that *)
(* makes them waits.                                                       *)
CursorsAreUpdated ==
    /\ "updateCursor" \notin queue => cursor = <<at.cx, at.cy>>
    /\ "updateWrappedCursor" \notin queue => wrappedCursor = <<at.wx, at.wy>>

(* The cursors disagree only while a rule waits that compares them, or     *)
(* after an input that has moved none of them.                             *)
CursorsSettle ==
    /\ moved /\ CursorRules \cap queue = {} => CursorsAgree
    /\ moved /\ "wrapLines" \in queue =>
          {"updateCursor", "updateWrappedCursor"} \cap queue # {}
    /\ ~moved => /\ CursorRules \cap queue = {}
                 /\ at.cx >= 0 /\ at.cy \in 0..(Len(lines) - 1)

WindowFollows ==
    /\ "scrollX" \notin queue /\ at.wx >= 0 => at.wx \in at.sx..(at.sx + Width - 1)
    /\ "scrollY" \notin queue /\ at.wy >= 0 /\ at.wy < Len(wrapped) =>
          at.wy \in at.sy..(at.sy + Height - 1)

CursorInv ==
    /\ CursorTyped
    /\ RowsAreWrapped
    /\ CursorsAreUpdated
    /\ CursorsSettle
    /\ WindowFollows

(* A place of both cursors: CursorsAgree, of any facts.                    *)
Together(f) ==
    /\ f.cy \in 0..(Len(lines) - 1) /\ f.cx \in 0..Len(lines[f.cy + 1])
    /\ f.wy \in 0..(Len(wrapped) - 1) /\ f.wx \in 0..Len(wrapped[f.wy + 1].chars)
    /\ wrapped[f.wy + 1].line = f.cy
    /\ f.cx = wrapped[f.wy + 1].start + f.wx

(* One that no rule changes: not behind a row that another one follows.    *)
Placed(f) == Together(f) /\ f.cx <= wrapped[f.wy + 1].stop

LineExists == at.cy \in 0..(Len(lines) - 1)
RowExists == at.wy \in 0..(Len(wrapped) - 1)

OnlyRules(R) == CursorRules \cap queue \subseteq R

(* An input writes one of the cursors.  The rules correct the line, then   *)
(* the column, then change the end of a row to the start of the next one.  *)
InPhase ==
    /\ rounds = 0 => \/ OnlyRules({"updateCursor"})
                     \/ /\ OnlyRules({"updateWrappedCursor"})
                        /\ RowExists /\ "wrapLines" \notin queue
    /\ rounds = 1 => \/ OnlyRules({"cursorChanged"})
                     \/ OnlyRules({"wrappedCursorChanged"}) /\ RowExists
    /\ rounds = 2 => \/ OnlyRules({"updateCursor"}) /\ LineExists
                     \/ /\ OnlyRules({"updateCursor", "updateWrappedCursor"})
                        /\ CursorsAgree
                     \/ OnlyRules({})
    /\ rounds = 3 => \/ OnlyRules({"cursorChanged"}) /\ LineExists
                     \/ /\ OnlyRules({"cursorChanged", "wrappedCursorChanged"})
                        /\ CursorsAgree
                     \/ OnlyRules({})
    /\ rounds = 4 => \/ OnlyRules({"updateCursor", "updateWrappedCursor"}) /\ Placed(at)
                     \/ OnlyRules({})
    /\ rounds = 5 => \/ OnlyRules({"cursorChanged", "wrappedCursorChanged"}) /\ Placed(at)
                     \/ OnlyRules({})

(* Six rounds are enough.                                                  *)
RestInv ==
    /\ rounds \in Nat
    /\ rounds > 0 => "wrapLines" \notin queue
    /\ ~outside => /\ rounds <= 6 /\ InPhase
                   /\ rounds = 6 => AtRest

Positions == {"cx", "cy", "wx", "wy"}

IsWrites(w) == DOMAIN w \subseteq Positions /\ \A f \in DOMAIN w : w[f] \in Int

LEMMA OverWrites ==
  ASSUME NEW a, NEW b, IsWrites(a), IsWrites(b)
  PROVE  IsWrites(Over(a, b)) /\ DOMAIN Over(a, b) = DOMAIN a \cup DOMAIN b
  BY DEF IsWrites, Over

LEMMA OverFacts ==
  ASSUME NEW w, IsWrites(w), NEW s \in [Facts -> Int]
  PROVE  /\ Over(w, s) \in [Facts -> Int]
         /\ \A f \in Facts : Over(w, s)[f] = IF f \in DOMAIN w THEN w[f] ELSE s[f]
  <1>1. DOMAIN w \cup DOMAIN s = Facts
    BY DEF IsWrites, Positions, Facts
  <1> QED
    BY <1>1 DEF Over, IsWrites

LEMMA NothingIsWritten == IsWrites(Nothing) /\ DOMAIN Nothing = {}
  BY DEF IsWrites, Nothing

LEMMA ChangedWrites ==
  ASSUME NEW want \in [Positions -> Int], NEW now
  PROVE  LET w == Changed(want, now)
         IN  /\ IsWrites(w)
             /\ \A f \in Positions : IF f \in DOMAIN w THEN w[f] = want[f]
                                     ELSE want[f] = now[f]
             /\ \A f \in Positions : f \in DOMAIN w <=> want[f] # now[f]
  BY DEF IsWrites, Changed

LEMMA ClampStays ==
  ASSUME NEW x \in Int, NEW y \in Int, NEW s \in Seq(Nat), s # <<>>
  PROVE  LET c == Clamp(x, y, s)
         IN  /\ c[1] \in Int /\ c[2] \in 0..(Len(s) - 1)
             /\ y \in 0..(Len(s) - 1) =>
                   /\ c[2] = y /\ c[1] \in 0..s[y + 1]
                   /\ x \in 0..s[y + 1] => c[1] = x
  <1>1. Len(s) \in Nat /\ Len(s) >= 1
    BY EmptySeq
  <1>2. CASE y < 0
    BY <1>1, <1>2 DEF Clamp
  <1>3. CASE y >= Len(s)
    BY <1>1, <1>3 DEF Clamp
  <1>4. CASE y \in 0..(Len(s) - 1)
    <2>1. y + 1 \in 1..Len(s) /\ s[y + 1] \in Nat
      BY <1>1, <1>4
    <2>2. Clamp(x, y, s) =
            <<IF x > s[y + 1] THEN s[y + 1] ELSE IF x < 0 THEN 0 ELSE x, y>>
      BY <1>1, <1>4 DEF Clamp
    <2> QED
      BY <1>4, <2>1, <2>2
  <1> QED
    BY <1>1, <1>2, <1>3, <1>4

LEMMA LineLengths ==
  ASSUME NEW t \in Seq(Seq(Chars)), t # <<>>
  PROVE  LET s == [n \in DOMAIN t |-> Len(t[n])]
         IN  /\ s \in Seq(Nat) /\ s # <<>> /\ Len(s) = Len(t)
             /\ \A n \in 1..Len(t) : s[n] = Len(t[n])
  <1>1. \A n \in 1..Len(t) : Len(t[n]) \in Nat
    OBVIOUS
  <1> QED
    BY <1>1

LEMMA RowLengths ==
  ASSUME NEW t \in Seq(RowSet), t # <<>>
  PROVE  LET s == [r \in DOMAIN t |-> Len(t[r].chars)]
         IN  /\ s \in Seq(Nat) /\ s # <<>> /\ Len(s) = Len(t)
             /\ \A r \in 1..Len(t) : s[r] = Len(t[r].chars)
  <1>1. \A r \in 1..Len(t) : Len(t[r].chars) \in Nat
    BY RowParts
  <1> QED
    BY <1>1

(* A row ends no later than its last character.                            *)
LEMMA RowStops ==
  ASSUME NEW text \in Seq(Seq(Chars)), NEW r \in DOMAIN Wrap(text)
  PROVE  Wrap(text)[r].stop <= RowEnd(Wrap(text)[r])
  <1> DEFINE rows == Wrap(text)
             s == RowsOfLines(text)
  <1>1. PICK off : Places(off, s, rows)
    BY WrapPlaces
  <1>2. /\ Len(s) = Len(text) /\ rows \in Seq(RowSet)
        /\ \A n \in 1..Len(text) : /\ text[n] \in Seq(Chars) /\ n - 1 \in Nat
                                   /\ s[n] = RowsOfLine(text[n], n - 1)
    BY WrapPlaces
  <1> HIDE DEF rows, s
  <1>3. r \in 1..Len(rows)
    BY <1>2 DEF rows
  <1>4. PICK n \in 1..Len(s) : \E k \in 1..Len(s[n]) : r = off[n - 1] + k
    BY <1>1, <1>3 DEF Places
  <1>5. PICK k \in 1..Len(s[n]) : r = off[n - 1] + k
    BY <1>4
  <1>6. rows[r] = s[n][k]
    BY <1>1, <1>5 DEF Places
  <1> DEFINE line == text[n]
             b == Breaks(line)
  <1>7. line \in Seq(Chars) /\ n - 1 \in Nat /\ s[n] = RowsOfLine(line, n - 1)
    BY <1>2
  <1>8. Len(s[n]) = Len(b) /\ RowFits(s[n][k], line, n - 1, b, k) /\ Starts(line, b)
    <2> HIDE DEF line
    <2> QED
      BY <1>7, RowsFitLine
  <1> HIDE DEF line, b
  <1> DEFINE row == rows[r]
  <1>9. row.start \in Nat /\ Len(row.chars) \in Nat
    BY <1>2, <1>3, RowParts
  <1>10. /\ row.start = b[k] - 1 /\ Len(row.chars) = StartAfter(line, b, k) - b[k]
         /\ row.stop = IF k = Len(b) THEN Len(line) ELSE b[k + 1] - 2
    BY <1>6, <1>8 DEF RowFits
  <1>11. b[k] \in Nat /\ Len(line) \in Nat /\ (k # Len(b) => b[k + 1] \in Nat)
    <2>1. Len(line) \in Nat
      BY <1>7
    <2> QED
      BY <1>5, <1>8, <2>1 DEF Starts
  <1>12. row.stop <= row.start + Len(row.chars)
    <2> DEFINE start == row.start
               stop == row.stop
               len == Len(row.chars)
               first == b[k]
    <2>1. /\ start = first - 1 /\ len = StartAfter(line, b, k) - first
          /\ stop = IF k = Len(b) THEN Len(line) ELSE b[k + 1] - 2
          /\ first \in Nat
      BY <1>10, <1>11
    <2> HIDE DEF start, stop, len, first
    <2> DEFINE past == StartAfter(line, b, k)
    <2>2. past \in Int /\ (stop = past - 1 \/ stop = past - 2)
      <3>1. CASE k = Len(b)
        <4>1. past = Len(line) + 1 /\ stop = Len(line)
          BY <2>1, <3>1 DEF StartAfter
        <4> HIDE DEF past
        <4> QED
          BY <1>11, <4>1
      <3>2. CASE k # Len(b)
        <4>1. past = b[k + 1] /\ stop = b[k + 1] - 2
          BY <2>1, <3>2 DEF StartAfter
        <4>2. b[k + 1] \in Nat
          BY <1>11, <3>2
        <4>3. past \in Nat /\ stop = past - 2
          BY <4>1, <4>2, Zenon
        <4> HIDE DEF past
        <4> QED
          BY <4>3
      <3> QED
        BY <3>1, <3>2
    <2>3. start = first - 1 /\ len = past - first
      BY <2>1
    <2> HIDE DEF past
    <2>4. stop <= start + len
      BY <2>1, <2>2, <2>3
    <2> QED
      BY <2>4 DEF start, stop, len
  <1> QED
    BY <1>12 DEF RowEnd, rows

LEMMA AgreeingIsTogether == CursorsAgree <=> Together(at)
  BY DEF CursorsAgree, CursorInLine, CursorInRow, Line, Together

(* The rows a cursor finds its column in: there is exactly one.            *)
LEMMA RowOfColumn ==
  ASSUME CursorTyped, wrapped = Wrap(lines),
         NEW y \in 0..(Len(lines) - 1), NEW x \in 0..Len(lines[y + 1])
  PROVE  \E r \in DOMAIN wrapped : \A q \in DOMAIN wrapped :
            wrapped[q].line = y /\ x \in wrapped[q].start..wrapped[q].stop <=> q = r
  <1>1. lines \in Seq(Seq(Chars)) /\ Len(lines) \in Nat
    BY DEF CursorTyped, Text
  <1>2. y + 1 \in DOMAIN lines /\ (y + 1) - 1 = y
    BY <1>1
  <1>3. ColumnsHaveOneRowIn(lines)
    BY <1>1, ColumnsHaveOneRow
  <1>4. \A n \in DOMAIN lines : \A z \in 0..Len(lines[n]) :
           \E r \in DOMAIN wrapped : \A q \in DOMAIN wrapped :
              wrapped[q].line = n - 1 /\ z \in wrapped[q].start..wrapped[q].stop <=> q = r
    <2>1. \A n \in DOMAIN lines : \A z \in 0..Len(lines[n]) :
             \E r \in DOMAIN Wrap(lines) : \A q \in DOMAIN Wrap(lines) :
                Wrap(lines)[q].line = n - 1
                /\ z \in Wrap(lines)[q].start..Wrap(lines)[q].stop <=> q = r
      BY <1>3, Zenon DEF ColumnsHaveOneRowIn
    <2> QED
      BY <2>1
  <1>5. \E r \in DOMAIN wrapped : \A q \in DOMAIN wrapped :
           wrapped[q].line = (y + 1) - 1
           /\ x \in wrapped[q].start..wrapped[q].stop <=> q = r
    BY <1>2, <1>4, Zenon
  <1> QED
    BY <1>2, <1>5, Zenon

(* A row is a part of its line.                                            *)
LEMMA RowInLine ==
  ASSUME CursorTyped, wrapped = Wrap(lines), NEW r \in DOMAIN wrapped
  PROVE  LET row == wrapped[r]
         IN  /\ row.line \in Nat /\ row.start \in Nat /\ row.stop \in Nat
             /\ Len(row.chars) \in Nat /\ Len(lines[row.line + 1]) \in Nat
             /\ row.line \in 0..(Len(lines) - 1)
             /\ row.stop <= row.start + Len(row.chars)
             /\ row.start + Len(row.chars) <= Len(lines[row.line + 1])
  <1> DEFINE row == wrapped[r]
  <1>1. lines \in Seq(Seq(Chars)) /\ Len(lines) \in Nat /\ wrapped \in Seq(RowSet)
    BY DEF CursorTyped, Text
  <1>2. /\ row.line \in Nat /\ row.start \in Nat /\ row.stop \in Nat
        /\ Len(row.chars) \in Nat
    BY <1>1, RowParts
  <1>3. InItsLine(row, lines)
    <2>1. Chained(lines, wrapped)
      BY <1>1, WrapChains
    <2> QED
      BY <1>1, <2>1 DEF Chained
  <1>4. row.stop <= row.start + Len(row.chars)
    BY <1>1, RowStops DEF RowEnd
  <1> DEFINE y == row.line
  <1>5. y + 1 \in 1..Len(lines) /\ row.start + Len(row.chars) <= Len(lines[y + 1])
    BY <1>3 DEF InItsLine, RowEnd
  <1>6. Len(lines[y + 1]) \in Nat
    BY <1>1, <1>5
  <1>7. y \in 0..(Len(lines) - 1)
    <2>1. y \in Nat
      BY <1>2
    <2> HIDE DEF y
    <2> QED
      BY <1>1, <1>5, <2>1
  <1> QED
    BY <1>2, <1>4, <1>5, <1>6, <1>7

LEMMA PlacedOnce ==
  ASSUME CursorTyped, wrapped = Wrap(lines),
         NEW f \in [Positions -> Int], NEW g \in [Positions -> Int],
         Placed(f), Placed(g), f.cx = g.cx, f.cy = g.cy
  PROVE  f.wx = g.wx /\ f.wy = g.wy
  <1> DEFINE y == f.cy
             x == f.cx
  <1>1. y \in 0..(Len(lines) - 1) /\ x \in 0..Len(lines[y + 1])
    BY DEF Placed, Together
  <1>2. PICK r \in DOMAIN wrapped : \A q \in DOMAIN wrapped :
            wrapped[q].line = y /\ x \in wrapped[q].start..wrapped[q].stop <=> q = r
    BY <1>1, RowOfColumn
  <1> HIDE DEF x, y
  <1>3. ASSUME NEW h \in [Positions -> Int], Placed(h), h.cx = x, h.cy = y
        PROVE  h.wy + 1 = r /\ h.wx = x - wrapped[r].start
    <2> DEFINE w == h.wx
               q == h.wy + 1
    <2>1. w \in Int /\ h.wy \in Int /\ x \in Int /\ Len(wrapped) \in Nat
      BY <1>3 DEF Positions, CursorTyped
    <2>2. h.wy \in 0..(Len(wrapped) - 1)
      BY <1>3 DEF Placed, Together
    <2>3. q \in DOMAIN wrapped
      BY <2>1, <2>2 DEF CursorTyped
    <2>4. /\ wrapped[q].start \in Nat /\ wrapped[q].stop \in Nat
          /\ Len(wrapped[q].chars) \in Nat
      BY <2>3, RowInLine
    <2>5. /\ wrapped[q].line = y /\ w \in 0..Len(wrapped[q].chars)
          /\ x = wrapped[q].start + w /\ x <= wrapped[q].stop
      BY <1>3 DEF Placed, Together
    <2> DEFINE start == wrapped[q].start
               stop == wrapped[q].stop
               len == Len(wrapped[q].chars)
    <2>6. /\ start \in Nat /\ stop \in Nat /\ len \in Nat /\ w \in 0..len
          /\ x = start + w /\ x <= stop
      BY <2>4, <2>5
    <2> HIDE DEF q, w, start, stop, len
    <2>7. x \in start..stop /\ w = x - start
      BY <2>1, <2>6
    <2>8. x \in wrapped[q].start..wrapped[q].stop /\ w = x - wrapped[q].start
      BY <2>7 DEF start, stop
    <2>9. q = r
      BY <1>2, <2>3, <2>5, <2>8
    <2> QED
      BY <2>8, <2>9 DEF q, w
  <1>4. f.wy + 1 = r /\ g.wy + 1 = r /\ f.wx = x - wrapped[r].start
        /\ g.wx = x - wrapped[r].start
    BY <1>3 DEF x, y
  <1>5. f.wy \in Int /\ g.wy \in Int
    BY DEF Positions
  <1> QED
    BY <1>4, <1>5

(* What the rule of the cursor in the lines makes of the facts: it corrects*)
(* a line that does not exist and may leave the column for the next time;  *)
(* else it puts both cursors at a place of the text.                       *)
LEMMA CursorRule ==
  ASSUME CursorTyped
  PROVE  /\ IsWrites(CursorWrites)
         /\ wrapped = Wrap(lines) /\ cursor = <<at.cx, at.cy>> =>
               \E want \in [Positions -> Int] :
                  /\ CursorWrites = Changed(want, at)
                  /\ want.cy \in 0..(Len(lines) - 1)
                  /\ Placed(want) \/ (want.wx = at.wx /\ want.wy = at.wy)
                  /\ LineExists => Placed(want) /\ want.cy = at.cy
                  /\ CursorInLine => want.cx = at.cx
  <1> DEFINE lens == [n \in DOMAIN lines |-> Len(lines[n])]
             c == Clamp(cursor[1], cursor[2], lens)
             x == c[1]
             y == c[2]
             here == {r \in DOMAIN wrapped :
                         /\ wrapped[r].line = y
                         /\ x \in wrapped[r].start..wrapped[r].stop}
             row == CHOOSE r \in here : TRUE
             there == IF here = {} THEN <<at.wx, at.wy>>
                      ELSE <<x - wrapped[row].start, row - 1>>
             want == [cx |-> x, cy |-> y, wx |-> there[1], wy |-> there[2]]
             now == [cx |-> cursor[1], cy |-> cursor[2], wx |-> at.wx, wy |-> at.wy]
  <1>1. CursorWrites = Changed(want, now)
    BY DEF CursorWrites
  <1>2. /\ lines \in Seq(Seq(Chars)) /\ lines # <<>> /\ Len(lines) \in Nat
        /\ wrapped \in Seq(RowSet) /\ cursor[1] \in Int /\ cursor[2] \in Int
        /\ at.cx \in Int /\ at.cy \in Int /\ at.wx \in Int /\ at.wy \in Int
    BY DEF CursorTyped, Text, Facts
  <1>3. /\ lens \in Seq(Nat) /\ lens # <<>> /\ Len(lens) = Len(lines)
        /\ \A n \in 1..Len(lines) : lens[n] = Len(lines[n])
    BY <1>2, LineLengths
  <1> HIDE DEF lens
  <1>4. /\ x \in Int /\ y \in 0..(Len(lens) - 1)
        /\ cursor[2] \in 0..(Len(lens) - 1) =>
              /\ y = cursor[2] /\ x \in 0..lens[cursor[2] + 1]
              /\ cursor[1] \in 0..lens[cursor[2] + 1] => x = cursor[1]
    <2> DEFINE p == cursor[1]
               q == cursor[2]
               d == Clamp(p, q, lens)
    <2>1. p \in Int /\ q \in Int
      BY <1>2
    <2> HIDE DEF p, q
    <2>2. /\ d[1] \in Int /\ d[2] \in 0..(Len(lens) - 1)
          /\ q \in 0..(Len(lens) - 1) =>
                /\ d[2] = q /\ d[1] \in 0..lens[q + 1]
                /\ p \in 0..lens[q + 1] => d[1] = p
      BY <1>3, <2>1, ClampStays
    <2>3. c = d
      BY DEF p, q
    <2> HIDE DEF c, d
    <2> QED
      BY <2>2, <2>3 DEF p, q
  <1> HIDE DEF x, y
  <1>5. y \in 0..(Len(lines) - 1) /\ y \in Int
    BY <1>2, <1>3, <1>4
  <1>6. \A r \in DOMAIN wrapped : r \in Int /\ wrapped[r].start \in Nat
    BY <1>2, RowParts
  <1>7. here # {} => row \in here
    <2> HIDE DEF here
    <2> QED
      BY Zenon
  <1> HIDE DEF row
  <1>8. there[1] \in Int /\ there[2] \in Int
    <2>1. CASE here = {}
      BY <1>2, <2>1
    <2>2. CASE here # {}
      <3>1. row \in DOMAIN wrapped
        BY <1>7, <2>2
      <3>2. there = <<x - wrapped[row].start, row - 1>>
        BY <2>2
      <3> HIDE DEF here, there
      <3> QED
        BY <1>4, <1>6, <3>1, <3>2
    <2> QED
      BY <2>1, <2>2
  <1>9. here = {} => there = <<at.wx, at.wy>>
    OBVIOUS
  <1>10. here # {} => there = <<x - wrapped[row].start, row - 1>>
    OBVIOUS
  <1> HIDE DEF there
  <1>11. /\ want \in [Positions -> Int]
         /\ want.cx = x /\ want.cy = y /\ want.wx = there[1] /\ want.wy = there[2]
    BY <1>4, <1>5, <1>8 DEF Positions
  <1> HIDE DEF want
  <1>12. IsWrites(CursorWrites)
    BY <1>1, <1>11, ChangedWrites
  <1>13. ASSUME wrapped = Wrap(lines), cursor = <<at.cx, at.cy>>
         PROVE  /\ CursorWrites = Changed(want, at)
                /\ want.cy \in 0..(Len(lines) - 1)
                /\ Placed(want) \/ (want.wx = at.wx /\ want.wy = at.wy)
                /\ LineExists => Placed(want) /\ want.cy = at.cy
                /\ CursorInLine => want.cx = at.cx
    <2>1. DOMAIN want = Positions /\ \A f \in Positions : now[f] = at[f]
      BY <1>11, <1>13 DEF Positions
    <2>2. Changed(want, now) = Changed(want, at)
      <3> HIDE DEF now
      <3> QED
        BY <2>1 DEF Changed
    <2>3. here # {} => Placed(want)
      <3> SUFFICES ASSUME here # {} PROVE Placed(want)
        OBVIOUS
      <3>1. /\ row \in DOMAIN wrapped /\ wrapped[row].line = y
            /\ x \in wrapped[row].start..wrapped[row].stop
        BY <1>7
      <3>2. want.wx = x - wrapped[row].start /\ want.wy = row - 1
        BY <1>10, <1>11
      <3> DEFINE start == wrapped[row].start
                 stop == wrapped[row].stop
                 len == Len(wrapped[row].chars)
                 all == Len(lines[y + 1])
                 v == want.wx
      <3>3. /\ start \in Nat /\ stop \in Nat /\ len \in Nat /\ all \in Nat
            /\ stop <= start + len /\ start + len <= all
        BY <1>13, <3>1, RowInLine
      <3>4. x \in start..stop /\ v = x - start
        BY <3>1, <3>2
      <3> HIDE DEF start, stop, len, all, v
      <3>5. v \in 0..len /\ x \in 0..all /\ x = start + v /\ x <= stop
        BY <1>4, <3>3, <3>4
      <3>6. row \in 1..Len(wrapped) /\ Len(wrapped) \in Nat
        BY <1>2, <3>1
      <3>7. want.wy \in 0..(Len(wrapped) - 1) /\ want.wy + 1 = row
        BY <3>2, <3>6
      <3> QED
        BY <1>5, <1>11, <3>1, <3>5, <3>7
           DEF Placed, Together, start, stop, len, all, v
    <2>4. LineExists => here # {} /\ y = at.cy
      <3> SUFFICES ASSUME LineExists PROVE here # {} /\ y = at.cy
        OBVIOUS
      <3>1. y = at.cy /\ x \in 0..lens[y + 1]
        BY <1>3, <1>4, <1>13 DEF LineExists
      <3>2. y + 1 \in 1..Len(lines)
        BY <1>2, <1>5
      <3>3. x \in 0..Len(lines[y + 1])
        BY <1>3, <3>1, <3>2
      <3>4. \E r \in DOMAIN wrapped : wrapped[r].line = y
                                      /\ x \in wrapped[r].start..wrapped[r].stop
        <4>1. \E r \in DOMAIN wrapped : \A q \in DOMAIN wrapped :
                 wrapped[q].line = y /\ x \in wrapped[q].start..wrapped[q].stop <=> q = r
          BY <1>5, <1>13, <3>3, RowOfColumn
        <4> QED
          BY <4>1, Zenon
      <3> QED
        BY <3>1, <3>4
    <2>5. CursorInLine => x = at.cx
      <3> SUFFICES ASSUME CursorInLine PROVE x = at.cx
        OBVIOUS
      <3>1. at.cy \in 0..(Len(lines) - 1) /\ at.cx \in 0..Len(lines[at.cy + 1])
        BY DEF CursorInLine, Line
      <3>2. at.cy + 1 \in 1..Len(lines)
        <4> DEFINE z == at.cy
        <4>1. z \in Int /\ z \in 0..(Len(lines) - 1)
          BY <1>2, <3>1
        <4> HIDE DEF z
        <4>2. z + 1 \in 1..Len(lines)
          BY <1>2, <4>1
        <4> QED
          BY <4>2 DEF z
      <3>3. at.cx \in 0..lens[at.cy + 1]
        BY <1>3, <3>1, <3>2
      <3> QED
        BY <1>3, <1>4, <1>13, <3>1, <3>3
    <2>6. here = {} => want.wx = at.wx /\ want.wy = at.wy
      BY <1>9, <1>11
    <2> QED
      BY <1>1, <1>5, <1>11, <2>2, <2>3, <2>4, <2>5, <2>6
  <1> QED
    BY <1>11, <1>12, <1>13

(* The rule of the cursor in the rows puts both at one place, if the row   *)
(* exists, and changes nothing where they are together.                    *)
LEMMA WrappedCursorRule ==
  ASSUME CursorTyped
  PROVE  /\ IsWrites(WrappedCursorWrites)
         /\ wrapped = Wrap(lines) /\ wrappedCursor = <<at.wx, at.wy>> =>
               \E want \in [Positions -> Int] :
                  /\ WrappedCursorWrites = Changed(want, at)
                  /\ want.wy \in 0..(Len(wrapped) - 1)
                  /\ RowExists => Together(want)
                  /\ CursorsAgree => \A f \in Positions : want[f] = at[f]
  <1> DEFINE lens == [r \in DOMAIN wrapped |-> Len(wrapped[r].chars)]
             c == Clamp(wrappedCursor[1], wrappedCursor[2], lens)
             x == c[1]
             y == c[2]
             row == wrapped[y + 1]
             want == [cx |-> x + row.start, cy |-> row.line, wx |-> x, wy |-> y]
             now == [cx |-> at.cx, cy |-> at.cy,
                     wx |-> wrappedCursor[1], wy |-> wrappedCursor[2]]
  <1>1. WrappedCursorWrites = Changed(want, now)
    BY DEF WrappedCursorWrites
  <1>2. /\ lines \in Seq(Seq(Chars)) /\ wrapped # <<>> /\ Len(wrapped) \in Nat
        /\ wrapped \in Seq(RowSet) /\ wrappedCursor[1] \in Int /\ wrappedCursor[2] \in Int
        /\ at.cx \in Int /\ at.cy \in Int /\ at.wx \in Int /\ at.wy \in Int
    BY DEF CursorTyped, Text, Facts
  <1>3. /\ lens \in Seq(Nat) /\ lens # <<>> /\ Len(lens) = Len(wrapped)
        /\ \A r \in 1..Len(wrapped) : lens[r] = Len(wrapped[r].chars)
    BY <1>2, RowLengths
  <1> HIDE DEF lens
  <1>4. /\ x \in Int /\ y \in 0..(Len(lens) - 1)
        /\ wrappedCursor[2] \in 0..(Len(lens) - 1) =>
              /\ y = wrappedCursor[2] /\ x \in 0..lens[wrappedCursor[2] + 1]
              /\ wrappedCursor[1] \in 0..lens[wrappedCursor[2] + 1] =>
                    x = wrappedCursor[1]
    <2> DEFINE p == wrappedCursor[1]
               q == wrappedCursor[2]
               d == Clamp(p, q, lens)
    <2>1. p \in Int /\ q \in Int
      BY <1>2
    <2> HIDE DEF p, q
    <2>2. /\ d[1] \in Int /\ d[2] \in 0..(Len(lens) - 1)
          /\ q \in 0..(Len(lens) - 1) =>
                /\ d[2] = q /\ d[1] \in 0..lens[q + 1]
                /\ p \in 0..lens[q + 1] => d[1] = p
      BY <1>3, <2>1, ClampStays
    <2>3. c = d
      BY DEF p, q
    <2> HIDE DEF c, d
    <2> QED
      BY <2>2, <2>3 DEF p, q
  <1> HIDE DEF x, y
  <1>5. y \in 0..(Len(wrapped) - 1) /\ y \in Int /\ y + 1 \in 1..Len(wrapped)
    BY <1>2, <1>3, <1>4
  <1>6. row.line \in Nat /\ row.start \in Nat
    <2>1. row \in RowSet
      BY <1>2, <1>5
    <2> HIDE DEF row
    <2> QED
      BY <2>1, RowParts
  <1>7. /\ want \in [Positions -> Int]
        /\ want.cx = x + row.start /\ want.cy = row.line /\ want.wx = x /\ want.wy = y
    <2> DEFINE start == row.start
               line == row.line
    <2>1. line \in Int /\ start \in Int
      BY <1>6
    <2> HIDE DEF start, line
    <2>2. x + start \in Int
      BY <1>4, <2>1
    <2>3. want = [cx |-> x + start, cy |-> line, wx |-> x, wy |-> y]
      BY DEF start, line
    <2> HIDE DEF want, row
    <2> QED
      BY <1>4, <1>5, <2>1, <2>2, <2>3 DEF Positions, start, line
  <1> HIDE DEF want
  <1>8. IsWrites(WrappedCursorWrites)
    BY <1>1, <1>7, ChangedWrites
  <1>9. ASSUME wrapped = Wrap(lines), wrappedCursor = <<at.wx, at.wy>>
        PROVE  /\ WrappedCursorWrites = Changed(want, at)
               /\ want.wy \in 0..(Len(wrapped) - 1)
               /\ RowExists => Together(want)
               /\ CursorsAgree => \A f \in Positions : want[f] = at[f]
    <2>1. DOMAIN want = Positions /\ \A f \in Positions : now[f] = at[f]
      BY <1>7, <1>9 DEF Positions
    <2>2. Changed(want, now) = Changed(want, at)
      <3> HIDE DEF now
      <3> QED
        BY <2>1 DEF Changed
    <2>3. RowExists => /\ y = at.wy /\ x \in 0..Len(wrapped[at.wy + 1].chars)
                       /\ at.wx \in 0..Len(wrapped[at.wy + 1].chars) => x = at.wx
      <3> SUFFICES ASSUME RowExists
                   PROVE  /\ y = at.wy /\ x \in 0..Len(wrapped[at.wy + 1].chars)
                          /\ at.wx \in 0..Len(wrapped[at.wy + 1].chars) => x = at.wx
        OBVIOUS
      <3>1. at.wy \in 0..(Len(lens) - 1)
        BY <1>3 DEF RowExists
      <3>2. y = at.wy
        BY <1>4, <1>9, <3>1
      <3>3. lens[at.wy + 1] = Len(wrapped[at.wy + 1].chars)
        BY <1>3, <1>5, <3>2
      <3> QED
        BY <1>4, <1>9, <3>1, <3>2, <3>3
    <2>4. RowExists => Together(want)
      <3> SUFFICES ASSUME RowExists PROVE Together(want)
        OBVIOUS
      <3> DEFINE start == row.start
                 len == Len(row.chars)
                 all == Len(lines[row.line + 1])
      <3>1. /\ row.line \in 0..(Len(lines) - 1)
            /\ start \in Nat /\ len \in Nat /\ all \in Nat /\ start + len <= all
        <4>1. y + 1 \in DOMAIN wrapped
          BY <1>2, <1>5
        <4> QED
          BY <1>9, <4>1, RowInLine
      <3>2. x \in 0..len
        BY <2>3
      <3> HIDE DEF start, len, all
      <3>3. x + start \in 0..all /\ x + start = start + x
        BY <1>4, <3>1, <3>2
      <3>4. Len(row.chars) = len /\ Len(lines[row.line + 1]) = all /\ row.start = start
        BY DEF start, len, all
      <3>5. want.cx = x + start
        BY <1>7, <3>4
      <3> QED
        BY <1>5, <1>7, <3>1, <3>2, <3>3, <3>4, <3>5 DEF Together
    <2>5. CursorsAgree => \A f \in Positions : want[f] = at[f]
      <3> SUFFICES ASSUME CursorsAgree PROVE \A f \in Positions : want[f] = at[f]
        OBVIOUS
      <3>1. /\ RowExists /\ at.wx \in 0..Len(wrapped[at.wy + 1].chars)
            /\ wrapped[at.wy + 1].line = at.cy
            /\ at.cx = wrapped[at.wy + 1].start + at.wx
        BY DEF CursorsAgree, CursorInRow, RowExists
      <3>2. y = at.wy /\ x = at.wx
        BY <2>3, <3>1
      <3>3. row.line = at.cy /\ at.cx = row.start + x
        BY <3>1, <3>2
      <3> DEFINE start == row.start
      <3>4. start \in Nat /\ at.cx = start + x
        BY <1>6, <3>3
      <3> HIDE DEF start
      <3>5. x + start = at.cx
        BY <1>4, <3>4
      <3>6. want.cx = at.cx
        BY <1>7, <3>5 DEF start
      <3> QED
        BY <1>7, <3>2, <3>3, <3>6 DEF Positions
    <2> QED
      BY <1>1, <1>5, <1>7, <2>2, <2>4, <2>5
  <1> QED
    BY <1>7, <1>8, <1>9

LEMMA SamePlace ==
  ASSUME NEW f, NEW g, \A p \in Positions : f[p] = g[p]
  PROVE  (Together(f) <=> Together(g)) /\ (Placed(f) <=> Placed(g))
  <1>1. f.cx = g.cx /\ f.cy = g.cy /\ f.wx = g.wx /\ f.wy = g.wy
    BY DEF Positions
  <1> QED
    BY <1>1 DEF Together, Placed

(* A rule that finds nothing to write found the cursors together.          *)
LEMMA QuietRules ==
  ASSUME CursorTyped, wrapped = Wrap(lines)
  PROVE  /\ cursor = <<at.cx, at.cy>> /\ DOMAIN CursorWrites = {} => CursorsAgree
         /\ wrappedCursor = <<at.wx, at.wy>> /\ DOMAIN WrappedCursorWrites = {} =>
               CursorsAgree
  <1>1. ASSUME cursor = <<at.cx, at.cy>>, DOMAIN CursorWrites = {}
        PROVE  CursorsAgree
    <2>1. PICK want \in [Positions -> Int] :
             /\ CursorWrites = Changed(want, at) /\ want.cy \in 0..(Len(lines) - 1)
             /\ LineExists => Placed(want)
      BY <1>1, CursorRule
    <2>2. \A f \in Positions : want[f] = at[f]
      BY <1>1, <2>1, ChangedWrites
    <2>3. LineExists
      BY <2>1, <2>2 DEF LineExists, Positions
    <2>4. Together(want)
      BY <2>1, <2>3 DEF Placed
    <2> QED
      BY <2>2, <2>4, SamePlace, AgreeingIsTogether
  <1>2. ASSUME wrappedCursor = <<at.wx, at.wy>>, DOMAIN WrappedCursorWrites = {}
        PROVE  CursorsAgree
    <2>1. PICK want \in [Positions -> Int] :
             /\ WrappedCursorWrites = Changed(want, at)
             /\ want.wy \in 0..(Len(wrapped) - 1)
             /\ RowExists => Together(want)
      BY <1>2, WrappedCursorRule
    <2>2. \A f \in Positions : want[f] = at[f]
      BY <1>2, <2>1, ChangedWrites
    <2>3. RowExists
      BY <2>1, <2>2 DEF RowExists, Positions
    <2> QED
      BY <2>1, <2>2, <2>3, SamePlace, AgreeingIsTogether
  <1> QED
    BY <1>1, <1>2

LEMMA ScrolledShows ==
  ASSUME NEW pos \in Int, NEW scroll \in Int, NEW size \in Nat \ {0}
  PROVE  LET s == Scrolled(pos, scroll, size)
         IN  s \in Int /\ pos \in s..(s + size - 1)
  BY DEF Scrolled

LEMMA TriggeredRules ==
  ASSUME NEW F
  PROVE  /\ "cx" \in F \/ "cy" \in F <=> "updateCursor" \in Triggered(F)
         /\ "wx" \in F \/ "wy" \in F <=> "updateWrappedCursor" \in Triggered(F)
         /\ "wx" \in F => "scrollX" \in Triggered(F)
         /\ "wy" \in F => "scrollY" \in Triggered(F)
         /\ {"wrapLines", "cursorChanged", "wrappedCursorChanged"}
               \cap Triggered(F) = {}
  BY DEF Triggered

LEMMA FollowingRules ==
  ASSUME NEW Q
  PROVE  LET R == {f[2] : f \in {g \in Follows : g[1] \in Q}}
         IN  /\ "cursorChanged" \in R <=> "updateCursor" \in Q
             /\ "wrappedCursorChanged" \in R <=> "updateWrappedCursor" \in Q
             /\ "scrollY" \in R <=> "wrapLines" \in Q
             /\ {"wrapLines", "updateCursor", "updateWrappedCursor", "scrollX"}
                   \cap R = {}
  <1> DEFINE R == {f[2] : f \in {g \in Follows : g[1] \in Q}}
  <1>1. \A x : x \in R <=> \E g \in Follows : g[1] \in Q /\ x = g[2]
    OBVIOUS
  <1> HIDE DEF R
  <1>2. \A x : x \in R <=> \/ "updateCursor" \in Q /\ x = "cursorChanged"
                           \/ "updateWrappedCursor" \in Q /\ x = "wrappedCursorChanged"
                           \/ "wrapLines" \in Q /\ x = "scrollY"
    BY <1>1 DEF Follows
  <1> QED
    BY <1>2 DEF R

LEMMA WrapIsRows ==
  ASSUME NEW text \in Text
  PROVE  Wrap(text) \in Seq(RowSet) /\ Wrap(text) # <<>>
  BY WrapChains DEF Chained, Text

LEMMA ScrollsAfter ==
  ASSUME at \in [Facts -> Int]
  PROVE  /\ ScrollXAfter \in Int /\ ScrollYAfter \in Int
         /\ "scrollX" \in queue /\ at.wx >= 0 =>
               at.wx \in ScrollXAfter..(ScrollXAfter + Width - 1)
         /\ "scrollX" \notin queue => ScrollXAfter = at.sx
         /\ "scrollY" \in queue /\ at.wy >= 0 /\ at.wy < Len(wrapped) =>
               at.wy \in ScrollYAfter..(ScrollYAfter + Height - 1)
         /\ "scrollY" \notin queue => ScrollYAfter = at.sy
  <1> DEFINE x == at.wx
             y == at.wy
             sx == at.sx
             sy == at.sy
  <1>1. x \in Int /\ y \in Int /\ sx \in Int /\ sy \in Int
    BY DEF Facts
  <1> HIDE DEF x, y, sx, sy
  <1>2. /\ Scrolled(x, sx, Width) \in Int /\ Scrolled(y, sy, Height) \in Int
        /\ x \in Scrolled(x, sx, Width)..(Scrolled(x, sx, Width) + Width - 1)
        /\ y \in Scrolled(y, sy, Height)..(Scrolled(y, sy, Height) + Height - 1)
    BY <1>1, ScrolledShows, WindowAssumption
  <1>3. /\ ScrollXAfter = IF "scrollX" \in queue /\ x >= 0
                          THEN Scrolled(x, sx, Width) ELSE sx
        /\ ScrollYAfter = IF /\ "scrollY" \in queue /\ y >= 0
                             /\ y < sy \/ y < Len(wrapped)
                          THEN Scrolled(y, sy, Height) ELSE sy
    BY DEF ScrollXAfter, ScrollYAfter, x, y, sx, sy
  <1>4. /\ ScrollXAfter \in Int /\ ScrollYAfter \in Int
        /\ "scrollX" \in queue /\ x >= 0 =>
              x \in ScrollXAfter..(ScrollXAfter + Width - 1)
        /\ "scrollX" \notin queue => ScrollXAfter = sx
        /\ "scrollY" \in queue /\ y >= 0 /\ y < Len(wrapped) =>
              y \in ScrollYAfter..(ScrollYAfter + Height - 1)
        /\ "scrollY" \notin queue => ScrollYAfter = sy
    BY <1>1, <1>2, <1>3
  <1> QED
    BY <1>4 DEF x, y, sx, sy

LinesRule == IF "cursorChanged" \in queue THEN CursorWrites ELSE Nothing
RowsRule ==
    IF "wrappedCursorChanged" \in queue THEN WrappedCursorWrites ELSE Nothing

(* What a round writes, and the rules it triggers.                         *)
WritesInRound(w) ==
    /\ w \in {Over(LinesRule, RowsRule), Over(RowsRule, LinesRule)}
    /\ IsWrites(w) /\ DOMAIN w = DOMAIN LinesRule \cup DOMAIN RowsRule
    /\ at' \in [Facts -> Int] /\ at'.sx = ScrollXAfter /\ at'.sy = ScrollYAfter
    /\ \A f \in Positions : at'[f] = IF f \in DOMAIN w THEN w[f] ELSE at[f]
    /\ "updateCursor" \in queue' <=> "cx" \in DOMAIN w \/ "cy" \in DOMAIN w
    /\ "updateWrappedCursor" \in queue' <=> "wx" \in DOMAIN w \/ "wy" \in DOMAIN w
    /\ "cursorChanged" \in queue' <=> "updateCursor" \in queue
    /\ "wrappedCursorChanged" \in queue' <=> "updateWrappedCursor" \in queue
    /\ "wrapLines" \notin queue'
    /\ "wx" \in DOMAIN w => "scrollX" \in queue'
    /\ "wy" \in DOMAIN w => "scrollY" \in queue'
    /\ "wrapLines" \in queue => "scrollY" \in queue'
    /\ DOMAIN w = {}
       /\ {"updateCursor", "updateWrappedCursor", "wrapLines"} \cap queue = {} =>
          queue' = {}

LEMMA RoundWrites ==
  ASSUME CursorTyped, Round
  PROVE  \E w : WritesInRound(w)
  <1> DEFINE a == LinesRule
             b == RowsRule
             now == [at EXCEPT !.sx = ScrollXAfter, !.sy = ScrollYAfter]
             next == {f[2] : f \in {g \in Follows : g[1] \in queue}}
  <1>1. PICK w \in {Over(a, b), Over(b, a)} :
            at' = Over(w, now) /\ queue' = Triggered(DOMAIN w) \cup next
    BY DEF Round, LinesRule, RowsRule
  <1>2. IsWrites(a) /\ IsWrites(b)
    BY CursorRule, WrappedCursorRule, NothingIsWritten DEF LinesRule, RowsRule
  <1>3. IsWrites(w) /\ DOMAIN w = DOMAIN a \cup DOMAIN b
    <2> HIDE DEF a, b, now, next
    <2>1. w = Over(a, b) \/ w = Over(b, a)
      OBVIOUS
    <2>2. IsWrites(Over(a, b)) /\ DOMAIN Over(a, b) = DOMAIN a \cup DOMAIN b
      BY <1>2, OverWrites, Zenon
    <2>3. IsWrites(Over(b, a)) /\ DOMAIN Over(b, a) = DOMAIN b \cup DOMAIN a
      BY <1>2, OverWrites, Zenon
    <2>4. DOMAIN b \cup DOMAIN a = DOMAIN a \cup DOMAIN b
      OBVIOUS
    <2> QED
      BY <2>1, <2>2, <2>3, <2>4, Zenon
  <1>4. at \in [Facts -> Int]
    BY DEF CursorTyped
  <1>5. /\ now \in [Facts -> Int] /\ now.sx = ScrollXAfter /\ now.sy = ScrollYAfter
        /\ \A f \in Positions : now[f] = at[f]
    <2>1. ScrollXAfter \in Int /\ ScrollYAfter \in Int
      BY <1>4, ScrollsAfter
    <2> QED
      BY <1>4, <2>1 DEF Facts, Positions
  <1> HIDE DEF a, b, now, next
  <1>6. /\ at' \in [Facts -> Int]
        /\ \A f \in Facts : at'[f] = IF f \in DOMAIN w THEN w[f] ELSE now[f]
    BY <1>1, <1>3, <1>5, OverFacts
  <1>7. /\ at'.sx = ScrollXAfter /\ at'.sy = ScrollYAfter
        /\ \A f \in Positions : at'[f] = IF f \in DOMAIN w THEN w[f] ELSE at[f]
    BY <1>3, <1>5, <1>6 DEF IsWrites, Facts, Positions
  <1>8. /\ "updateCursor" \in queue' <=> "cx" \in DOMAIN w \/ "cy" \in DOMAIN w
        /\ "updateWrappedCursor" \in queue' <=> "wx" \in DOMAIN w \/ "wy" \in DOMAIN w
        /\ "cursorChanged" \in queue' <=> "updateCursor" \in queue
        /\ "wrappedCursorChanged" \in queue' <=> "updateWrappedCursor" \in queue
        /\ "wrapLines" \notin queue'
        /\ "wx" \in DOMAIN w => "scrollX" \in queue'
        /\ "wy" \in DOMAIN w => "scrollY" \in queue'
        /\ "wrapLines" \in queue => "scrollY" \in queue'
    <2> DEFINE F == DOMAIN w
               T == Triggered(F)
    <2>1. /\ "cx" \in F \/ "cy" \in F <=> "updateCursor" \in T
          /\ "wx" \in F \/ "wy" \in F <=> "updateWrappedCursor" \in T
          /\ "wx" \in F => "scrollX" \in T
          /\ "wy" \in F => "scrollY" \in T
          /\ {"wrapLines", "cursorChanged", "wrappedCursorChanged"} \cap T = {}
      BY TriggeredRules
    <2>2. /\ "cursorChanged" \in next <=> "updateCursor" \in queue
          /\ "wrappedCursorChanged" \in next <=> "updateWrappedCursor" \in queue
          /\ "scrollY" \in next <=> "wrapLines" \in queue
          /\ {"wrapLines", "updateCursor", "updateWrappedCursor", "scrollX"}
                \cap next = {}
      BY FollowingRules DEF next
    <2>3. queue' = T \cup next
      BY <1>1
    <2> HIDE DEF F, T
    <2> QED
      BY <2>1, <2>2, <2>3 DEF F
  <1>9. ASSUME DOMAIN w = {},
               {"updateCursor", "updateWrappedCursor", "wrapLines"} \cap queue = {}
        PROVE  queue' = {}
    <2>1. Triggered(DOMAIN w) = {}
      BY <1>9 DEF Triggered
    <2>2. next = {}
      BY <1>9 DEF next, Follows
    <2> QED
      BY <1>1, <2>1, <2>2
  <1> QED
    BY <1>1, <1>3, <1>6, <1>7, <1>8, <1>9 DEF a, b, WritesInRound

LEMMA RowsAfterRound ==
  ASSUME CursorInv, Round
  PROVE  lines \in Text /\ wrapped' = Wrap(lines)
  <1>1. "wrapLines" \in queue => RowsAfter = Wrap(lines)
    BY DEF RowsAfter
  <1>2. "wrapLines" \notin queue => RowsAfter = wrapped /\ wrapped = Wrap(lines)
    BY DEF RowsAfter, CursorInv, RowsAreWrapped
  <1> QED
    BY <1>1, <1>2 DEF Round, CursorInv, CursorTyped

LEMMA RoundStep == CursorInv /\ Round => CursorInv'
  <1> SUFFICES ASSUME CursorInv, Round PROVE CursorInv'
    OBVIOUS
  <1> USE DEF CursorInv
  <1> DEFINE a == LinesRule
             b == RowsRule
  <1>1. PICK w : WritesInRound(w)
    BY RoundWrites
  <1>2. /\ lines' = lines /\ moved' = moved /\ wrapped' = RowsAfter
        /\ cursor' = IF "updateCursor" \in queue THEN <<at.cx, at.cy>> ELSE cursor
        /\ wrappedCursor' = IF "updateWrappedCursor" \in queue THEN <<at.wx, at.wy>>
                            ELSE wrappedCursor
    BY DEF Round
  <1>3. at \in [Facts -> Int] /\ \A f \in Facts : at[f] \in Int
    BY DEF CursorTyped
  <1>4. IsWrites(w) /\ DOMAIN w = DOMAIN a \cup DOMAIN b
    BY <1>1 DEF WritesInRound
  <1>5. /\ ScrollXAfter \in Int /\ ScrollYAfter \in Int
        /\ "scrollX" \in queue /\ at.wx >= 0 =>
              at.wx \in ScrollXAfter..(ScrollXAfter + Width - 1)
        /\ "scrollX" \notin queue => ScrollXAfter = at.sx
        /\ "scrollY" \in queue /\ at.wy >= 0 /\ at.wy < Len(wrapped) =>
              at.wy \in ScrollYAfter..(ScrollYAfter + Height - 1)
        /\ "scrollY" \notin queue => ScrollYAfter = at.sy
    BY <1>3, ScrollsAfter
  <1> HIDE DEF a, b
  <1>6. /\ at'.sx = ScrollXAfter /\ at'.sy = ScrollYAfter /\ at' \in [Facts -> Int]
        /\ \A f \in Positions : f \notin DOMAIN w => at'[f] = at[f]
    BY <1>1 DEF WritesInRound
  <1>7. /\ "updateCursor" \in queue' <=> "cx" \in DOMAIN w \/ "cy" \in DOMAIN w
        /\ "updateWrappedCursor" \in queue' <=> "wx" \in DOMAIN w \/ "wy" \in DOMAIN w
        /\ "cursorChanged" \in queue' <=> "updateCursor" \in queue
        /\ "wrappedCursorChanged" \in queue' <=> "updateWrappedCursor" \in queue
        /\ "wrapLines" \notin queue'
        /\ "wx" \in DOMAIN w => "scrollX" \in queue'
        /\ "wy" \in DOMAIN w => "scrollY" \in queue'
        /\ "wrapLines" \in queue => "scrollY" \in queue'
    BY <1>1 DEF WritesInRound
  <1>8. lines \in Text /\ wrapped' = Wrap(lines)
    BY RowsAfterRound
  <1>9. CursorTyped'
    <2>1. wrapped' \in Seq(RowSet) /\ wrapped' # <<>>
      BY <1>8, WrapIsRows
    <2>2. cursor' \in Int \X Int /\ wrappedCursor' \in Int \X Int
      BY <1>2, <1>3 DEF CursorTyped, Facts
    <2> QED
      BY <1>2, <1>6, <2>1, <2>2 DEF CursorTyped
  <1>10. RowsAreWrapped'
    BY <1>2, <1>7, <1>8 DEF RowsAreWrapped
  <1>11. CursorsAreUpdated'
    <2>1. "updateCursor" \notin queue' => at'.cx = at.cx /\ at'.cy = at.cy
      BY <1>6, <1>7 DEF Positions
    <2>2. "updateWrappedCursor" \notin queue' => at'.wx = at.wx /\ at'.wy = at.wy
      BY <1>6, <1>7 DEF Positions
    <2>3. cursor' = <<at.cx, at.cy>> /\ wrappedCursor' = <<at.wx, at.wy>>
      BY <1>2 DEF CursorsAreUpdated
    <2> QED
      BY <2>1, <2>2, <2>3 DEF CursorsAreUpdated
  <1>12. DOMAIN w = {} /\ CursorsAgree /\ wrapped = Wrap(lines) => CursorsAgree'
    <2> SUFFICES ASSUME DOMAIN w = {}, CursorsAgree, wrapped = Wrap(lines)
                 PROVE  CursorsAgree'
      OBVIOUS
    <2>1. at'.cx = at.cx /\ at'.cy = at.cy /\ at'.wx = at.wx /\ at'.wy = at.wy
      BY <1>6 DEF Positions
    <2>2. lines' = lines /\ wrapped' = wrapped
      BY <1>2, <1>8
    <2> QED
      BY <2>1, <2>2 DEF CursorsAgree, CursorInLine, CursorInRow, Line
  <1>13. ASSUME moved, CursorRules \cap queue' = {}
         PROVE  CursorsAgree'
    <2>1. /\ "updateCursor" \notin queue /\ "updateWrappedCursor" \notin queue
          /\ DOMAIN w \cap Positions = {}
      BY <1>7, <1>13 DEF CursorRules, Positions
    <2>2. DOMAIN w = {} /\ DOMAIN a = {} /\ DOMAIN b = {}
      BY <1>4, <2>1 DEF IsWrites
    <2>3. "wrapLines" \notin queue /\ wrapped = Wrap(lines)
      BY <1>13, <2>1 DEF CursorsSettle, RowsAreWrapped
    <2>4. cursor = <<at.cx, at.cy>> /\ wrappedCursor = <<at.wx, at.wy>>
      BY <2>1 DEF CursorsAreUpdated
    <2>5. CursorsAgree
      <3>1. CASE "cursorChanged" \in queue
        <4>1. DOMAIN CursorWrites = {}
          BY <2>2, <3>1 DEF a, LinesRule
        <4> QED
          BY <2>3, <2>4, <4>1, QuietRules
      <3>2. CASE "wrappedCursorChanged" \in queue
        <4>1. DOMAIN WrappedCursorWrites = {}
          BY <2>2, <3>2 DEF b, RowsRule
        <4> QED
          BY <2>3, <2>4, <4>1, QuietRules
      <3>3. CASE "cursorChanged" \notin queue /\ "wrappedCursorChanged" \notin queue
        BY <1>13, <2>1, <3>3 DEF CursorsSettle, CursorRules
      <3> QED
        BY <3>1, <3>2, <3>3
    <2> QED
      BY <1>12, <2>2, <2>3, <2>5
  <1>14. ASSUME ~moved
         PROVE  /\ CursorRules \cap queue' = {}
                /\ at'.cx >= 0 /\ at'.cy \in 0..(Len(lines) - 1)
    <2>1. /\ CursorRules \cap queue = {}
          /\ at.cx >= 0 /\ at.cy \in 0..(Len(lines) - 1)
      BY <1>14 DEF CursorsSettle
    <2>2. DOMAIN a = {} /\ DOMAIN b = {}
      BY <2>1, NothingIsWritten DEF CursorRules, a, b, LinesRule, RowsRule
    <2>3. DOMAIN w = {}
      BY <1>4, <2>2
    <2>4. CursorRules \cap queue' = {}
      BY <1>7, <2>1, <2>3 DEF CursorRules
    <2>5. at'.cx = at.cx /\ at'.cy = at.cy
      BY <1>6, <2>3 DEF Positions
    <2> QED
      BY <2>1, <2>4, <2>5
  <1>15. CursorsSettle'
    BY <1>2, <1>7, <1>13, <1>14 DEF CursorsSettle
  <1>16. WindowFollows'
    <2>1. ASSUME "scrollX" \notin queue', at'.wx >= 0
          PROVE  at'.wx \in at'.sx..(at'.sx + Width - 1)
      <3>1. at'.wx = at.wx /\ at'.sx = ScrollXAfter
        BY <1>6, <1>7, <2>1 DEF Positions
      <3> QED
        BY <1>5, <2>1, <3>1 DEF WindowFollows
    <2>2. ASSUME "scrollY" \notin queue', at'.wy >= 0, at'.wy < Len(wrapped')
          PROVE  at'.wy \in at'.sy..(at'.sy + Height - 1)
      <3>1. at'.wy = at.wy /\ at'.sy = ScrollYAfter
        BY <1>6, <1>7, <2>2 DEF Positions
      <3>2. "wrapLines" \notin queue /\ wrapped' = wrapped
        BY <1>2, <1>7, <2>2 DEF RowsAfter
      <3> QED
        BY <1>5, <2>2, <3>1, <3>2 DEF WindowFollows
    <2> QED
      BY <2>1, <2>2 DEF WindowFollows
  <1> QED
    BY <1>9, <1>10, <1>11, <1>15, <1>16

-----------------------------------------------------------------------------
(* One tick.                                                               *)

LEMMA TickStep ==
  ASSUME CursorInv, AtRest, NEW text \in Text, NEW w, IsWrites(w),
         NEW edited \in BOOLEAN, Tick(text, w, edited),
         ~edited => text = lines,
         DOMAIN w = {} => at.cy < Len(text)
  PROVE  CursorInv'
  <1> USE DEF CursorInv
  <1>1. /\ lines' = text /\ wrapped' = wrapped
        /\ cursor' = cursor /\ wrappedCursor' = wrappedCursor
        /\ at' = Over(w, at)
        /\ queue' = {"scrollX", "scrollY"} \cup Triggered(DOMAIN w)
                    \cup (IF edited THEN {"wrapLines"} ELSE {})
        /\ moved' = (DOMAIN w # {} \/ (moved /\ ~edited))
    BY DEF Tick
  <1>2. at \in [Facts -> Int]
    BY DEF CursorTyped
  <1>3. /\ at' \in [Facts -> Int]
        /\ \A f \in Facts : at'[f] = IF f \in DOMAIN w THEN w[f] ELSE at[f]
    BY <1>1, <1>2, OverFacts
  <1>4. \A f \in Facts : f \notin DOMAIN w => at'[f] = at[f]
    BY <1>3
  <1>5. /\ "updateCursor" \in queue' <=> "cx" \in DOMAIN w \/ "cy" \in DOMAIN w
        /\ "updateWrappedCursor" \in queue' <=> "wx" \in DOMAIN w \/ "wy" \in DOMAIN w
        /\ "cursorChanged" \notin queue' /\ "wrappedCursorChanged" \notin queue'
        /\ "scrollX" \in queue' /\ "scrollY" \in queue'
        /\ "wrapLines" \in queue' <=> edited
    BY <1>1, TriggeredRules
  <1>6. CursorTyped'
    <2>1. moved' \in BOOLEAN
      BY <1>1, Zenon
    <2> QED
      BY <1>1, <1>3, <2>1 DEF CursorTyped
  <1>7. wrapped = Wrap(lines)
    BY DEF RowsAreWrapped, AtRest
  <1>8. RowsAreWrapped'
    BY <1>1, <1>5, <1>7 DEF RowsAreWrapped
  <1>9. CursorsAreUpdated'
    <2>1. "updateCursor" \notin queue' => at'.cx = at.cx /\ at'.cy = at.cy
      BY <1>4, <1>5 DEF Facts
    <2>2. "updateWrappedCursor" \notin queue' => at'.wx = at.wx /\ at'.wy = at.wy
      BY <1>4, <1>5 DEF Facts
    <2>3. cursor = <<at.cx, at.cy>> /\ wrappedCursor = <<at.wx, at.wy>>
      BY DEF CursorsAreUpdated, AtRest
    <2> QED
      BY <1>1, <2>1, <2>2, <2>3 DEF CursorsAreUpdated
  <1>10. DOMAIN w # {} => {"updateCursor", "updateWrappedCursor"} \cap queue' # {}
    BY <1>5 DEF IsWrites, Positions
  <1>11. DOMAIN w = {} => at'.cx = at.cx /\ at'.cy = at.cy
                          /\ at'.wx = at.wx /\ at'.wy = at.wy
    BY <1>4 DEF Facts
  <1>12. ASSUME moved', CursorRules \cap queue' = {}
         PROVE  CursorsAgree'
    <2>1. DOMAIN w = {} /\ moved /\ lines' = lines
      BY <1>1, <1>10, <1>12 DEF CursorRules
    <2>2. CursorsAgree
      BY <2>1 DEF CursorsSettle, AtRest
    <2> QED
      BY <1>1, <1>11, <2>1, <2>2 DEF CursorsAgree, CursorInLine, CursorInRow, Line
  <1>13. moved' /\ "wrapLines" \in queue' =>
            {"updateCursor", "updateWrappedCursor"} \cap queue' # {}
    BY <1>1, <1>5, <1>10
  <1>14. ASSUME ~moved'
         PROVE  /\ CursorRules \cap queue' = {}
                /\ at'.cx >= 0 /\ at'.cy \in 0..(Len(lines') - 1)
    <2>1. DOMAIN w = {}
      BY <1>1, <1>14
    <2>2. CursorRules \cap queue' = {}
      BY <1>5, <2>1 DEF CursorRules
    <2>3. at.cx >= 0 /\ at.cy \in 0..(Len(lines) - 1)
      <3>1. CASE moved
        <4>1. CursorsAgree
          BY <3>1 DEF CursorsSettle, AtRest
        <4> QED
          BY <4>1 DEF CursorsAgree, CursorInLine
      <3>2. CASE ~moved
        BY <3>2 DEF CursorsSettle
      <3> QED
        BY <3>1, <3>2
    <2>4. at.cy \in Int /\ at.cy >= 0 /\ at.cy < Len(text) /\ Len(text) \in Nat
      BY <2>1, <2>3 DEF Text
    <2> QED
      BY <1>1, <1>11, <2>1, <2>2, <2>3, <2>4
  <1>15. CursorsSettle'
    BY <1>12, <1>13, <1>14 DEF CursorsSettle
  <1>16. WindowFollows'
    BY <1>5 DEF WindowFollows
  <1> QED
    BY <1>6, <1>8, <1>9, <1>15, <1>16

LEMMA MoveStep ==
  ASSUME CursorInv, AtRest, NEW w, IsWrites(w), Move(w)
  PROVE  CursorInv'
  <1>1. lines \in Text /\ Len(lines) \in Nat /\ at.cy \in Int
    BY DEF CursorInv, CursorTyped, Text, Facts
  <1>2. at.cy \in 0..(Len(lines) - 1)
    BY DEF CursorInv, CursorsSettle, AtRest, CursorsAgree, CursorInLine
  <1>3. at.cy < Len(lines)
    BY <1>1, <1>2
  <1> QED
    BY <1>1, <1>3, TickStep DEF Move

LEMMA EditStep ==
  ASSUME CursorInv, AtRest, NEW text \in Text, NEW w, IsWrites(w), Edit(text, w),
         DOMAIN w = {} => at.cy < Len(text)
  PROVE  CursorInv'
  BY TickStep DEF Edit

(* What the inputs find and make.                                          *)
LEMMA AtAPlace ==
  ASSUME CursorInv, AtRest
  PROVE  /\ lines \in Seq(Seq(Chars)) /\ lines # <<>> /\ wrapped = Wrap(lines)
         /\ at.cx \in Nat /\ at.cy \in Nat /\ at.cy < Len(lines)
         /\ \A f \in Facts : at[f] \in Int
         /\ Line \in Seq(Chars)
         /\ LinesBefore \in Seq(Seq(Chars)) /\ Len(LinesBefore) = at.cy
         /\ LinesAfter \in Seq(Seq(Chars))
         /\ Len(LinesAfter) = Len(lines) - (at.cy + 1)
  <1>1. /\ lines \in Seq(Seq(Chars)) /\ lines # <<>> /\ Len(lines) \in Nat
        /\ at.cx \in Int /\ at.cy \in Int /\ \A f \in Facts : at[f] \in Int
    BY DEF CursorInv, CursorTyped, Text, Facts
  <1>2. at.cx >= 0 /\ at.cy \in 0..(Len(lines) - 1)
    BY <1>1 DEF CursorInv, CursorsSettle, AtRest, CursorsAgree, CursorInLine
  <1>3. wrapped = Wrap(lines)
    BY DEF CursorInv, RowsAreWrapped, AtRest
  <1>4. at.cx \in Nat /\ at.cy \in Nat /\ at.cy < Len(lines)
    BY <1>1, <1>2
  <1> DEFINE y == at.cy
             n == Len(lines)
  <1>5. y \in Nat /\ n \in Nat /\ y < n
    BY <1>1, <1>4
  <1> HIDE DEF y, n
  <1>6. /\ y + 1 \in 1..n /\ 1 \in Int /\ y + 2 \in Int /\ y \in Int /\ n \in Int
        /\ \A i \in 1..y : i \in 1..n
        /\ \A i \in (y + 2)..n : i \in 1..n
        /\ (IF 1 <= y THEN y - 1 + 1 ELSE 0) = y
        /\ (IF y + 2 <= n THEN n - (y + 2) + 1 ELSE 0) = n - (y + 1)
    BY <1>5
  <1>7. \A i \in 1..n : lines[i] \in Seq(Chars)
    BY <1>1 DEF n
  <1>8. Line \in Seq(Chars)
    BY <1>6, <1>7 DEF Line, y
  <1>9. SubSeq(lines, 1, y) \in Seq(Seq(Chars)) /\ Len(SubSeq(lines, 1, y)) = y
    BY <1>6, <1>7, SubSeqProperties
  <1>10. /\ SubSeq(lines, y + 2, n) \in Seq(Seq(Chars))
         /\ Len(SubSeq(lines, y + 2, n)) = n - (y + 1)
    BY <1>6, <1>7, SubSeqProperties
  <1> QED
    BY <1>1, <1>3, <1>4, <1>8, <1>9, <1>10 DEF LinesBefore, LinesAfter, y, n

LEMMA PartsOfLine ==
  ASSUME Line \in Seq(Chars), NEW x \in Nat
  PROVE  UpTo(x) \in Seq(Chars) /\ From(x) \in Seq(Chars)
  <1> DEFINE n == Len(Line)
             m == IF x > n THEN n ELSE x
  <1>1. n \in Nat /\ \A i \in 1..n : Line[i] \in Chars
    OBVIOUS
  <1> HIDE DEF n
  <1>2. /\ m \in Int /\ 1 \in Int /\ x + 1 \in Int /\ n \in Int
        /\ \A i \in 1..m : i \in 1..n
        /\ \A i \in (x + 1)..n : i \in 1..n
    BY <1>1
  <1>3. SubSeq(Line, 1, m) \in Seq(Chars)
    <2> HIDE DEF m
    <2> QED
      BY <1>1, <1>2, SubSeqProperties
  <1>4. SubSeq(Line, x + 1, n) \in Seq(Chars)
    BY <1>1, <1>2, SubSeqProperties
  <1> QED
    BY <1>3, <1>4 DEF UpTo, From, n

LEMMA PutIsText ==
  ASSUME CursorInv, AtRest, NEW line \in Seq(Chars)
  PROVE  Put(line) \in Text /\ at.cy < Len(Put(line))
  <1>1. /\ lines \in Seq(Seq(Chars)) /\ lines # <<>> /\ at.cy \in Nat
        /\ at.cy < Len(lines)
    BY AtAPlace
  <1>2. Put(line) \in Seq(Seq(Chars)) /\ Len(Put(line)) = Len(lines)
    BY <1>1 DEF Put
  <1>3. Put(line) # <<>>
    BY <1>1, <1>2
  <1> QED
    BY <1>1, <1>2, <1>3 DEF Text

LEMMA ThreeTexts ==
  ASSUME NEW a \in Seq(Seq(Chars)), NEW b \in Seq(Seq(Chars)), NEW c \in Seq(Seq(Chars))
  PROVE  /\ a \o b \o c \in Seq(Seq(Chars))
         /\ Len(a) \in Nat /\ Len(b) \in Nat /\ Len(c) \in Nat
         /\ Len(a \o b \o c) = Len(a) + Len(b) + Len(c)
  <1> DEFINE d == a \o b
  <1>1. d \in Seq(Seq(Chars)) /\ Len(d) = Len(a) + Len(b)
    BY ConcatProperties
  <1> HIDE DEF d
  <1>2. d \o c \in Seq(Seq(Chars)) /\ Len(d \o c) = Len(d) + Len(c)
    BY <1>1, ConcatProperties
  <1> QED
    BY <1>1, <1>2 DEF d

LEMMA RecordWrites ==
  ASSUME NEW x \in Int, NEW y \in Int
  PROVE  /\ IsWrites([cx |-> x]) /\ IsWrites([cy |-> y]) /\ IsWrites([wy |-> y])
         /\ IsWrites([cx |-> x, cy |-> y]) /\ IsWrites([wx |-> x, wy |-> y])
         /\ DOMAIN [cx |-> x] # {} /\ DOMAIN [cx |-> x, cy |-> y] # {}
         /\ DOMAIN [cy |-> y] # {}
  <1>1. IsWrites([cx |-> x]) /\ DOMAIN [cx |-> x] # {}
    BY DEF IsWrites, Positions
  <1>2. IsWrites([cy |-> y]) /\ DOMAIN [cy |-> y] # {}
    BY DEF IsWrites, Positions
  <1>3. IsWrites([wy |-> y])
    BY DEF IsWrites, Positions
  <1>4. IsWrites([cx |-> x, cy |-> y]) /\ DOMAIN [cx |-> x, cy |-> y] # {}
    BY DEF IsWrites, Positions
  <1>5. IsWrites([wx |-> x, wy |-> y])
    BY DEF IsWrites, Positions
  <1> QED
    BY <1>1, <1>2, <1>3, <1>4, <1>5

LEMMA TypeStep ==
  ASSUME CursorInv, AtRest, NEW ch \in {Letter, Blank}, NEW insertMode \in BOOLEAN,
         Type(ch, insertMode)
  PROVE  CursorInv'
  <1> DEFINE x == IF insertMode THEN at.cx + 1 ELSE at.cx
             line == Append(UpTo(at.cx), ch) \o From(x)
             w == [cx |-> at.cx + 1]
  <1>1. at.cx \in Nat /\ Line \in Seq(Chars)
    BY AtAPlace
  <1>2. x \in Nat /\ at.cx + 1 \in Int /\ ch \in Chars
    BY <1>1 DEF Chars
  <1>3. UpTo(at.cx) \in Seq(Chars) /\ From(x) \in Seq(Chars)
    <2> HIDE DEF x
    <2> QED
      BY <1>1, <1>2, PartsOfLine
  <1>4. Edit(Put(line), w)
    BY DEF Type
  <1> HIDE DEF x
  <1>5. line \in Seq(Chars)
    BY <1>2, <1>3
  <1>6. IsWrites(w) /\ DOMAIN w # {}
    BY <1>2, RecordWrites
  <1> HIDE DEF line, w
  <1>7. Put(line) \in Text
    BY <1>5, PutIsText
  <1> QED
    BY <1>4, <1>6, <1>7, EditStep

LEMMA BackspaceStep ==
  ASSUME CursorInv, AtRest, NEW insertMode \in BOOLEAN, Backspace(insertMode)
  PROVE  CursorInv'
  <1> DEFINE left == IF insertMode THEN Append(UpTo(at.cx - 1), Blank)
                     ELSE UpTo(at.cx - 1)
             line == left \o From(at.cx)
             w == [cx |-> at.cx - 1]
  <1>1. Edit(Put(line), w)
    BY DEF Backspace
  <1>2. Line \in Seq(Chars) /\ Len(Line) \in Nat /\ at.cx \in 1..Len(Line)
    BY AtAPlace DEF Backspace
  <1>3. at.cx \in Nat /\ at.cx - 1 \in Nat /\ at.cx - 1 \in Int /\ Blank \in Chars
    BY <1>2 DEF Chars
  <1>4. UpTo(at.cx - 1) \in Seq(Chars) /\ From(at.cx) \in Seq(Chars)
    BY <1>2, <1>3, PartsOfLine
  <1>5. left \in Seq(Chars)
    BY <1>3, <1>4
  <1> HIDE DEF left
  <1>6. line \in Seq(Chars)
    BY <1>4, <1>5
  <1>7. IsWrites(w) /\ DOMAIN w # {}
    BY <1>3, RecordWrites
  <1> HIDE DEF line, w
  <1>8. Put(line) \in Text
    BY <1>6, PutIsText
  <1> QED
    BY <1>1, <1>7, <1>8, EditStep

LEMMA DeleteStep ==
  ASSUME CursorInv, AtRest, Delete
  PROVE  CursorInv'
  <1>1. /\ Line \in Seq(Chars) /\ at.cx \in Nat /\ at.cy \in Nat
        /\ LinesBefore \in Seq(Seq(Chars)) /\ Len(LinesBefore) = at.cy
        /\ LinesAfter \in Seq(Seq(Chars))
    BY AtAPlace
  <1>2. ASSUME LinesAfter # <<>>,
               Edit(Append(LinesBefore, Line \o Head(LinesAfter)) \o Tail(LinesAfter), Nothing)
        PROVE  CursorInv'
    <2> DEFINE line == Line \o Head(LinesAfter)
               text == Append(LinesBefore, line) \o Tail(LinesAfter)
    <2>1. Head(LinesAfter) \in Seq(Chars) /\ Tail(LinesAfter) \in Seq(Seq(Chars))
      BY <1>1, <1>2
    <2>2. line \in Seq(Chars) /\ Len(Tail(LinesAfter)) \in Nat
      BY <1>1, <2>1
    <2>3. Edit(text, Nothing)
      BY <1>2
    <2> HIDE DEF line
    <2>6. /\ Append(LinesBefore, line) \in Seq(Seq(Chars))
          /\ Len(Append(LinesBefore, line)) = at.cy + 1
      BY <1>1, <2>2
    <2>4. text \in Seq(Seq(Chars)) /\ Len(text) = at.cy + 1 + Len(Tail(LinesAfter))
      <3> DEFINE a == Append(LinesBefore, line)
                 b == Tail(LinesAfter)
      <3>1. a \in Seq(Seq(Chars)) /\ b \in Seq(Seq(Chars)) /\ Len(a) = at.cy + 1
        BY <2>1, <2>6
      <3> HIDE DEF a, b
      <3>2. a \o b \in Seq(Seq(Chars)) /\ Len(a \o b) = Len(a) + Len(b)
        BY <3>1, ConcatProperties
      <3> QED
        BY <3>1, <3>2 DEF a, b
    <2> HIDE DEF text
    <2>5. text \in Text /\ at.cy < Len(text)
      BY <1>1, <2>2, <2>4 DEF Text
    <2> QED
      BY <2>3, <2>5, EditStep, NothingIsWritten
  <1>3. ASSUME Edit(Put(UpTo(at.cx) \o From(at.cx + 1)), Nothing)
        PROVE  CursorInv'
    <2> DEFINE line == UpTo(at.cx) \o From(at.cx + 1)
    <2>1. UpTo(at.cx) \in Seq(Chars) /\ From(at.cx + 1) \in Seq(Chars)
      <3>1. at.cx + 1 \in Nat
        BY <1>1
      <3> QED
        BY <1>1, <3>1, PartsOfLine
    <2>2. line \in Seq(Chars) /\ Edit(Put(line), Nothing)
      BY <1>3, <2>1
    <2> HIDE DEF line
    <2>3. Put(line) \in Text /\ at.cy < Len(Put(line))
      BY <2>2, PutIsText
    <2> QED
      BY <2>2, <2>3, EditStep, NothingIsWritten
  <1>4. ASSUME Move(Nothing) PROVE CursorInv'
    BY <1>4, MoveStep, NothingIsWritten
  <1> QED
    BY <1>2, <1>3, <1>4 DEF Delete

LEMMA EnterStep ==
  ASSUME CursorInv, AtRest, Enter
  PROVE  CursorInv'
  <1> DEFINE left == UpTo(at.cx)
             right == From(at.cx)
             text == LinesBefore \o <<left, right>> \o LinesAfter
             w == [cx |-> 0, cy |-> at.cy + 1]
  <1>1. /\ Line \in Seq(Chars) /\ at.cx \in Nat /\ at.cy \in Nat
        /\ LinesBefore \in Seq(Seq(Chars)) /\ Len(LinesBefore) = at.cy
        /\ LinesAfter \in Seq(Seq(Chars)) /\ Len(LinesAfter) \in Nat
    BY AtAPlace
  <1>2. left \in Seq(Chars) /\ right \in Seq(Chars)
    BY <1>1, PartsOfLine
  <1>3. Edit(text, w)
    BY DEF Enter
  <1> HIDE DEF left, right
  <1>4. <<left, right>> \in Seq(Seq(Chars)) /\ Len(<<left, right>>) = 2
    BY <1>2
  <1>5. text \in Seq(Seq(Chars)) /\ Len(text) = at.cy + 2 + Len(LinesAfter)
    <2> DEFINE both == <<left, right>>
    <2>1. both \in Seq(Seq(Chars)) /\ Len(both) = 2
      BY <1>4
    <2> HIDE DEF both
    <2>2. /\ LinesBefore \o both \o LinesAfter \in Seq(Seq(Chars))
          /\ Len(LinesBefore \o both \o LinesAfter)
             = Len(LinesBefore) + Len(both) + Len(LinesAfter)
      BY <1>1, <2>1, ThreeTexts
    <2>3. Len(LinesBefore \o both \o LinesAfter) = at.cy + 2 + Len(LinesAfter)
      BY <1>1, <2>1, <2>2
    <2> QED
      BY <2>2, <2>3 DEF both
  <1>6. IsWrites(w) /\ DOMAIN w # {}
    <2>1. 0 \in Int /\ at.cy + 1 \in Int
      BY <1>1
    <2> QED
      BY <2>1, RecordWrites
  <1> HIDE DEF text, w
  <1>7. text \in Text
    BY <1>1, <1>5 DEF Text
  <1> QED
    BY <1>3, <1>6, <1>7, EditStep

LEMMA DeleteLineStep ==
  ASSUME CursorInv, AtRest, DeleteLine
  PROVE  CursorInv'
  <1> DEFINE text == IF Len(lines) = 1 THEN <<<<>>>> ELSE LinesBefore \o LinesAfter
             w == IF at.cy > Len(text) - 1 THEN [cy |-> Len(text) - 1] ELSE Nothing
  <1>1. /\ lines \in Seq(Seq(Chars)) /\ lines # <<>> /\ at.cy \in Nat
        /\ at.cy < Len(lines) /\ Len(lines) \in Nat
        /\ LinesBefore \in Seq(Seq(Chars)) /\ Len(LinesBefore) = at.cy
        /\ LinesAfter \in Seq(Seq(Chars)) /\ Len(LinesAfter) = Len(lines) - (at.cy + 1)
    BY AtAPlace
  <1>2. Edit(text, w)
    BY DEF DeleteLine
  <1>3. text \in Text
    <2>1. CASE Len(lines) = 1
      <3>1. text = <<<<>>>>
        BY <2>1
      <3>2. <<<<>>>> \in Seq(Seq(Chars)) /\ <<<<>>>> # <<>>
        OBVIOUS
      <3> QED
        BY <3>1, <3>2 DEF Text
    <2>2. CASE Len(lines) # 1
      <3>1. text = LinesBefore \o LinesAfter
        BY <2>2
      <3> HIDE DEF text
      <3>2. text \in Seq(Seq(Chars)) /\ Len(text) = Len(lines) - 1
        BY <1>1, <3>1
      <3>3. Len(text) # 0
        BY <1>1, <2>2, <3>2
      <3> QED
        BY <3>2, <3>3 DEF Text
    <2> QED
      BY <2>1, <2>2
  <1> HIDE DEF text
  <1>4. Len(text) \in Nat
    BY <1>3 DEF Text
  <1>5. IsWrites(w) /\ (DOMAIN w = {} => at.cy < Len(text))
    <2>1. CASE at.cy > Len(text) - 1
      <3>1. w = [cy |-> Len(text) - 1] /\ Len(text) - 1 \in Int
        BY <1>4, <2>1
      <3> HIDE DEF w
      <3> QED
        BY <3>1, RecordWrites
    <2>2. CASE ~(at.cy > Len(text) - 1)
      <3>1. w = Nothing /\ at.cy < Len(text)
        BY <1>1, <1>4, <2>2
      <3> HIDE DEF w
      <3> QED
        BY <3>1, NothingIsWritten
    <2> QED
      BY <2>1, <2>2
  <1> HIDE DEF w
  <1> QED
    BY <1>2, <1>3, <1>5, EditStep

LEMMA PasteStep ==
  ASSUME CursorInv, AtRest, Paste
  PROVE  CursorInv'
  <1>1. PICK clipboard \in Clipboards :
           Edit(LinesBefore \o clipboard \o LinesAfter, [cx |-> at.cx])
    BY DEF Paste
  <1> DEFINE text == LinesBefore \o clipboard \o LinesAfter
             w == [cx |-> at.cx]
  <1>2. /\ at.cx \in Nat
        /\ LinesBefore \in Seq(Seq(Chars)) /\ LinesAfter \in Seq(Seq(Chars))
    BY AtAPlace
  <1>3. clipboard \in Seq(Seq(Chars)) /\ clipboard # <<>>
    BY TextsAssumption DEF Text
  <1>4. /\ text \in Seq(Seq(Chars))
        /\ Len(text) = Len(LinesBefore) + Len(clipboard) + Len(LinesAfter)
    BY <1>2, <1>3, ThreeTexts
  <1>5. text # <<>>
    <2>1. Len(clipboard) \in Nat /\ Len(clipboard) # 0
      BY <1>3
    <2>2. Len(LinesBefore) \in Nat /\ Len(LinesAfter) \in Nat
      BY <1>2
    <2> HIDE DEF text
    <2>3. Len(text) # 0
      BY <1>4, <2>1, <2>2
    <2> QED
      BY <2>3
  <1>6. IsWrites(w) /\ DOMAIN w # {}
    <2>1. at.cx \in Int
      BY <1>2
    <2> QED
      BY <2>1, RecordWrites
  <1>7. Edit(text, w)
    BY <1>1
  <1> HIDE DEF text, w
  <1>8. text \in Text
    BY <1>4, <1>5 DEF Text
  <1> QED
    BY <1>6, <1>7, <1>8, EditStep

LEMMA RestoreStep ==
  ASSUME CursorInv, AtRest, Restore
  PROVE  CursorInv'
  <1>1. PICK s \in Snapshots : Edit(s.lines, [cx |-> s.cx, cy |-> s.cy])
    BY DEF Restore
  <1>2. s.lines \in Text /\ s.cx \in Int /\ s.cy \in Int
    BY TextsAssumption
  <1> DEFINE w == [cx |-> s.cx, cy |-> s.cy]
  <1>3. IsWrites(w) /\ DOMAIN w # {} /\ Edit(s.lines, w)
    BY <1>1, <1>2, RecordWrites
  <1> HIDE DEF w
  <1> QED
    BY <1>2, <1>3, EditStep

(* Whatever was drawn, the rows still join to at least as many lines.      *)
LEMMA UnwrapKeepsLines ==
  ASSUME NEW text \in Seq(Seq(Chars)), NEW chars \in Seq(Seq(Chars)),
         Len(chars) >= Len(Wrap(text)), text # <<>>
  PROVE  /\ Unwrap(chars, Wrap(text)) \in Seq(Seq(Chars))
         /\ Len(Unwrap(chars, Wrap(text))) >= Len(text)
  <1> DEFINE rows == Wrap(text)
             M == Len(rows)
             N == Len(chars)
  <1>1. Chained(text, rows) /\ rows \in Seq(RowSet) /\ rows # <<>>
    BY WrapChains DEF Chained
  <1>2. PICK f \in [0..N -> Seq(Seq(Chars))] :
            /\ f[0] = <<>>
            /\ \A r \in 1..N : f[r] = Joined(f[r - 1], chars, rows, r)
            /\ Unwrap(chars, rows) = f[N]
    BY <1>1, UnwrapSteps
  <1> HIDE DEF rows
  <1>3. M \in Nat /\ M >= 1 /\ N \in Nat /\ N >= M /\ Len(text) \in Nat
    BY <1>1 DEF rows
  <1>4. \A r \in 1..M : rows[r] \in RowSet /\ rows[r].line \in Nat
    BY <1>1, RowParts
  <1>5. \A r \in 1..N : chars[r] \in Seq(Chars)
    OBVIOUS
  <1> DEFINE len == [r \in 0..N |-> Len(f[r])]
  <1>6. \A r \in 0..N : f[r] \in Seq(Seq(Chars)) /\ len[r] = Len(f[r]) /\ len[r] \in Nat
    <2> SUFFICES ASSUME NEW r \in 0..N
                 PROVE  f[r] \in Seq(Seq(Chars)) /\ len[r] = Len(f[r]) /\ len[r] \in Nat
      OBVIOUS
    <2>1. f[r] \in Seq(Seq(Chars))
      OBVIOUS
    <2>2. Len(f[r]) \in Nat
      <3> DEFINE t == f[r]
      <3>1. t \in Seq(Seq(Chars))
        BY <2>1
      <3> HIDE DEF t
      <3>2. Len(t) \in Nat
        BY <3>1
      <3> QED
        BY <3>2 DEF t
    <2>3. len[r] = Len(f[r])
      OBVIOUS
    <2> QED
      BY <2>1, <2>2, <2>3
  <1>7. len[0] = 0
    BY <1>2, <1>3
  <1> HIDE DEF len, N, M
  <1>8. \A r \in 1..N : len[r] = IF r <= M /\ rows[r].line < len[r - 1]
                                 THEN len[r - 1] ELSE len[r - 1] + 1
    <2> SUFFICES ASSUME NEW r \in 1..N
                 PROVE  len[r] = IF r <= M /\ rows[r].line < len[r - 1]
                                 THEN len[r - 1] ELSE len[r - 1] + 1
      OBVIOUS
    <2>1. r \in 0..N /\ r - 1 \in 0..N
      BY <1>3
    <2> DEFINE t == f[r - 1]
    <2>2. /\ t \in Seq(Seq(Chars)) /\ len[r - 1] = Len(t)
          /\ f[r] = Joined(t, chars, rows, r) /\ len[r] = Len(f[r])
      BY <1>2, <1>6, <2>1
    <2> HIDE DEF t
    <2>3. CASE r <= M /\ rows[r].line < Len(t)
      <3> DEFINE k == rows[r].line + 1
                 v == t[k] \o chars[r]
      <3>1. f[r] = [t EXCEPT ![k] = v]
        BY <2>2, <2>3 DEF Joined, M
      <3> HIDE DEF k, v
      <3>2. Len(f[r]) = Len(t)
        BY <2>2, <3>1
      <3> QED
        BY <2>2, <2>3, <3>2
    <2>4. CASE ~(r <= M /\ rows[r].line < Len(t))
      <3>1. f[r] = Append(t, chars[r])
        BY <2>2, <2>4 DEF Joined, M
      <3>2. Len(f[r]) = Len(t) + 1
        BY <1>5, <2>2, <3>1
      <3> QED
        BY <2>2, <2>4, <3>2
    <2> QED
      BY <2>3, <2>4
  <1> DEFINE Good(r) == /\ r \in 1..M => len[r] = rows[r].line + 1
                        /\ r > M => len[r] >= Len(text)
             S == {r \in Nat : r <= N => Good(r)}
  <1>9. Good(0)
    BY <1>3
  <1>10. rows[M].line + 1 = Len(text) /\ rows[1].line = 0
    BY <1>1, <1>3 DEF Chained, M
  <1>11. ASSUME NEW r \in Nat, r + 1 <= N, Good(r) PROVE Good(r + 1)
    <2>1. r \in 0..N /\ r + 1 \in 1..N /\ (r + 1) - 1 = r
      BY <1>3, <1>11
    <2>2. len[r] \in Nat
      BY <1>6, <2>1
    <2>3. len[r + 1] = IF r + 1 <= M /\ rows[r + 1].line < len[r]
                       THEN len[r] ELSE len[r] + 1
      <3>1. len[r + 1] = IF r + 1 <= M /\ rows[r + 1].line < len[(r + 1) - 1]
                         THEN len[(r + 1) - 1] ELSE len[(r + 1) - 1] + 1
        BY <1>8, <2>1
      <3> QED
        BY <2>1, <3>1
    <2>4. CASE r = 0
      BY <1>3, <1>7, <1>10, <2>3, <2>4
    <2>5. CASE r \in 1..(M - 1)
      <3> DEFINE here == rows[r].line
                 there == rows[r + 1].line
      <3>1. r \in 1..M /\ r + 1 \in 1..M
        BY <1>3, <2>5
      <3>2. there = here \/ there = here + 1
        <4>1. r \in 1..Len(rows) /\ r + 1 <= Len(rows)
          BY <1>3, <3>1 DEF M
        <4>2. ComesAfter(rows[r], rows[r + 1], text)
          BY <1>1, <4>1, Zenon DEF Chained
        <4> QED
          BY <4>2 DEF ComesAfter
      <3>3. here \in Nat /\ there \in Nat /\ len[r] = here + 1
        BY <1>4, <1>11, <3>1
      <3>4. len[r + 1] = IF there < len[r] THEN len[r] ELSE len[r] + 1
        BY <2>3, <3>1
      <3> HIDE DEF here, there
      <3>5. len[r + 1] = there + 1
        BY <3>2, <3>3, <3>4
      <3> QED
        BY <1>3, <3>1, <3>5 DEF there
    <2>6. CASE r >= M /\ r > 0
      <3>1. len[r] >= Len(text)
        <4>1. CASE r = M
          BY <1>3, <1>10, <1>11, <4>1
        <4>2. CASE r > M
          BY <1>11, <4>2
        <4> QED
          BY <1>3, <2>6, <4>1, <4>2
      <3>2. len[r + 1] = len[r] + 1
        BY <1>3, <2>3, <2>6
      <3> QED
        BY <1>3, <2>2, <2>6, <3>1, <3>2
    <2> QED
      BY <1>3, <2>4, <2>5, <2>6
  <1> HIDE DEF Good
  <1>12. 0 \in S /\ \A r \in Nat : r \in S => r + 1 \in S
    BY <1>3, <1>9, <1>11
  <1> HIDE DEF S
  <1>13. Good(N)
    <2>1. Nat \subseteq S
      BY <1>12, SetInduction
    <2>2. N \in S
      BY <1>3, <2>1
    <2> QED
      BY <1>3, <2>2 DEF S
  <1>14. len[N] >= Len(text)
    BY <1>3, <1>10, <1>13 DEF Good
  <1>15. N \in 0..N
    BY <1>3
  <1> QED
    BY <1>2, <1>6, <1>14, <1>15 DEF rows

LEMMA FilledSequence ==
  ASSUME NEW S, NEW s \in Seq(S), NEW n \in Nat, NEW v \in S
  PROVE  /\ Filled(s, n, v) \in Seq(S) /\ Len(Filled(s, n, v)) \in Nat
         /\ Len(Filled(s, n, v)) >= n /\ Len(Filled(s, n, v)) >= Len(s)
  <1>1. Len(s) \in Nat
    OBVIOUS
  <1>2. CASE n > Len(s)
    <2> DEFINE m == n - Len(s)
               t == [i \in 1..m |-> v]
    <2>1. m \in Nat
      BY <1>1, <1>2
    <2> HIDE DEF m
    <2>2. t \in Seq(S) /\ Len(t) = m
      BY <2>1
    <2>3. Filled(s, n, v) = s \o t
      BY <1>2 DEF Filled, m
    <2> HIDE DEF t
    <2>4. s \o t \in Seq(S) /\ Len(s \o t) = Len(s) + Len(t)
      BY <2>2, ConcatProperties
    <2>5. Len(s) + m = n
      BY <1>1 DEF m
    <2> QED
      BY <1>1, <1>2, <2>1, <2>2, <2>3, <2>4, <2>5
  <1>3. CASE ~(n > Len(s))
    BY <1>1, <1>3 DEF Filled
  <1> QED
    BY <1>2, <1>3

LEMMA DrawStep ==
  ASSUME CursorInv, AtRest, Draw
  PROVE  CursorInv'
  <1>1. PICK x \in (at.sx - 1)..(at.sx + Width - 1),
             y \in (at.sy - 1)..(at.sy + Height - 1) :
           x >= 0 /\ y >= 0 /\ Edit(Drawn(x, y), Nothing)
    BY DEF Draw
  <1>2. /\ lines \in Seq(Seq(Chars)) /\ lines # <<>> /\ wrapped = Wrap(lines)
        /\ wrapped \in Seq(RowSet) /\ at.sx \in Int /\ at.sy \in Int
        /\ at.cy \in Nat /\ at.cy < Len(lines) /\ Len(lines) \in Nat
    BY AtAPlace DEF CursorInv, CursorTyped, Facts
  <1>3. x \in Nat /\ y \in Nat
    BY <1>1, <1>2
  <1> DEFINE chars == [r \in DOMAIN wrapped |-> wrapped[r].chars]
             q == Filled(chars, y + 1, <<>>)
             l == Filled(q[y + 1], x + 1, Blank)
             p == [q EXCEPT ![y + 1] = l]
  <1>4. Drawn(x, y) = Unwrap(p, wrapped)
    BY Zenon DEF Drawn
  <1>5. chars \in Seq(Seq(Chars)) /\ Len(chars) = Len(wrapped)
    <2>1. \A r \in 1..Len(wrapped) : wrapped[r].chars \in Seq(Chars)
      BY <1>2, RowParts
    <2>2. chars = [r \in 1..Len(wrapped) |-> wrapped[r].chars] /\ Len(wrapped) \in Nat
      BY <1>2
    <2> HIDE DEF chars
    <2> QED
      BY <2>1, <2>2
  <1> HIDE DEF chars
  <1>6. y + 1 \in Nat /\ x + 1 \in Nat /\ <<>> \in Seq(Chars) /\ Blank \in Chars
    BY <1>3 DEF Chars
  <1>7. /\ q \in Seq(Seq(Chars)) /\ Len(q) \in Nat /\ Len(q) >= y + 1
        /\ Len(q) >= Len(wrapped)
    BY <1>5, <1>6, FilledSequence
  <1> HIDE DEF q
  <1>8. y + 1 \in 1..Len(q) /\ q[y + 1] \in Seq(Chars)
    <2>1. y + 1 \in 1..Len(q)
      BY <1>3, <1>7
    <2> QED
      BY <1>7, <2>1
  <1>9. l \in Seq(Chars)
    BY <1>6, <1>8, FilledSequence
  <1> HIDE DEF l
  <1>10. p \in Seq(Seq(Chars)) /\ Len(p) = Len(q)
    BY <1>7, <1>8, <1>9
  <1> HIDE DEF p
  <1> DEFINE text == Unwrap(p, wrapped)
  <1>11. text \in Seq(Seq(Chars)) /\ Len(text) >= Len(lines)
    <2>1. Len(p) >= Len(Wrap(lines))
      BY <1>2, <1>7, <1>10
    <2> QED
      BY <1>2, <1>10, <2>1, UnwrapKeepsLines
  <1>12. Edit(text, Nothing)
    BY <1>1, <1>4
  <1> HIDE DEF text
  <1>13. Len(text) \in Nat
    BY <1>11
  <1>14. at.cy < Len(text)
    BY <1>2, <1>11, <1>13
  <1>15. text \in Text
    BY <1>2, <1>11, <1>13, <1>14 DEF Text
  <1> QED
    BY <1>12, <1>14, <1>15, EditStep, NothingIsWritten

LEMMA MovingStep ==
  ASSUME CursorInv, AtRest,
         BackspaceAtStart \/ MoveByRows \/ MoveInLine \/ Scroll \/ Click
  PROVE  CursorInv'
  <1>1. /\ Line \in Seq(Chars) /\ at.cx \in Int /\ at.wy \in Int /\ at.sx \in Int
        /\ at.sy \in Int
    BY AtAPlace DEF Facts
  <1>2. Len(Line) \in Int
    BY <1>1
  <1>3. CASE BackspaceAtStart
    BY <1>3, MoveStep, NothingIsWritten DEF BackspaceAtStart
  <1>4. ASSUME NEW y \in Int, Move([wy |-> y])
        PROVE  CursorInv'
    <2> DEFINE w == [wy |-> y]
    <2>1. IsWrites(w) /\ Move(w)
      BY <1>4, RecordWrites
    <2> HIDE DEF w
    <2> QED
      BY <2>1, MoveStep
  <1>5. CASE MoveByRows
    <2>1. PICK d \in {1, Height \div 2}, up \in BOOLEAN :
             Move([wy |-> IF up THEN at.wy - d ELSE at.wy + d])
      BY <1>5 DEF MoveByRows
    <2> DEFINE y == IF up THEN at.wy - d ELSE at.wy + d
    <2>2. d \in Int
      BY WindowAssumption
    <2>3. y \in Int
      BY <1>1, <2>2
    <2>4. Move([wy |-> y])
      BY <2>1
    <2> HIDE DEF y
    <2> QED
      BY <1>4, <2>3, <2>4
  <1>6. CASE MoveInLine
    <2>1. PICK x \in {at.cx - 1, at.cx + 1, 0, Len(Line)} : Move([cx |-> x])
      BY <1>6 DEF MoveInLine
    <2>2. x \in Int
      BY <1>1, <1>2
    <2> DEFINE w == [cx |-> x]
    <2>3. IsWrites(w) /\ Move(w)
      BY <2>1, <2>2, RecordWrites
    <2> HIDE DEF w
    <2> QED
      BY <2>3, MoveStep
  <1>7. CASE Scroll
    <2>1. PICK d \in {-ScrollStep, ScrollStep} : Move([wy |-> at.wy + d])
      BY <1>7 DEF Scroll
    <2>2. at.wy + d \in Int
      BY <1>1, StepAssumption
    <2> QED
      BY <1>4, <2>1, <2>2
  <1>8. CASE Click
    <2>1. PICK x \in -1..(Width - 1), y \in -1..(Height - 1) :
             Move([wx |-> x + at.sx, wy |-> y + at.sy])
      BY <1>8 DEF Click
    <2> DEFINE a == x + at.sx
               b == y + at.sy
               w == [wx |-> a, wy |-> b]
    <2>2. a \in Int /\ b \in Int
      BY <1>1, WindowAssumption
    <2> HIDE DEF a, b
    <2>3. IsWrites(w)
      BY <2>2, RecordWrites
    <2>4. Move(w)
      BY <2>1 DEF a, b
    <2> HIDE DEF w
    <2> QED
      BY <2>3, <2>4, MoveStep
  <1> QED
    BY <1>3, <1>5, <1>6, <1>7, <1>8

-----------------------------------------------------------------------------
LEMMA CursorInvInit == CursorInit => CursorInv
  <1> SUFFICES ASSUME CursorInit PROVE CursorInv
    OBVIOUS
  <1>1. /\ lines \in Text /\ wrapped = Wrap(lines) /\ at = InitAt
        /\ cursor = <<0, 0>> /\ wrappedCursor = <<0, 0>> /\ queue = {} /\ moved = TRUE
    BY TextsAssumption DEF CursorInit
  <1>2. /\ at \in [Facts -> Int] /\ at.cx = 0 /\ at.cy = 0 /\ at.wx = 0 /\ at.wy = 0
        /\ at.sx = 0 /\ at.sy = 0
    BY <1>1 DEF InitAt, Facts
  <1>3. wrapped \in Seq(RowSet) /\ wrapped # <<>>
    BY <1>1, WrapIsRows
  <1>4. CursorTyped
    BY <1>1, <1>2, <1>3 DEF CursorTyped
  <1>5. CursorsAgree
    <2>1. /\ lines \in Seq(Seq(Chars)) /\ Chained(lines, wrapped)
          /\ 1 \in 1..Len(wrapped) /\ 1 \in 1..Len(lines)
      BY <1>1, <1>3, WrapChains DEF Text
    <2>2. wrapped[1].line = 0 /\ wrapped[1].start = 0
      BY <2>1 DEF Chained
    <2>3. Len(lines[1]) \in Nat /\ Len(wrapped[1].chars) \in Nat
      BY <1>3, <2>1, RowParts
    <2>4. /\ 0 \in 0..(Len(lines) - 1) /\ 0 \in 0..(Len(wrapped) - 1)
          /\ 0 \in 0..Len(lines[1]) /\ 0 \in 0..Len(wrapped[1].chars)
      BY <1>3, <2>1, <2>3
    <2>5. at.cy + 1 = 1 /\ at.wy + 1 = 1 /\ wrapped[1].start + at.wx = 0
      BY <1>2, <2>2
    <2> QED
      BY <1>2, <2>2, <2>4, <2>5 DEF CursorsAgree, CursorInLine, CursorInRow, Line
  <1>6. WindowFollows
    BY <1>2, WindowAssumption DEF WindowFollows
  <1> QED
    BY <1>1, <1>2, <1>4, <1>5, <1>6
       DEF CursorInv, RowsAreWrapped, CursorsAreUpdated, CursorsSettle

LEMMA CursorInvStep == CursorInv /\ [CursorNext]_cursorVars => CursorInv'
  <1>1. CursorInv /\ queue = {} /\ Input => CursorInv'
    <2> SUFFICES ASSUME CursorInv, AtRest, Input PROVE CursorInv'
      BY DEF AtRest
    <2> QED
      BY TypeStep, BackspaceStep, DeleteStep, EnterStep, MovingStep, DeleteLineStep,
         PasteStep, DrawStep, RestoreStep DEF Input
  <1>2. CursorInv /\ UNCHANGED cursorVars => CursorInv'
    BY DEF CursorInv, CursorTyped, RowsAreWrapped, CursorsAreUpdated, CursorsSettle,
           WindowFollows, CursorsAgree, CursorInLine, CursorInRow, Line, cursorVars
  <1> QED
    BY <1>1, <1>2, RoundStep DEF CursorNext

LEMMA CursorInvariant == CursorSpec => []CursorInv
  BY CursorInvInit, CursorInvStep, PTL DEF CursorSpec

(* Once a cursor was written the two cursors come to rest at the same      *)
(* place of any text, whatever its lines and the width of the editor.      *)
THEOREM CursorsComeTogether == CursorSpec => []MovedCursorsAgree
  <1>1. CursorInv => MovedCursorsAgree
    BY DEF CursorInv, CursorsSettle, MovedCursorsAgree, AtRest
  <1> QED
    BY <1>1, CursorInvariant, PTL

(* Then the window, of any size, shows the cursor.                         *)
THEOREM CursorStaysVisible == CursorSpec => []MovedCursorVisible
  <1>1. CursorInv => MovedCursorVisible
    <2> SUFFICES ASSUME CursorInv, AtRest, moved
                 PROVE  /\ at.wx \in at.sx..(at.sx + Width - 1)
                        /\ at.wy \in at.sy..(at.sy + Height - 1)
      BY DEF MovedCursorVisible
    <2>1. CursorsAgree
      BY DEF CursorInv, CursorsSettle, AtRest
    <2>2. at.wy \in 0..(Len(wrapped) - 1) /\ at.wx \in 0..Len(wrapped[at.wy + 1].chars)
      BY <2>1 DEF CursorsAgree, CursorInRow
    <2>3. Len(wrapped) \in Nat /\ at.wy \in Int /\ at.wx \in Int
      BY DEF CursorInv, CursorTyped, Facts
    <2>4. at.wx >= 0 /\ at.wy >= 0 /\ at.wy < Len(wrapped)
      BY <2>2, <2>3
    <2> QED
      BY <2>4 DEF CursorInv, WindowFollows, AtRest
  <1> QED
    BY <1>1, CursorInvariant, PTL

(* The lines are a text, never without a line, the rows are rows, and the  *)
(* positions are numbers.                                                  *)
THEOREM CursorTypeCorrect == CursorSpec => []CursorTyped
  <1>1. CursorInv => CursorTyped
    BY DEF CursorInv
  <1> QED
    BY <1>1, CursorInvariant, PTL

-----------------------------------------------------------------------------
(* The rules come to rest.                                                 *)

LEMMA NextIsTogether == (CursorsAgree <=> Together(at))'
  BY DEF CursorsAgree, CursorInLine, CursorInRow, Line, Together

(* When one rule only writes, its facts are those of the next round.       *)
LEMMA RuleWrites ==
  ASSUME NEW want \in [Positions -> Int], NEW w, WritesInRound(w),
         \/ LinesRule = Changed(want, at) /\ DOMAIN RowsRule = {}
         \/ RowsRule = Changed(want, at) /\ DOMAIN LinesRule = {}
  PROVE  \A f \in Positions : at'[f] = want[f] /\ (f \in DOMAIN w <=> want[f] # at[f])
  <1> DEFINE c == Changed(want, at)
  <1>1. \A f \in Positions : IF f \in DOMAIN c THEN c[f] = want[f]
                             ELSE want[f] = at[f]
    BY ChangedWrites
  <1>2. \A f \in Positions : f \in DOMAIN c <=> want[f] # at[f]
    BY ChangedWrites
  <1> HIDE DEF c
  <1>3. DOMAIN w = DOMAIN c /\ \A f \in DOMAIN w : w[f] = c[f]
    <2>1. ASSUME NEW b, DOMAIN b = {}
          PROVE  \A f \in DOMAIN c : Over(c, b)[f] = c[f] /\ Over(b, c)[f] = c[f]
      BY <2>1 DEF Over
    <2>2. w = Over(LinesRule, RowsRule) \/ w = Over(RowsRule, LinesRule)
      BY DEF WritesInRound
    <2>3. DOMAIN w = DOMAIN LinesRule \cup DOMAIN RowsRule
      BY DEF WritesInRound
    <2>4. CASE LinesRule = c /\ DOMAIN RowsRule = {}
      <3>1. DOMAIN w = DOMAIN c
        BY <2>3, <2>4
      <3>2. \A f \in DOMAIN c : w[f] = c[f]
        <4>1. w = Over(c, RowsRule) \/ w = Over(RowsRule, c)
          BY <2>2, <2>4
        <4>2. \A f \in DOMAIN c : Over(c, RowsRule)[f] = c[f] /\ Over(RowsRule, c)[f] = c[f]
          BY <2>1, <2>4
        <4> QED
          BY <4>1, <4>2
      <3> QED
        BY <3>1, <3>2
    <2>5. CASE RowsRule = c /\ DOMAIN LinesRule = {}
      <3>1. DOMAIN w = DOMAIN c
        BY <2>3, <2>5
      <3>2. \A f \in DOMAIN c : w[f] = c[f]
        <4>1. w = Over(LinesRule, c) \/ w = Over(c, LinesRule)
          BY <2>2, <2>5
        <4>2. \A f \in DOMAIN c : Over(c, LinesRule)[f] = c[f] /\ Over(LinesRule, c)[f] = c[f]
          BY <2>1, <2>5
        <4> QED
          BY <4>1, <4>2
      <3> QED
        BY <3>1, <3>2
    <2> QED
      BY <2>4, <2>5 DEF c
  <1>4. \A f \in Positions : at'[f] = IF f \in DOMAIN w THEN w[f] ELSE at[f]
    BY DEF WritesInRound
  <1> QED
    BY <1>1, <1>2, <1>3, <1>4

LEMMA NoRuleWrites ==
  ASSUME NEW w, WritesInRound(w), DOMAIN LinesRule = {}, DOMAIN RowsRule = {}
  PROVE  /\ DOMAIN w = {} /\ \A f \in Positions : at'[f] = at[f]
         /\ "updateCursor" \notin queue' /\ "updateWrappedCursor" \notin queue'
  BY DEF WritesInRound

LEMMA StaysAtPlace ==
  ASSUME lines' = lines, wrapped' = wrapped,
         NEW f, \A p \in Positions : at'[p] = f[p]
  PROVE  (Together(f) <=> CursorsAgree') /\ (Placed(f) <=> Placed(at)')
  <1>1. at'.cx = f.cx /\ at'.cy = f.cy /\ at'.wx = f.wx /\ at'.wy = f.wy
    BY DEF Positions
  <1>2. Together(f) <=> Together(at)'
    BY <1>1 DEF Together
  <1>3. Placed(f) <=> Placed(at)'
    BY <1>1, <1>2 DEF Placed
  <1> QED
    BY <1>2, <1>3, NextIsTogether

(* What one rule of the two makes of the cursors, when it runs alone or    *)
(* with the other one that has nothing to say.                             *)
LEMMA LinesRuleWants ==
  ASSUME CursorInv, "cursorChanged" \in queue, "updateCursor" \notin queue,
         "wrapLines" \notin queue
  PROVE  \E want \in [Positions -> Int] :
            /\ LinesRule = Changed(want, at)
            /\ want.cy \in 0..(Len(lines) - 1)
            /\ Placed(want) \/ (want.wx = at.wx /\ want.wy = at.wy)
            /\ LineExists => Placed(want)
            /\ Placed(at) => \A f \in Positions : want[f] = at[f]
  <1>1. CursorTyped /\ wrapped = Wrap(lines) /\ cursor = <<at.cx, at.cy>>
    BY DEF CursorInv, RowsAreWrapped, CursorsAreUpdated
  <1>2. PICK want \in [Positions -> Int] :
           /\ CursorWrites = Changed(want, at)
           /\ want.cy \in 0..(Len(lines) - 1)
           /\ Placed(want) \/ (want.wx = at.wx /\ want.wy = at.wy)
           /\ LineExists => Placed(want) /\ want.cy = at.cy
           /\ CursorInLine => want.cx = at.cx
    BY <1>1, CursorRule
  <1>3. ASSUME Placed(at) PROVE \A f \in Positions : want[f] = at[f]
    <2>1. LineExists /\ CursorInLine
      BY <1>3 DEF Placed, Together, LineExists, CursorInLine, Line
    <2>2. Placed(want) /\ want.cx = at.cx /\ want.cy = at.cy
      BY <1>2, <2>1
    <2> DEFINE g == [f \in Positions |-> at[f]]
    <2>3. g \in [Positions -> Int]
      BY <1>1 DEF CursorTyped, Facts, Positions
    <2>4. \A f \in Positions : g[f] = at[f]
      OBVIOUS
    <2> HIDE DEF g
    <2>5. Placed(g) /\ g.cx = want.cx /\ g.cy = want.cy
      <3>1. g.cx = at.cx /\ g.cy = at.cy
        BY <2>4 DEF Positions
      <3>2. Placed(g)
        BY <1>3, <2>4, SamePlace
      <3> QED
        BY <2>2, <3>1, <3>2
    <2>6. want.wx = g.wx /\ want.wy = g.wy
      <3>1. want.cx = g.cx /\ want.cy = g.cy
        BY <2>5
      <3> QED
        BY <1>1, <2>2, <2>3, <2>5, <3>1, PlacedOnce
    <2> QED
      BY <2>2, <2>4, <2>6 DEF Positions
  <1> QED
    BY <1>2, <1>3 DEF LinesRule

LEMMA RowsRuleWants ==
  ASSUME CursorInv, "wrappedCursorChanged" \in queue, "updateWrappedCursor" \notin queue,
         "wrapLines" \notin queue
  PROVE  \E want \in [Positions -> Int] :
            /\ RowsRule = Changed(want, at)
            /\ RowExists => Together(want)
            /\ CursorsAgree => DOMAIN RowsRule = {}
  <1>1. CursorTyped /\ wrapped = Wrap(lines) /\ wrappedCursor = <<at.wx, at.wy>>
    BY DEF CursorInv, RowsAreWrapped, CursorsAreUpdated
  <1>2. PICK want \in [Positions -> Int] :
           /\ WrappedCursorWrites = Changed(want, at)
           /\ RowExists => Together(want)
           /\ CursorsAgree => \A f \in Positions : want[f] = at[f]
    BY <1>1, WrappedCursorRule
  <1>3. CursorsAgree => DOMAIN Changed(want, at) = {}
    BY <1>2 DEF Changed
  <1> QED
    BY <1>2, <1>3 DEF RowsRule

(* A round takes the rules from one phase to the next.                     *)
LEMMA RestRound == CursorInv /\ RestInv /\ Round => RestInv'
  <1> SUFFICES ASSUME CursorInv, RestInv, Round PROVE RestInv'
    OBVIOUS
  <1>1. PICK w : WritesInRound(w)
    BY RoundWrites DEF CursorInv
  <1>2. /\ queue # {} /\ rounds' = rounds + 1 /\ lines' = lines /\ outside' = outside
        /\ wrapped' = RowsAfter
    BY DEF Round
  <1>3. /\ "updateCursor" \in queue' <=> "cx" \in DOMAIN w \/ "cy" \in DOMAIN w
        /\ "updateWrappedCursor" \in queue' <=> "wx" \in DOMAIN w \/ "wy" \in DOMAIN w
        /\ "cursorChanged" \in queue' <=> "updateCursor" \in queue
        /\ "wrappedCursorChanged" \in queue' <=> "updateWrappedCursor" \in queue
        /\ "wrapLines" \notin queue'
        /\ DOMAIN w = {}
           /\ {"updateCursor", "updateWrappedCursor", "wrapLines"} \cap queue = {} =>
              queue' = {}
    BY <1>1 DEF WritesInRound
  <1>4. "wrapLines" \notin queue => wrapped' = wrapped
    BY <1>2 DEF RowsAfter
  (* No rule compares the cursors, or none has anything to say.            *)
  <1>5. ASSUME DOMAIN LinesRule = {}, DOMAIN RowsRule = {}
        PROVE  /\ DOMAIN w = {} /\ \A f \in Positions : at'[f] = at[f]
               /\ "updateCursor" \notin queue' /\ "updateWrappedCursor" \notin queue'
    BY <1>1, <1>5, NoRuleWrites
  <1>6. /\ "cursorChanged" \notin queue => DOMAIN LinesRule = {}
        /\ "wrappedCursorChanged" \notin queue => DOMAIN RowsRule = {}
    BY NothingIsWritten DEF LinesRule, RowsRule
  <1>7. ASSUME "wrapLines" \notin queue, \A f \in Positions : at'[f] = at[f]
        PROVE  /\ LineExists <=> LineExists'
               /\ RowExists <=> RowExists'
               /\ CursorsAgree <=> CursorsAgree'
               /\ Placed(at) <=> Placed(at)'
    <2>1. (Together(at) <=> CursorsAgree') /\ (Placed(at) <=> Placed(at)')
      BY <1>2, <1>4, <1>7, StaysAtPlace
    <2>2. at'.cy = at.cy /\ at'.wy = at.wy
      BY <1>7 DEF Positions
    <2> QED
      BY <1>2, <1>4, <1>7, <2>1, <2>2, AgreeingIsTogether DEF LineExists, RowExists
  (* The rule of the cursor in the lines writes.                           *)
  <1>8. ASSUME "wrapLines" \notin queue, "cursorChanged" \in queue,
               "updateCursor" \notin queue, "updateWrappedCursor" \notin queue,
               DOMAIN RowsRule = {}
        PROVE  /\ LineExists'
               /\ Placed(at)' \/ "updateWrappedCursor" \notin queue'
               /\ LineExists => Placed(at)'
               /\ Placed(at) => DOMAIN LinesRule = {}
    <2>1. PICK want \in [Positions -> Int] :
             /\ LinesRule = Changed(want, at)
             /\ want.cy \in 0..(Len(lines) - 1)
             /\ Placed(want) \/ (want.wx = at.wx /\ want.wy = at.wy)
             /\ LineExists => Placed(want)
             /\ Placed(at) => \A f \in Positions : want[f] = at[f]
      BY <1>8, LinesRuleWants
    <2>2. \A f \in Positions : at'[f] = want[f] /\ (f \in DOMAIN w <=> want[f] # at[f])
      BY <1>1, <1>8, <2>1, RuleWrites
    <2>3. Placed(want) <=> Placed(at)'
      BY <1>2, <1>4, <1>8, <2>2, StaysAtPlace
    <2>4. LineExists'
      BY <1>2, <2>1, <2>2 DEF LineExists, Positions
    <2>5. want.wx = at.wx /\ want.wy = at.wy => "updateWrappedCursor" \notin queue'
      BY <1>3, <2>2 DEF Positions
    <2>6. Placed(at) => DOMAIN LinesRule = {}
      BY <2>1 DEF Changed
    <2> QED
      BY <2>1, <2>3, <2>4, <2>5, <2>6
  (* The rule of the cursor in the rows writes.                            *)
  <1>9. ASSUME "wrapLines" \notin queue, "wrappedCursorChanged" \in queue,
               "updateWrappedCursor" \notin queue
        PROVE  /\ RowExists /\ DOMAIN LinesRule = {} => CursorsAgree'
               /\ CursorsAgree => DOMAIN RowsRule = {}
    <2>1. PICK want \in [Positions -> Int] :
             /\ RowsRule = Changed(want, at)
             /\ RowExists => Together(want)
             /\ CursorsAgree => DOMAIN RowsRule = {}
      BY <1>9, RowsRuleWants
    <2>2. ASSUME RowExists, DOMAIN LinesRule = {} PROVE CursorsAgree'
      <3>1. \A f \in Positions : at'[f] = want[f]
        BY <1>1, <2>1, <2>2, RuleWrites
      <3> QED
        BY <1>2, <1>4, <1>9, <2>1, <2>2, <3>1, StaysAtPlace
    <2> QED
      BY <2>1, <2>2
  <1>10. \A R : OnlyRules(R) <=> CursorRules \cap queue \subseteq R
    BY DEF OnlyRules
  <1>11. \A R : OnlyRules(R)' <=> CursorRules \cap queue' \subseteq R
    BY DEF OnlyRules, CursorRules
  <1>12. OnlyRules({}) => OnlyRules({})'
    <2> SUFFICES ASSUME OnlyRules({}) PROVE OnlyRules({})'
      OBVIOUS
    <2>1. CursorRules \cap queue = {}
      BY <1>10
    <2> QED
      BY <1>3, <1>5, <1>6, <1>11, <2>1 DEF CursorRules
  (* The rules that make a pair of two facts write none.                   *)
  <1>13. ASSUME OnlyRules({"updateCursor", "updateWrappedCursor"})
         PROVE  /\ \A f \in Positions : at'[f] = at[f]
                /\ OnlyRules({"cursorChanged", "wrappedCursorChanged"})'
                /\ "updateWrappedCursor" \notin queue => OnlyRules({"cursorChanged"})'
                /\ "updateCursor" \notin queue => OnlyRules({"wrappedCursorChanged"})'
    <2>1. "cursorChanged" \notin queue /\ "wrappedCursorChanged" \notin queue
      BY <1>10, <1>13 DEF CursorRules
    <2> QED
      BY <1>3, <1>5, <1>6, <1>11, <2>1 DEF CursorRules
  <1>14. ASSUME rounds = 0, ~outside
         PROVE  \/ OnlyRules({"cursorChanged"})'
                \/ OnlyRules({"wrappedCursorChanged"})' /\ RowExists'
    <2>1. CASE OnlyRules({"updateCursor"})
      <3>1. /\ OnlyRules({"updateCursor", "updateWrappedCursor"})
            /\ "updateWrappedCursor" \notin queue
        BY <1>10, <2>1 DEF CursorRules
      <3> QED
        BY <1>13, <3>1
    <2>2. CASE OnlyRules({"updateWrappedCursor"}) /\ RowExists /\ "wrapLines" \notin queue
      <3>1. /\ OnlyRules({"updateCursor", "updateWrappedCursor"})
            /\ "updateCursor" \notin queue
        BY <1>10, <2>2 DEF CursorRules
      <3> QED
        BY <1>7, <1>13, <2>2, <3>1
    <2> QED
      BY <1>14, <2>1, <2>2 DEF RestInv, InPhase
  <1>15. ASSUME rounds = 1, ~outside
         PROVE  \/ OnlyRules({"updateCursor"})' /\ LineExists'
                \/ OnlyRules({"updateCursor", "updateWrappedCursor"})' /\ CursorsAgree'
                \/ OnlyRules({})'
    <2>1. "wrapLines" \notin queue
      BY <1>15 DEF RestInv
    <2>2. CASE OnlyRules({})
      BY <1>12, <2>2
    <2>3. CASE OnlyRules({"cursorChanged"}) /\ "cursorChanged" \in queue
      <3>1. /\ "updateCursor" \notin queue /\ "updateWrappedCursor" \notin queue
            /\ "wrappedCursorChanged" \notin queue
        BY <1>10, <2>3 DEF CursorRules
      <3>2. LineExists' /\ (Placed(at)' \/ "updateWrappedCursor" \notin queue')
        BY <1>6, <1>8, <2>1, <2>3, <3>1
      <3>3. Placed(at)' => CursorsAgree'
        BY NextIsTogether DEF Placed
      <3>4. OnlyRules({"updateCursor", "updateWrappedCursor"})'
        BY <1>3, <1>11, <3>1 DEF CursorRules
      <3>5. "updateWrappedCursor" \notin queue' => OnlyRules({"updateCursor"})'
        BY <1>3, <1>11, <3>1 DEF CursorRules
      <3> QED
        BY <3>2, <3>3, <3>4, <3>5
    <2>4. CASE /\ OnlyRules({"wrappedCursorChanged"}) /\ RowExists
               /\ "wrappedCursorChanged" \in queue
      <3>1. /\ "updateCursor" \notin queue /\ "updateWrappedCursor" \notin queue
            /\ "cursorChanged" \notin queue
        BY <1>10, <2>4 DEF CursorRules
      <3>2. CursorsAgree'
        BY <1>6, <1>9, <2>1, <2>4, <3>1
      <3>3. OnlyRules({"updateCursor", "updateWrappedCursor"})'
        BY <1>3, <1>11, <3>1 DEF CursorRules
      <3> QED
        BY <3>2, <3>3
    <2>5. /\ OnlyRules({"cursorChanged"}) /\ "cursorChanged" \notin queue => OnlyRules({})
          /\ OnlyRules({"wrappedCursorChanged"}) /\ "wrappedCursorChanged" \notin queue =>
                OnlyRules({})
      BY <1>10
    <2> QED
      BY <1>15, <2>2, <2>3, <2>4, <2>5 DEF RestInv, InPhase
  <1>16. ASSUME rounds = 2, ~outside
         PROVE  \/ OnlyRules({"cursorChanged"})' /\ LineExists'
                \/ /\ OnlyRules({"cursorChanged", "wrappedCursorChanged"})'
                   /\ CursorsAgree'
                \/ OnlyRules({})'
    <2>1. "wrapLines" \notin queue
      BY <1>16 DEF RestInv
    <2>2. CASE OnlyRules({"updateCursor"}) /\ LineExists
      <3>1. /\ OnlyRules({"updateCursor", "updateWrappedCursor"})
            /\ "updateWrappedCursor" \notin queue
        BY <1>10, <2>2 DEF CursorRules
      <3> QED
        BY <1>7, <1>13, <2>1, <2>2, <3>1
    <2>3. CASE OnlyRules({"updateCursor", "updateWrappedCursor"}) /\ CursorsAgree
      BY <1>7, <1>13, <2>1, <2>3
    <2>4. CASE OnlyRules({})
      BY <1>12, <2>4
    <2> QED
      BY <1>16, <2>2, <2>3, <2>4 DEF RestInv, InPhase
  <1>17. ASSUME rounds = 3, ~outside
         PROVE  \/ OnlyRules({"updateCursor", "updateWrappedCursor"})' /\ Placed(at)'
                \/ OnlyRules({})'
    <2>1. "wrapLines" \notin queue
      BY <1>17 DEF RestInv
    <2>2. CASE OnlyRules({})
      BY <1>12, <2>2
    <2>3. ASSUME OnlyRules({"cursorChanged", "wrappedCursorChanged"}), LineExists,
                 "wrappedCursorChanged" \in queue => CursorsAgree
          PROVE  \/ OnlyRules({"updateCursor", "updateWrappedCursor"})' /\ Placed(at)'
                 \/ OnlyRules({})'
      <3>1. "updateCursor" \notin queue /\ "updateWrappedCursor" \notin queue
        BY <1>10, <2>3 DEF CursorRules
      <3>2. DOMAIN RowsRule = {}
        BY <1>6, <1>9, <2>1, <2>3, <3>1
      <3>3. CASE "cursorChanged" \in queue
        <4>1. Placed(at)'
          BY <1>8, <2>1, <2>3, <3>1, <3>2, <3>3
        <4>2. OnlyRules({"updateCursor", "updateWrappedCursor"})'
          BY <1>3, <1>11, <3>1 DEF CursorRules
        <4> QED
          BY <4>1, <4>2
      <3>4. CASE "cursorChanged" \notin queue
        <4>1. "updateCursor" \notin queue' /\ "updateWrappedCursor" \notin queue'
          BY <1>5, <1>6, <3>2, <3>4
        <4> QED
          BY <1>3, <1>11, <3>1, <4>1 DEF CursorRules
      <3> QED
        BY <3>3, <3>4
    <2>4. CASE OnlyRules({"cursorChanged"}) /\ LineExists
      <3>1. /\ OnlyRules({"cursorChanged", "wrappedCursorChanged"})
            /\ "wrappedCursorChanged" \notin queue
        BY <1>10, <2>4 DEF CursorRules
      <3> QED
        BY <2>3, <2>4, <3>1
    <2>5. CASE OnlyRules({"cursorChanged", "wrappedCursorChanged"}) /\ CursorsAgree
      <3>1. LineExists
        BY <2>5 DEF CursorsAgree, CursorInLine, LineExists
      <3> QED
        BY <2>3, <2>5, <3>1
    <2> QED
      BY <1>17, <2>2, <2>4, <2>5 DEF RestInv, InPhase
  <1>18. ASSUME rounds = 4, ~outside
         PROVE  \/ OnlyRules({"cursorChanged", "wrappedCursorChanged"})' /\ Placed(at)'
                \/ OnlyRules({})'
    <2>1. "wrapLines" \notin queue
      BY <1>18 DEF RestInv
    <2>2. CASE OnlyRules({"updateCursor", "updateWrappedCursor"}) /\ Placed(at)
      BY <1>7, <1>13, <2>1, <2>2
    <2>3. CASE OnlyRules({})
      BY <1>12, <2>3
    <2> QED
      BY <1>18, <2>2, <2>3 DEF RestInv, InPhase
  <1>19. ASSUME rounds = 5, ~outside
         PROVE  queue' = {}
    <2>1. "wrapLines" \notin queue
      BY <1>19 DEF RestInv
    <2>2. CASE OnlyRules({"cursorChanged", "wrappedCursorChanged"}) /\ Placed(at)
      <3>1. "updateCursor" \notin queue /\ "updateWrappedCursor" \notin queue
        BY <1>10, <2>2 DEF CursorRules
      <3>2. CursorsAgree
        BY <2>2, AgreeingIsTogether DEF Placed
      <3>3. DOMAIN RowsRule = {}
        BY <1>6, <1>9, <2>1, <3>1, <3>2
      <3>4. DOMAIN LinesRule = {}
        BY <1>6, <1>8, <2>1, <2>2, <3>1, <3>3
      <3> QED
        BY <1>3, <1>5, <2>1, <3>1, <3>3, <3>4
    <2>3. CASE OnlyRules({})
      <3>1. CursorRules \cap queue = {}
        BY <1>10, <2>3
      <3> QED
        BY <1>3, <1>5, <1>6, <2>1, <3>1 DEF CursorRules
    <2> QED
      BY <1>19, <2>2, <2>3 DEF RestInv, InPhase
  <1>20. rounds \in Nat /\ rounds' \in Nat /\ rounds' > 0
    BY <1>2 DEF RestInv
  <1>21. ASSUME ~outside PROVE rounds \in 0..5
    BY <1>2, <1>20, <1>21 DEF RestInv, AtRest
  <1>22. ASSUME ~outside PROVE InPhase'
    BY <1>2, <1>14, <1>15, <1>16, <1>17, <1>18, <1>20, <1>21, <1>22 DEF InPhase
  <1>23. ASSUME ~outside PROVE rounds' <= 6 /\ (rounds' = 6 => AtRest')
    BY <1>2, <1>19, <1>20, <1>21, <1>23 DEF AtRest
  <1> QED
    BY <1>2, <1>3, <1>20, <1>22, <1>23 DEF RestInv

OneCursor(w, edited) ==
    DOMAIN w \subseteq {"cx", "cy"} \/ (DOMAIN w \subseteq {"wx", "wy"} /\ ~edited)

LEMMA RestTick ==
  ASSUME NEW text, NEW w, NEW edited \in BOOLEAN, Tick(text, w, edited),
         OneCursor(w, edited)
  PROVE  RestInv'
  <1>1. /\ rounds' = 0 /\ wrapped' = wrapped
        /\ queue' = {"scrollX", "scrollY"} \cup Triggered(DOMAIN w)
                    \cup (IF edited THEN {"wrapLines"} ELSE {})
        /\ ~outside' => \/ DOMAIN w \cap {"wx", "wy"} = {}
                        \/ at'.wy \in 0..(Len(wrapped) - 1)
    BY DEF Tick
  <1>2. /\ "updateCursor" \in queue' <=> "cx" \in DOMAIN w \/ "cy" \in DOMAIN w
        /\ "updateWrappedCursor" \in queue' <=> "wx" \in DOMAIN w \/ "wy" \in DOMAIN w
        /\ "cursorChanged" \notin queue' /\ "wrappedCursorChanged" \notin queue'
        /\ "wrapLines" \in queue' <=> edited
    BY <1>1, TriggeredRules
  <1>3. ASSUME ~outside' PROVE InPhase'
    <2>1. CASE DOMAIN w \cap {"wx", "wy"} = {}
      <3>1. OnlyRules({"updateCursor"})'
        BY <1>2, <2>1 DEF OnlyRules, CursorRules
      <3> QED
        BY <1>1, <3>1 DEF InPhase
    <2>2. CASE DOMAIN w \cap {"wx", "wy"} # {}
      <3>1. DOMAIN w \subseteq {"wx", "wy"} /\ ~edited
        BY <2>2 DEF OneCursor
      <3>2. OnlyRules({"updateWrappedCursor"})'
        BY <1>2, <3>1 DEF OnlyRules, CursorRules
      <3>3. RowExists'
        BY <1>1, <1>3, <2>2 DEF RowExists
      <3> QED
        BY <1>1, <1>2, <3>1, <3>2, <3>3 DEF InPhase
    <2> QED
      BY <2>1, <2>2
  <1> QED
    BY <1>1, <1>3 DEF RestInv

LEMMA RestInput == Input => RestInv'
  <1> SUFFICES ASSUME Input PROVE RestInv'
    OBVIOUS
  <1>1. ASSUME NEW w, Move(w), OneCursor(w, FALSE) PROVE RestInv'
    BY <1>1, RestTick DEF Move
  <1>2. ASSUME NEW text, NEW w, Edit(text, w), DOMAIN w \subseteq {"cx", "cy"}
        PROVE  RestInv'
    <2>1. OneCursor(w, TRUE) /\ Tick(text, w, TRUE)
      BY <1>2 DEF OneCursor, Edit
    <2> QED
      BY <2>1, RestTick
  <1>3. DOMAIN Nothing = {} /\ OneCursor(Nothing, FALSE)
    BY NothingIsWritten DEF OneCursor
  <1>4. \A x, y : /\ DOMAIN [cx |-> x] \subseteq {"cx", "cy"}
                  /\ DOMAIN [cy |-> y] \subseteq {"cx", "cy"}
                  /\ DOMAIN [cx |-> x, cy |-> y] \subseteq {"cx", "cy"}
                  /\ OneCursor([cx |-> x], FALSE) /\ OneCursor([wy |-> y], FALSE)
                  /\ OneCursor([wx |-> x, wy |-> y], FALSE)
    BY DEF OneCursor
  <1>5. ASSUME NEW ch, NEW insertMode \in BOOLEAN, Type(ch, insertMode) PROVE RestInv'
    BY <1>2, <1>4, <1>5, Zenon DEF Type
  <1>6. CASE BackspaceAtStart
    BY <1>1, <1>3, <1>6, Zenon DEF BackspaceAtStart
  <1>7. ASSUME NEW insertMode \in BOOLEAN, Backspace(insertMode) PROVE RestInv'
    BY <1>2, <1>4, <1>7, Zenon DEF Backspace
  <1>8. CASE Delete
    <2>1. DOMAIN Nothing \subseteq {"cx", "cy"}
      BY <1>3
    <2> QED
      BY <1>1, <1>2, <1>3, <1>8, <2>1, Zenon DEF Delete
  <1>9. CASE Enter
    BY <1>2, <1>4, <1>9, Zenon DEF Enter
  <1>10. CASE MoveByRows
    BY <1>1, <1>4, <1>10, Zenon DEF MoveByRows
  <1>11. CASE MoveInLine
    BY <1>1, <1>4, <1>11, Zenon DEF MoveInLine
  <1>12. CASE Scroll
    BY <1>1, <1>4, <1>12, Zenon DEF Scroll
  <1>13. CASE Click
    BY <1>1, <1>4, <1>13, Zenon DEF Click
  <1>14. CASE DeleteLine
    <2> DEFINE rest == IF Len(lines) = 1 THEN <<<<>>>> ELSE LinesBefore \o LinesAfter
               w == IF at.cy > Len(rest) - 1 THEN [cy |-> Len(rest) - 1] ELSE Nothing
    <2>1. Edit(rest, w)
      BY <1>14 DEF DeleteLine
    <2>2. DOMAIN w \subseteq {"cx", "cy"}
      <3> HIDE DEF rest
      <3>1. CASE at.cy > Len(rest) - 1
        BY <1>4, <3>1
      <3>2. CASE ~(at.cy > Len(rest) - 1)
        BY <1>3, <3>2
      <3> QED
        BY <3>1, <3>2
    <2> HIDE DEF rest, w
    <2> QED
      BY <1>2, <2>1, <2>2
  <1>15. CASE Paste
    BY <1>2, <1>4, <1>15, Zenon DEF Paste
  <1>16. CASE Draw
    <2>1. DOMAIN Nothing \subseteq {"cx", "cy"}
      BY <1>3
    <2> QED
      BY <1>2, <1>16, <2>1, Zenon DEF Draw
  <1>17. CASE Restore
    BY <1>2, <1>4, <1>17, Zenon DEF Restore
  <1> QED
    BY <1>5, <1>6, <1>7, <1>8, <1>9, <1>10, <1>11, <1>12, <1>13, <1>14, <1>15, <1>16, <1>17
    DEF Input

LEMMA RestInvariant == CursorSpec => []RestInv
  <1>1. CursorInit => RestInv
    BY DEF CursorInit, RestInv, InPhase, OnlyRules, AtRest
  <1>2. CursorInv /\ RestInv /\ [CursorNext]_cursorVars => RestInv'
    <2>1. UNCHANGED cursorVars /\ RestInv => RestInv'
      BY DEF cursorVars, RestInv, InPhase, OnlyRules, AtRest, RowExists, LineExists,
             CursorsAgree, CursorInLine, CursorInRow, Line, Placed, Together
    <2> QED
      BY <2>1, RestRound, RestInput DEF CursorNext
  <1> QED
    BY <1>1, <1>2, CursorInvariant, PTL DEF CursorSpec

(* The rules come to rest before the engine gives up: whatever the text,   *)
(* the input and the order of the two rules, six rounds are enough.        *)
THEOREM RulesComeToRest == CursorSpec => []ComesToRest
  <1>1. RestInv => ComesToRest
    BY LimitAssumption DEF RestInv, ComesToRest, AtRest
  <1> QED
    BY <1>1, RestInvariant, PTL

-----------------------------------------------------------------------------
(* The sounds.                                                             *)

(* The post and the editor play sounds of their own.                       *)
SoundsDiffer ==
    \A p, q \in Players :
        midi[p].tune # NoTune /\ midi[p].tune = midi[q].tune => p = q

IInv ==
    /\ TypeOK
    /\ PlayingIsHeld
    /\ HeldIsOwnedOrLost
    /\ SoundsDiffer
    /\ PromptGoesWithMusic

(* The handlers of sound.play give back everything that was made before    *)
(* the step that failed.                                                   *)
LEMMA AllOrNothing ==
  ASSUME NEW t, NEW new \in HeldAfter(t)
  PROVE  new = PartsOf(t) \/ new = {}
  <1>1. ASSUME NEW n \in 1..4
        PROVE  {Order[i] : i \in 1..(n - 1)} \subseteq GivenBack(n)
    <2>1. CASE n = 1
      BY <2>1 DEF GivenBack
    <2>2. CASE n = 2
      BY <2>2 DEF GivenBack, Order
    <2>3. CASE n = 3
      BY <2>3 DEF GivenBack, Order
    <2>4. CASE n = 4
      BY <2>4 DEF GivenBack, Order
    <2> QED
      BY <2>1, <2>2, <2>3, <2>4
  <1> QED
    BY <1>1 DEF HeldAfter

LEMMA InitIInv == Init => IInv
  BY DEF Init, IInv, TypeOK, PlayingIsHeld, HeldIsOwnedOrLost, SoundsDiffer,
         PromptGoesWithMusic, Players, Tabs, Idle

(* What a sound is to its page and to the parts that are held.             *)
SoundsFine ==
    /\ midi \in [Players -> {Idle, At("asked"), At("displayed"), At("error")}
                              \cup {Playing(t) : t \in Tunes \cup {NoTune}}]
    /\ held \subseteq Tunes \X Parts
    /\ over \subseteq Tunes /\ lost \subseteq Tunes
    /\ PlayingIsHeld
    /\ HeldIsOwnedOrLost
    /\ SoundsDiffer

(* A page that has no sound may take any step without one.                 *)
LEMMA SilentStep ==
  ASSUME SoundsFine, NEW p \in Players, midi[p].tune = NoTune,
         NEW m \in {Idle, At("asked"), At("displayed"), At("error"), Playing(NoTune)},
         midi' = [midi EXCEPT ![p] = m],
         UNCHANGED sounds
  PROVE  SoundsFine'
  <1>1. m.tune = NoTune
    BY DEF Idle, At, Playing
  <1>2. \A q \in Players : midi'[q].tune = midi[q].tune
    BY <1>1 DEF SoundsFine
  <1>3. midi' \in [Players -> {Idle, At("asked"), At("displayed"), At("error")}
                              \cup {Playing(t) : t \in Tunes \cup {NoTune}}]
    BY DEF SoundsFine
  <1>4. PlayingIsHeld' /\ HeldIsOwnedOrLost' /\ SoundsDiffer'
    BY <1>2 DEF SoundsFine, sounds, PlayingIsHeld, HeldIsOwnedOrLost, SoundsDiffer
  <1> QED
    BY <1>3, <1>4 DEF SoundsFine, sounds

LEMMA StartStep ==
  ASSUME SoundsFine, NEW p \in Players, midi[p].tune = NoTune, Start(p)
  PROVE  SoundsFine'
  <1>0. Failed(p) \in {Idle, At("error")}
    BY DEF Failed
  <1>1. ASSUME NEW t \in Unused, NEW new \in HeldAfter(t),
               held' = held \cup new, over' = over \ {t}, UNCHANGED lost,
               midi' = [midi EXCEPT ![p] = IF new = PartsOf(t) THEN Playing(t)
                                                              ELSE Failed(p)]
        PROVE  SoundsFine'
    <2>0. /\ t \in Tunes /\ t # NoTune
          /\ PartsOf(t) \cap held = {}
          /\ \A q \in Players : midi[q].tune # t
      BY TunesAssumption DEF Unused
    <2>1. CASE new = {} /\ new # PartsOf(t)
      <3>1. held' = held /\ midi' = [midi EXCEPT ![p] = Failed(p)]
        BY <1>1, <2>1
      <3>2. \A q \in Players : midi'[q].tune = midi[q].tune
        BY <1>0, <3>1 DEF SoundsFine, Idle, At
      <3>3. midi' \in [Players -> {Idle, At("asked"), At("displayed"), At("error")}
                              \cup {Playing(u) : u \in Tunes \cup {NoTune}}]
        BY <1>0, <3>1 DEF SoundsFine
      <3>4. PlayingIsHeld' /\ HeldIsOwnedOrLost' /\ SoundsDiffer'
        BY <1>1, <3>1, <3>2 DEF SoundsFine, PlayingIsHeld, HeldIsOwnedOrLost, SoundsDiffer
      <3> QED
        BY <1>1, <3>1, <3>3, <3>4 DEF SoundsFine
    <2>2. CASE new = PartsOf(t)
      <3>1. held' = held \cup PartsOf(t) /\ midi' = [midi EXCEPT ![p] = Playing(t)]
        BY <1>1, <2>2
      <3>2. /\ midi' \in [Players -> {Idle, At("asked"), At("displayed"), At("error")}
                              \cup {Playing(u) : u \in Tunes \cup {NoTune}}]
            /\ midi'[p].tune = t
            /\ \A q \in Players \ {p} : midi'[q].tune = midi[q].tune
        BY <2>0, <3>1 DEF SoundsFine, Playing
      <3>3. held' \subseteq Tunes \X Parts
        BY <2>0, <3>1 DEF SoundsFine, PartsOf
      <3>4. PlayingIsHeld'
        BY <3>1, <3>2 DEF SoundsFine, PlayingIsHeld
      <3>5. ASSUME NEW part \in held'
            PROVE  /\ PartsOf(part[1]) \subseteq held'
                   /\ part[1] \in lost' \/ \E q \in Players : midi'[q].tune = part[1]
        <4>1. CASE part \in held
          <5>1. PartsOf(part[1]) \subseteq held'
            BY <3>1, <4>1 DEF SoundsFine, HeldIsOwnedOrLost
          <5>2. part[1] \in lost \/ \E q \in Players : midi[q].tune = part[1]
            BY <4>1 DEF SoundsFine, HeldIsOwnedOrLost
          <5>3. part[1] # NoTune
            BY <4>1, TunesAssumption DEF SoundsFine
          <5>4. \A q \in Players : midi[q].tune = part[1] => q # p
            BY <5>3
          <5> QED
            BY <1>1, <3>2, <5>1, <5>2, <5>4
        <4>2. CASE part \in PartsOf(t)
          <5>1. part[1] = t
            BY <4>2 DEF PartsOf
          <5> QED
            BY <3>1, <3>2, <5>1
        <4> QED
          BY <3>1, <4>1, <4>2
      <3>6. HeldIsOwnedOrLost'
        BY <3>5 DEF HeldIsOwnedOrLost
      <3>7. SoundsDiffer'
        BY <2>0, <3>2 DEF SoundsFine, SoundsDiffer
      <3> QED
        BY <1>1, <3>2, <3>3, <3>4, <3>6, <3>7 DEF SoundsFine
    <2> QED
      BY <2>1, <2>2, AllOrNothing
  <1>2. CASE Unused = {} /\ midi' = [midi EXCEPT ![p] = Failed(p)] /\ UNCHANGED sounds
    BY <1>0, <1>2, SilentStep
  <1>3. CASE midi' = [midi EXCEPT ![p] = Playing(NoTune)] /\ UNCHANGED sounds
    BY <1>3, SilentStep
  <1> QED
    BY <1>1, <1>2, <1>3 DEF Start

(* Stopping a page takes away the parts of its own sound only.             *)
LEMMA StopStep ==
  ASSUME SoundsFine, NEW p \in Players, Stop(p)
  PROVE  SoundsFine'
  <1>1. /\ midi' = [midi EXCEPT ![p] = Idle]
        /\ held' = held \ PartsOf(midi[p].tune)
        /\ UNCHANGED <<over, lost>>
    BY DEF Stop
  <1>2. /\ midi' \in [Players -> {Idle, At("asked"), At("displayed"), At("error")}
                              \cup {Playing(t) : t \in Tunes \cup {NoTune}}]
        /\ midi'[p].tune = NoTune
        /\ \A q \in Players \ {p} : midi'[q] = midi[q]
    BY <1>1 DEF SoundsFine, Idle
  <1>3. ASSUME NEW q \in Players, midi'[q].tune # NoTune
        PROVE  PartsOf(midi'[q].tune) \subseteq held'
    <2>1. q # p /\ midi'[q].tune = midi[q].tune
      BY <1>2, <1>3
    <2>2. midi[q].tune # midi[p].tune
      BY <1>3, <2>1 DEF SoundsFine, SoundsDiffer
    <2>3. PartsOf(midi[q].tune) \subseteq held
      BY <1>3, <2>1 DEF SoundsFine, PlayingIsHeld
    <2> QED
      BY <1>1, <2>1, <2>2, <2>3 DEF PartsOf
  <1>4. ASSUME NEW part \in held'
        PROVE  /\ PartsOf(part[1]) \subseteq held'
               /\ part[1] \in lost' \/ \E q \in Players : midi'[q].tune = part[1]
    <2>1. part \in held /\ part \in Tunes \X Parts /\ part \notin PartsOf(midi[p].tune)
      BY <1>1, <1>4 DEF SoundsFine
    <2>2. part[1] # midi[p].tune
      BY <2>1 DEF PartsOf
    <2>3. PartsOf(part[1]) \subseteq held'
      BY <1>1, <2>1, <2>2 DEF SoundsFine, HeldIsOwnedOrLost, PartsOf
    <2>4. part[1] \in lost \/ \E q \in Players : midi[q].tune = part[1]
      BY <2>1 DEF SoundsFine, HeldIsOwnedOrLost
    <2> QED
      BY <1>1, <1>2, <2>2, <2>3, <2>4
  <1>5. PlayingIsHeld' /\ HeldIsOwnedOrLost'
    BY <1>3, <1>4 DEF PlayingIsHeld, HeldIsOwnedOrLost
  <1>6. SoundsDiffer'
    BY <1>2 DEF SoundsFine, SoundsDiffer
  <1> QED
    BY <1>1, <1>2, <1>5, <1>6 DEF SoundsFine

(* A page that is dropped leaves its sound with those that are lost.       *)
LEMMA DropStep ==
  ASSUME SoundsFine, NEW ps \in SUBSET Players, Drop(ps)
  PROVE  SoundsFine'
  <1>1. /\ midi' = [p \in Players |-> IF p \in ps THEN Idle ELSE midi[p]]
        /\ lost' = lost \cup ({midi[p].tune : p \in ps} \ {NoTune})
        /\ UNCHANGED <<held, over>>
    BY DEF Drop
  <1>2. /\ midi' \in [Players -> {Idle, At("asked"), At("displayed"), At("error")}
                              \cup {Playing(t) : t \in Tunes \cup {NoTune}}]
        /\ \A p \in ps : midi'[p].tune = NoTune
        /\ \A p \in Players \ ps : midi'[p] = midi[p]
    BY <1>1 DEF SoundsFine, Idle
  <1>3. \A p \in Players : midi[p].tune \in Tunes \cup {NoTune}
    BY DEF SoundsFine, Idle, At, Playing
  <1>4. lost' \subseteq Tunes
    BY <1>1, <1>3 DEF SoundsFine
  <1>5. PlayingIsHeld' /\ SoundsDiffer'
    BY <1>1, <1>2 DEF SoundsFine, PlayingIsHeld, SoundsDiffer
  <1>6. ASSUME NEW part \in held
        PROVE  part[1] \in lost' \/ \E q \in Players : midi'[q].tune = part[1]
    <2>1. part[1] # NoTune
      BY <1>6, TunesAssumption DEF SoundsFine
    <2>2. part[1] \in lost \/ \E q \in Players : midi[q].tune = part[1]
      BY <1>6 DEF SoundsFine, HeldIsOwnedOrLost
    <2>3. ASSUME NEW q \in Players, midi[q].tune = part[1]
          PROVE  part[1] \in lost' \/ midi'[q].tune = part[1]
      BY <1>1, <1>2, <2>1, <2>3
    <2> QED
      BY <1>1, <2>2, <2>3
  <1>7. HeldIsOwnedOrLost'
    BY <1>1, <1>6 DEF SoundsFine, HeldIsOwnedOrLost
  <1> QED
    BY <1>1, <1>2, <1>4, <1>5, <1>7 DEF SoundsFine

LEMMA StutterStep ==
  ASSUME SoundsFine, UNCHANGED <<midi, sounds>>
  PROVE  SoundsFine'
  BY DEF SoundsFine, sounds, PlayingIsHeld, HeldIsOwnedOrLost, SoundsDiffer

LEMMA PhaseHasNoSound ==
  ASSUME SoundsFine, NEW p \in Players,
         midi[p].phase \in {"idle", "asked", "displayed", "error"}
  PROVE  midi[p].tune = NoTune
  BY DEF SoundsFine, Idle, At, Playing

LEMMA ProgressStep ==
  ASSUME SoundsFine, NEW p \in Players, NEW k, Progress(p, k)
  PROVE  SoundsFine'
  <1>1. CASE midi[p].phase = "asked"
    BY <1>1, PhaseHasNoSound, SilentStep DEF Progress
  <1>2. CASE midi[p].phase = "displayed"
    BY <1>2, PhaseHasNoSound, StartStep DEF Progress
  <1>3. CASE midi[p].phase = "playing" /\ WantsStop(p, k)
    BY <1>3, StopStep DEF Progress
  <1>4. CASE /\ midi[p].phase \notin {"asked", "displayed"}
             /\ ~(midi[p].phase = "playing" /\ WantsStop(p, k))
    BY <1>4, StutterStep DEF Progress
  <1> QED
    BY <1>1, <1>2, <1>3, <1>4

LEMMA PlayStep ==
  ASSUME SoundsFine, NEW p \in Players, Play(p)
  PROVE  SoundsFine'
  BY PhaseHasNoSound, SilentStep DEF Play

(* Every step keeps the sounds in order.                                   *)
LEMMA SoundsStep ==
  ASSUME SoundsFine, [Next]_vars
  PROVE  SoundsFine'
  <1>0. "post" \in Players /\ "editor" \in Players
    BY DEF Players
  <1>1. ASSUME NEW k \in Keys, PostTick(k)
        PROVE  SoundsFine'
    BY <1>0, <1>1, StutterStep, ProgressStep, PlayStep, DropStep DEF PostTick
  <1>2. ASSUME NEW k \in Keys, EditorTick(k)
        PROVE  SoundsFine'
    <2>1. CASE UNCHANGED <<midi, sounds>>
      BY <2>1, StutterStep
    <2>2. CASE Deliver
      BY <1>0, <2>2, DropStep DEF Deliver
    <2>3. CASE Views(k)
      BY <1>0, <2>3, StutterStep, ProgressStep, PlayStep DEF Views
    <2> QED
      BY <1>2, <2>1, <2>2, <2>3 DEF EditorTick
  <1>3. CASE OtherTick
    BY <1>0, <1>3, StutterStep, DropStep DEF OtherTick
  <1>4. CASE Answer
    BY <1>4, StutterStep DEF Answer
  <1>5. ASSUME NEW t \in Tunes, Elapse(t)
        PROVE  SoundsFine'
    BY <1>5 DEF Elapse, SoundsFine, PlayingIsHeld, HeldIsOwnedOrLost, SoundsDiffer
  <1>6. CASE UNCHANGED vars
    BY <1>6, StutterStep DEF vars
  <1> QED
    BY <1>1, <1>2, <1>3, <1>4, <1>5, <1>6 DEF Next

(* The other variables stay in their types.                                *)
PageFine ==
    /\ shown \in Players \cup {"other"}
    /\ focused \in BOOLEAN /\ tab \in Tabs /\ prompts \subseteq Tabs
    /\ request \in {"none", "waiting", "valid", "failed"}

LEMMA EditorPage ==
  ASSUME PageFine, NEW k \in Keys, EditorTick(k)
  PROVE  PageFine'
  <1>1. CASE UNCHANGED page /\ shown' \in {"post", "other"}
    BY <1>1 DEF PageFine, page, Players
  <1>2. CASE Deliver
    BY <1>2 DEF Deliver, NewEditor, PageFine, Players, Tabs
  <1>3. CASE Views(k) /\ focused' \in FocusAfter(k) /\ UNCHANGED shown
    <2>1. focused' \in BOOLEAN
      <3>1. FocusAfter(k) \subseteq BOOLEAN
        BY DEF FocusAfter, PageFine
      <3> QED
        BY <1>3, <3>1
    <2>2. PromptsAfter(Delivered(k)) \subseteq Tabs
      BY DEF PromptsAfter, PageFine
    <2>3. /\ tab' \in Tabs /\ prompts' \subseteq Tabs
          /\ request' \in {"none", "waiting", "valid", "failed"}
      BY <1>3, <2>2 DEF Views, PageFine
    <2> QED
      BY <1>3, <2>1, <2>3 DEF PageFine
  <1> QED
    BY <1>1, <1>2, <1>3 DEF EditorTick

(* The prompt comes and goes with the music of the editor; what the post   *)
(* does to its own sound is nothing to it.                                 *)
LEMMA PromptStep ==
  ASSUME TypeOK, PromptGoesWithMusic, [Next]_vars
  PROVE  PromptGoesWithMusic'
  <1>0. DOMAIN midi = Players /\ "post" \in Players /\ "editor" \in Players
    BY DEF TypeOK, Players
  <1>1. ASSUME UNCHANGED <<tab, prompts>>, midi'["editor"] = midi["editor"]
        PROVE  PromptGoesWithMusic'
    BY <1>1 DEF PromptGoesWithMusic
  <1>2. CASE NewEditor
    BY <1>2 DEF NewEditor, PromptGoesWithMusic
  <1>3. ASSUME NEW k \in Keys, PostTick(k)
        PROVE  PromptGoesWithMusic'
    <2>1. UNCHANGED <<tab, prompts>>
      BY <1>3 DEF PostTick, page
    <2>2. ASSUME Progress("post", k)
          PROVE  midi'["editor"] = midi["editor"]
      BY <1>0, <2>2 DEF Progress, Start, Stop
    <2>3. midi'["editor"] = midi["editor"]
      BY <1>0, <1>3, <2>2 DEF PostTick, Play, Drop
    <2> QED
      BY <1>1, <2>1, <2>3
  <1>4. ASSUME NEW k, Views(k)
        PROVE  PromptGoesWithMusic'
    <2>1. CASE /\ Progress("editor", Delivered(k))
               /\ prompts' = PromptsAfter(Delivered(k))
               /\ UNCHANGED tab
      <3>1. CASE midi["editor"].phase # "playing"
        BY <2>1, <3>1 DEF PromptsAfter, PromptGoesWithMusic
      <3>2. CASE midi["editor"].phase = "playing" /\ WantsStop("editor", Delivered(k))
        <4>1. prompts' = prompts \ {tab}
          BY <2>1, <3>2 DEF PromptsAfter
        <4> QED
          BY <2>1, <4>1 DEF PromptGoesWithMusic
      <3>3. CASE midi["editor"].phase = "playing" /\ ~WantsStop("editor", Delivered(k))
        <4>1. prompts' = prompts \cup {tab}
          BY <2>1, <3>3 DEF PromptsAfter
        <4>2. UNCHANGED midi
          BY <2>1, <3>3 DEF Progress
        <4> QED
          BY <2>1, <3>3, <4>1, <4>2 DEF PromptGoesWithMusic
      <3> QED
        BY <3>1, <3>2, <3>3
    <2>2. CASE midi["editor"].phase = "idle" /\ UNCHANGED prompts
      BY <2>2 DEF PromptGoesWithMusic
    <2> QED
      BY <1>4, <2>1, <2>2 DEF Views, Play
  <1>5. ASSUME NEW k \in Keys, EditorTick(k)
        PROVE  PromptGoesWithMusic'
    BY <1>1, <1>2, <1>4, <1>5 DEF EditorTick, Deliver, page
  <1>6. CASE OtherTick
    BY <1>0, <1>1, <1>2, <1>6 DEF OtherTick, Drop, page
  <1>7. CASE Answer \/ (\E t \in Tunes : Elapse(t)) \/ UNCHANGED vars
    BY <1>1, <1>7 DEF Answer, Elapse, vars, page
  <1> QED
    BY <1>3, <1>5, <1>6, <1>7 DEF Next

LEMMA IInvStep == IInv /\ [Next]_vars => IInv'
  <1> SUFFICES ASSUME IInv, [Next]_vars PROVE IInv'
    OBVIOUS
  <1>1. SoundsFine'
    BY SoundsStep DEF IInv, TypeOK, SoundsFine
  <1>2. PageFine'
    <2>0. PageFine
      BY DEF IInv, TypeOK, PageFine
    <2>1. ASSUME NEW k \in Keys, PostTick(k)
          PROVE  PageFine'
      BY <2>0, <2>1 DEF PostTick, PageFine, page, Players
    <2>2. ASSUME NEW k \in Keys, EditorTick(k)
          PROVE  PageFine'
      BY <2>0, <2>2, EditorPage
    <2>3. CASE OtherTick
      BY <2>0, <2>3 DEF OtherTick, NewEditor, PageFine, page, Players, Tabs
    <2>4. CASE Answer
      BY <2>0, <2>4 DEF Answer, PageFine
    <2>5. ASSUME NEW t \in Tunes, Elapse(t)
          PROVE  PageFine'
      BY <2>0, <2>5 DEF Elapse, PageFine, page
    <2>6. CASE UNCHANGED vars
      BY <2>0, <2>6 DEF vars, page, PageFine
    <2> QED
      BY <2>1, <2>2, <2>3, <2>4, <2>5, <2>6 DEF Next
  <1> QED
    BY <1>1, <1>2, PromptStep DEF IInv, TypeOK, SoundsFine, PageFine

(* The types of all variables, with what keeps sounds apart, are inductive.*)
THEOREM Invariant == Spec => []IInv
  BY InitIInv, IInvStep, PTL DEF Spec

(* Every variable of the two players stays in its type.                    *)
THEOREM TypeCorrect == Spec => []TypeOK
  <1>1. IInv => TypeOK
    BY DEF IInv
  <1> QED
    BY <1>1, Invariant, PTL

(* midi.stop never gives back a part of a sound that is not there.         *)
THEOREM Held == Spec => []PlayingIsHeld
  <1>1. IInv => PlayingIsHeld
    BY DEF IInv
  <1> QED
    BY <1>1, Invariant, PTL

(* Sounds are there as a whole, and can be stopped unless their page went. *)
THEOREM Owned == Spec => []HeldIsOwnedOrLost
  <1>1. IInv => HeldIsOwnedOrLost
    BY DEF IInv
  <1> QED
    BY <1>1, Invariant, PTL

(* The prompt to stop playing is there only while the editor plays.        *)
THEOREM Prompt == Spec => []PromptGoesWithMusic
  <1>1. IInv => PromptGoesWithMusic
    BY DEF IInv
  <1> QED
    BY <1>1, Invariant, PTL
=============================================================================

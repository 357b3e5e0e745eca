-------------------------- MODULE EditorBufferProofs -------------------------
(***************************************************************************)
(* Proofs about UndoHistory, Commands and their composition EditorBuffer,  *)
(* for any texts, lines, positions and bounds.  A text may have any number *)
(* of lines, so what its rows and the commands among them are is shown by  *)
(* induction over the lines.                                               *)
(***************************************************************************)
EXTENDS EditorBuffer, WellFoundedInduction, TLAPS

-----------------------------------------------------------------------------
(* UndoHistory: the current moment is one of the history.                  *)
IInv == TypeOK /\ CurrentIsSnapshot

LEMMA InitIInv == Init => IInv
  <1> SUFFICES ASSUME Init PROVE IInv
    OBVIOUS
  <1> DEFINE now == SnapshotOf(lines, Start)
  <1>1. lines \in Texts /\ cursor = Start /\ Start \in Cursors
    BY StartAssumption DEF Init
  <1>2. now \in Snapshot
    BY <1>1 DEF Snapshot, SnapshotOf
  <1>3. undoIndex = Len(history) /\ old = 0
    BY DEF Init
  <1>4. CASE history = <<now>>
    <2> HIDE DEF now
    <2>1. history \in Seq(Snapshot) /\ Len(history) = 1 /\ history[1] = now
      BY <1>2, <1>4
    <2> QED
      BY <1>1, <1>3, <2>1, SMT
      DEF IInv, TypeOK, CurrentIsSnapshot, now, SnapshotOf
  <1>5. ASSUME NEW blank \in Texts, history = <<SnapshotOf(blank, Start), now>>
        PROVE  IInv
    <2> DEFINE first == SnapshotOf(blank, Start)
    <2>1. first \in Snapshot
      BY <1>1 DEF Snapshot, SnapshotOf
    <2>2. history = <<first, now>>
      BY <1>5
    <2> HIDE DEF now, first
    <2>3. history \in Seq(Snapshot) /\ Len(history) = 2 /\ history[2] = now
      BY <1>2, <2>1, <2>2
    <2> QED
      BY <1>1, <1>3, <2>3, SMT
      DEF IInv, TypeOK, CurrentIsSnapshot, now, SnapshotOf
  <1> QED
    BY <1>4, <1>5 DEF Init

(* What a change leaves of the history: the moments before the new one.    *)
Truncated(t, c) ==
    /\ NewIndex \in {undoIndex, undoIndex + 1}
    /\ NewIndex \in Nat \ {0}
    /\ history' \in Seq(Snapshot)
    /\ Len(history') = NewIndex
    /\ history'[NewIndex] = SnapshotOf(t, c)
    /\ \A i \in 1..(NewIndex - 1) : history'[i] = history[i]

LEMMA ChangedHistory ==
  ASSUME IInv, NEW t \in Texts, NEW c \in Cursors, Change(t, c)
  PROVE  Truncated(t, c)
  <1> DEFINE kept == SubSeq(history, 1, NewIndex - 1)
  <1>1. NewIndex \in {undoIndex, undoIndex + 1} /\ NewIndex \in Nat \ {0}
    BY SMT DEF IInv, TypeOK, NewIndex
  <1>2. SnapshotOf(t, c) \in Snapshot
    BY DEF Snapshot, SnapshotOf
  <1>3. NewIndex - 1 \in 0..Len(history)
    BY <1>1, SMT DEF IInv, TypeOK
  <1>4. kept \in Seq(Snapshot) /\ Len(kept) = NewIndex - 1
    BY <1>1, <1>3, SMT DEF IInv, TypeOK
  <1>5. \A i \in 1..(NewIndex - 1) : kept[i] = history[i]
    BY <1>1, <1>3, SMT DEF IInv, TypeOK
  <1>6. history' = Append(kept, SnapshotOf(t, c))
    BY DEF Change
  <1> HIDE DEF kept
  <1> QED
    BY <1>1, <1>2, <1>4, <1>5, <1>6, SMT DEF IInv, TypeOK, Truncated

(* Restoring a neighbouring moment shows its lines; its cursor is left out *)
(* only if it has the lines shown already.                                 *)
LEMMA RestoredMoment ==
  ASSUME IInv, NEW i \in {undoIndex - 1, undoIndex + 1},
         i \in 1..Len(history), Restore(i)
  PROVE  IInv'
  <1>1. history[i] \in Snapshot
    BY DEF IInv, TypeOK
  <1>2. TypeOK'
    BY <1>1 DEF IInv, TypeOK, Restore, Snapshot
  <1>3. history[undoIndex].lines = lines
    BY DEF IInv, CurrentIsSnapshot
  <1>4. undoIndex' = i /\ history' = history /\ lines' = history[i].lines
    BY DEF Restore
  <1>5. CASE history[i].lines # lines
    <2>1. cursor' = history[i].cursor
      BY <1>5 DEF Restore
    <2> QED
      BY <1>2, <1>4, <2>1 DEF IInv, CurrentIsSnapshot
  <1>6. CASE history[i].lines = lines
    <2>1. undoIndex \in {i - 1, i + 1} /\ undoIndex \in 1..Len(history)
      BY SMT DEF IInv, TypeOK
    <2>2. undoIndex \in {undoIndex' - 1, undoIndex' + 1}
          /\ undoIndex \in 1..Len(history')
          /\ history'[undoIndex].lines = lines'
      BY <1>3, <1>4, <1>6, <2>1
    <2>3. history'[undoIndex'].lines = lines'
      BY <1>4
    <2> QED
      BY <1>2, <2>2, <2>3 DEF IInv, CurrentIsSnapshot
  <1> QED
    BY <1>5, <1>6

LEMMA IInvStep == IInv /\ [Next]_vars => IInv'
  <1> SUFFICES ASSUME IInv, [Next]_vars PROVE IInv'
    OBVIOUS
  <1>1. ASSUME NEW t \in Texts, NEW c \in Cursors, Change(t, c)
        PROVE  IInv'
    <2>0. Truncated(t, c)
      BY <1>1, ChangedHistory
    <2>1. old' \in 0..NewIndex
      BY <1>1, <2>0, SMT DEF Truncated, Change, IInv, TypeOK
    <2>2. TypeOK'
      BY <1>1, <2>0, <2>1, SMT DEF Truncated, Change, TypeOK
    <2>3. CurrentIsSnapshot'
      BY <1>1, <2>0 DEF Truncated, Change, CurrentIsSnapshot, SnapshotOf
    <2> QED
      BY <2>2, <2>3 DEF IInv
  <1>2. ASSUME NEW c \in Cursors, MoveCursor(c)
        PROVE  IInv'
    <2>1. history[undoIndex] \in Snapshot
      BY SMT DEF IInv, TypeOK
    <2>2. [history[undoIndex] EXCEPT !.cursor = c] = SnapshotOf(lines, c)
      BY <2>1 DEF IInv, CurrentIsSnapshot, SnapshotOf, Snapshot
    <2>3. history' = [history EXCEPT ![undoIndex] = SnapshotOf(lines, c)]
      BY <1>2, <2>2 DEF MoveCursor
    <2>4. SnapshotOf(lines, c) \in Snapshot
      BY DEF IInv, TypeOK, Snapshot, SnapshotOf
    <2>5. /\ history' \in Seq(Snapshot) /\ Len(history') = Len(history)
          /\ history'[undoIndex] = SnapshotOf(lines, c)
      BY <2>3, <2>4, SMT DEF IInv, TypeOK
    <2> QED
      BY <1>2, <2>5 DEF MoveCursor, IInv, TypeOK, CurrentIsSnapshot, SnapshotOf
  <1>3. CASE Undo
    <2>1. undoIndex - 1 \in 1..Len(history) /\ Restore(undoIndex - 1)
      BY <1>3, SMT DEF Undo, IInv, TypeOK
    <2> QED
      BY <2>1, RestoredMoment
  <1>4. CASE Redo
    <2>1. undoIndex + 1 \in 1..Len(history) /\ Restore(undoIndex + 1)
      BY <1>4, SMT DEF Redo, IInv, TypeOK
    <2> QED
      BY <2>1, RestoredMoment
  <1>5. CASE Elapse
    BY <1>5, SMT DEF Elapse, IInv, TypeOK, CurrentIsSnapshot
  <1>6. CASE UNCHANGED vars
    BY <1>6 DEF vars, IInv, TypeOK, CurrentIsSnapshot
  <1> QED
    BY <1>1, <1>2, <1>3, <1>4, <1>5, <1>6 DEF Next

(* The type invariant and the agreement of buffer and history together are *)
(* inductive.                                                              *)
THEOREM Invariant == Spec => []IInv
  BY InitIInv, IInvStep, PTL DEF Spec

(* The current moment is a moment of the history.                          *)
THEOREM TypeCorrect == Spec => []TypeOK
  <1>1. IInv => TypeOK
    BY DEF IInv
  <1> QED
    BY <1>1, Invariant, PTL

(* What the author sees is always the current moment of the history.       *)
THEOREM CurrentMoment == Spec => []CurrentIsSnapshot
  <1>1. IInv => CurrentIsSnapshot
    BY DEF IInv
  <1> QED
    BY <1>1, Invariant, PTL

(* A step leaves the lines of every moment alone that it does not replace: *)
(* the common part of the three action properties.                         *)
LEMMA OtherSteps ==
  ASSUME IInv, [Next]_vars,
         ~(\E t \in Texts, c \in Cursors : Change(t, c))
  PROVE  /\ Len(history') = Len(history)
         /\ \A i \in 1..Len(history) : history'[i].lines = history[i].lines
         /\ undoIndex' \in 1..Len(history)
         /\ lines' = history[undoIndex'].lines
  <1>0. lines = history[undoIndex].lines
    BY DEF IInv, CurrentIsSnapshot
  <1>1. ASSUME NEW c \in Cursors, MoveCursor(c)
        PROVE  /\ Len(history') = Len(history)
               /\ \A i \in 1..Len(history) : history'[i].lines = history[i].lines
    <2>1. \A i \in 1..Len(history) : history[i] \in Snapshot
      BY DEF IInv, TypeOK
    <2> QED
      BY <1>1, <2>1, SMT DEF MoveCursor, IInv, TypeOK, Snapshot
  <1>2. ASSUME NEW c \in Cursors, MoveCursor(c)
        PROVE  undoIndex' \in 1..Len(history) /\ lines' = history[undoIndex'].lines
    BY <1>2, <1>0 DEF MoveCursor, IInv, TypeOK
  <1>3. CASE Undo
    BY <1>3, SMT DEF Undo, Restore, IInv, TypeOK
  <1>4. CASE Redo
    BY <1>4, SMT DEF Redo, Restore, IInv, TypeOK
  <1>5. CASE Elapse
    BY <1>5, <1>0 DEF Elapse, IInv, TypeOK
  <1>6. CASE UNCHANGED vars
    BY <1>6, <1>0 DEF vars, IInv, TypeOK
  <1> QED
    BY <1>1, <1>2, <1>3, <1>4, <1>5, <1>6 DEF Next

(* The text the buffer was created with can always be undone to.           *)
THEOREM FirstText == Spec => FirstTextStays
  <1>1. IInv /\ [Next]_vars => [history'[1].lines = history[1].lines]_vars
    <2> SUFFICES ASSUME IInv, [Next]_vars
                 PROVE  history'[1].lines = history[1].lines
      OBVIOUS
    <2>1. ASSUME NEW t \in Texts, NEW c \in Cursors, Change(t, c)
          PROVE  history'[1].lines = history[1].lines
      <3>1. Truncated(t, c)
        BY <2>1, ChangedHistory
      <3>2. NewIndex - 1 >= 1
        BY SMT DEF NewIndex, IInv, TypeOK
      <3> QED
        BY <3>1, <3>2, SMT DEF Truncated
    <2>2. Len(history) >= 1
      BY SMT DEF IInv, TypeOK
    <2> QED
      BY <2>1, <2>2, OtherSteps, SMT DEF IInv, TypeOK
  <1> QED
    BY <1>1, Invariant, PTL DEF Spec, FirstTextStays

(* A text shown for longer than undoDelay is kept until it is undone.      *)
THEOREM SettledText == Spec => SettledTextStays
  <1> DEFINE Kept == \A i \in 1..undoIndex : i <= old =>
                        i <= Len(history') /\ history'[i].lines = history[i].lines
  <1>1. IInv /\ [Next]_vars => [Kept]_vars
    <2> SUFFICES ASSUME IInv, [Next]_vars,
                        NEW i \in 1..undoIndex, i <= old
                 PROVE  i <= Len(history') /\ history'[i].lines = history[i].lines
      OBVIOUS
    <2>1. ASSUME NEW t \in Texts, NEW c \in Cursors, Change(t, c)
          PROVE  i <= Len(history') /\ history'[i].lines = history[i].lines
      <3>1. Truncated(t, c)
        BY <2>1, ChangedHistory
      <3>2. i <= NewIndex - 1
        BY SMT DEF NewIndex, IInv, TypeOK
      <3> QED
        BY <3>1, <3>2, SMT DEF Truncated
    <2>2. i \in 1..Len(history)
      BY SMT DEF IInv, TypeOK
    <2> QED
      BY <2>1, <2>2, OtherSteps, SMT DEF IInv, TypeOK
  <1> QED
    BY <1>1, Invariant, PTL DEF Spec, SettledTextStays

(* A change after undo leaves nothing to redo.                             *)
THEOREM NothingToRedo == Spec => ChangeEndsRedo
  <1> DEFINE Ends == undoIndex' < Len(history') =>
                        undoIndex' <= Len(history) /\ lines' = history[undoIndex'].lines
  <1>1. IInv /\ [Next]_vars => [Ends]_vars
    <2> SUFFICES ASSUME IInv, [Next]_vars, undoIndex' < Len(history')
                 PROVE  undoIndex' <= Len(history) /\ lines' = history[undoIndex'].lines
      OBVIOUS
    <2>1. ASSUME NEW t \in Texts, NEW c \in Cursors, Change(t, c)
          PROVE  FALSE
      <3>1. Truncated(t, c)
        BY <2>1, ChangedHistory
      <3> QED
        BY <2>1, <3>1, SMT DEF Truncated, Change
    <2> QED
      BY <2>1, OtherSteps, SMT DEF IInv, TypeOK
  <1> QED
    BY <1>1, Invariant, PTL DEF Spec, ChangeEndsRedo

-----------------------------------------------------------------------------
(* Induction over the numbers, for a set: every set of numbers has a least *)
(* one.                                                                    *)
LEMMA LeastNumber ==
  ASSUME NEW T, T \subseteq Nat, T # {}
  PROVE  \E m \in T : \A n \in T : m <= n
  <1> DEFINE R == {ss \in Nat \X Nat : ss[1] < ss[2]}
  <1>1. IsWellFoundedOn(R, Nat)
    BY NatLessThanWellFounded DEF OpToRel
  <1> HIDE DEF R
  <1>2. PICK m \in T : \A n \in T : ~(<<n, m>> \in R)
    BY <1>1, WFMin, Zenon
  <1>3. \A n \in T : ~(n < m)
    BY <1>2 DEF R
  <1> QED
    BY <1>3

LEMMA SetInduction ==
  ASSUME NEW S, 0 \in S, \A n \in Nat : n \in S => n + 1 \in S
  PROVE  Nat \subseteq S
  <1> SUFFICES ASSUME Nat \ S # {} PROVE FALSE
    OBVIOUS
  <1>1. PICK m \in Nat \ S : \A n \in Nat \ S : m <= n
    BY LeastNumber
  <1>2. m - 1 \in Nat /\ m - 1 \in S
    BY <1>1
  <1> QED
    BY <1>1, <1>2

(* f is what is got from x by the functions of h, one after another.       *)
Iterates(f, x, h, n) == f[0] = x /\ \A i \in 1..n : f[i] = h[i][f[i - 1]]

LEMMA Recursion ==
  ASSUME NEW n \in Nat, NEW D, NEW x \in D, NEW h \in [1..n -> [D -> D]]
  PROVE  \E f \in [0..n -> D] : Iterates(f, x, h, n)
  <1> DEFINE Defined(k) == \E f \in [0..k -> D] :
                              f[0] = x /\ \A i \in 1..k : f[i] = h[i][f[i - 1]]
             S == {k \in Nat : k <= n => Defined(k)}
  <1>1. Defined(0)
    <2> DEFINE f == [i \in 0..0 |-> x]
    <2>1. f \in [0..0 -> D] /\ f[0] = x
      OBVIOUS
    <2>2. \A i \in 1..0 : f[i] = h[i][f[i - 1]]
      OBVIOUS
    <2> HIDE DEF f
    <2> QED
      BY <2>1, <2>2
  <1>2. ASSUME NEW k \in Nat, Defined(k), k + 1 <= n PROVE Defined(k + 1)
    <2>1. PICK f \in [0..k -> D] : f[0] = x /\ \A i \in 1..k : f[i] = h[i][f[i - 1]]
      BY <1>2
    <2> DEFINE g == [i \in 0..(k + 1) |-> IF i = k + 1 THEN h[k + 1][f[k]] ELSE f[i]]
    <2>2. h[k + 1][f[k]] \in D
      BY <1>2
    <2>3. g \in [0..(k + 1) -> D]
      BY <2>1, <2>2
    <2>4. g[0] = x /\ \A i \in 1..(k + 1) : g[i] = h[i][g[i - 1]]
      BY <2>1
    <2> HIDE DEF g
    <2> QED
      BY <2>3, <2>4
  <1> HIDE DEF Defined
  <1>5. 0 \in S /\ \A k \in Nat : k \in S => k + 1 \in S
    BY <1>1, <1>2
  <1> HIDE DEF S
  <1>3. Nat \subseteq S
    BY <1>5, SetInduction
  <1>4. Defined(n)
    BY <1>3 DEF S
  <1> QED
    BY <1>4 DEF Defined, Iterates

LEMMA Recursive ==
  ASSUME NEW n \in Nat, NEW D, NEW f, f[0] \in D,
         \A i \in 1..n : f[i - 1] \in D => f[i] \in D
  PROVE  \A i \in 0..n : f[i] \in D
  <1> DEFINE S == {k \in Nat : k <= n => f[k] \in D}
  <1>1. 0 \in S
    OBVIOUS
  <1>2. \A k \in Nat : k \in S => k + 1 \in S
    <2> SUFFICES ASSUME NEW k \in Nat, k \in S, k + 1 <= n PROVE f[k + 1] \in D
      OBVIOUS
    <2>1. k + 1 \in 1..n /\ k + 1 - 1 = k
      OBVIOUS
    <2> QED
      BY <2>1
  <1> HIDE DEF S
  <1>3. Nat \subseteq S
    BY <1>1, <1>2, SetInduction
  <1> QED
    BY <1>3 DEF S


-----------------------------------------------------------------------------
(* The rows of a text are known: whatever its lines, one after another.    *)
LEMMA FlatRows ==
  ASSUME NEW D, NEW s \in Seq(Seq(D))
  PROVE  C!FlattenSeq(s) \in Seq(D)
  <1> DEFINE n == Len(s)
             T == Seq(D)
             After(r, i) == r \o s[i]
             Def(f) == [i \in 1..n |-> IF i = 1 THEN s[i] ELSE After(f[i - 1], i)]
             h == [i \in 1..(n - 1) |-> [r \in T |-> After(r, i + 1)]]
  <1>1. n \in Nat /\ \A i \in 1..n : s[i] \in T /\ \A r \in T : After(r, i) \in T
    OBVIOUS
  <1>2. CASE n = 0
    <2>1. s = <<>>
      BY <1>2
    <2> QED
      BY <1>2, <2>1 DEF C!FlattenSeq
  <1>3. CASE n > 0
    <2>0. C!FlattenSeq(s) = (CHOOSE f : f = Def(f))[n]
      BY <1>3 DEF C!FlattenSeq
    <2> HIDE DEF After, T, n
    <2>1. s[1] \in T /\ h \in [1..(n - 1) -> [T -> T]] /\ n - 1 \in Nat
      BY <1>1, <1>3
    <2>2. \A i \in 1..(n - 1), r \in T : h[i][r] = After(r, i + 1)
      OBVIOUS
    <2> HIDE DEF h
    <2>3. PICK f \in [0..(n - 1) -> T] : Iterates(f, s[1], h, n - 1)
      BY <2>1, Recursion, Zenon
    <2>4. f[0] = s[1] /\ \A i \in 1..(n - 1) : f[i] = After(f[i - 1], i + 1)
      <3>1. f[0] = s[1] /\ \A i \in 1..(n - 1) : f[i] = h[i][f[i - 1]]
        BY <2>3 DEF Iterates
      <3>2. \A i \in 1..(n - 1) : f[i - 1] \in T
        BY <2>1
      <3> QED
        BY <2>2, <3>1, <3>2, Zenon
    <2> DEFINE e == [i \in 1..n |-> f[i - 1]]
    <2>5. \A i \in 1..n : i # 1 => e[i] = After(e[i - 1], i)
      <3> SUFFICES ASSUME NEW i \in 1..n, i # 1 PROVE f[i - 1] = After(f[i - 1 - 1], i)
        BY <1>1
      <3>1. i - 1 \in 1..(n - 1) /\ i - 1 + 1 = i
        BY <1>1
      <3> QED
        BY <2>4, <3>1
    <2>6. e = Def(e)
      <3>1. 1 \in 1..n /\ e[1] = s[1]
        BY <1>1, <1>3, <2>4
      <3> HIDE DEF e
      <3>2. \A i \in 1..n : e[i] = IF i = 1 THEN s[i] ELSE After(e[i - 1], i)
        BY <2>5, <3>1
      <3>3. e = [i \in 1..n |-> e[i]]
        BY DEF e
      <3> QED
        BY <3>2, <3>3
    <2> DEFINE g == CHOOSE g : g = Def(g)
    <2>7. g = Def(g)
      <3> HIDE DEF Def
      <3> QED
        BY <2>6
    <2> HIDE DEF g, e
    <2>8. \A i \in 1..n : g[i] = IF i = 1 THEN s[i] ELSE After(g[i - 1], i)
      BY <2>7
    <2> DEFINE p == [i \in 0..(n - 1) |-> g[i + 1]]
    <2>9. p[0] \in T
      BY <1>1, <1>3, <2>8
    <2>10. \A i \in 1..(n - 1) : p[i - 1] \in T => p[i] \in T
      <3> SUFFICES ASSUME NEW i \in 1..(n - 1), g[i] \in T PROVE g[i + 1] \in T
        BY <1>1
      <3>1. i + 1 \in 1..n /\ i + 1 # 1 /\ i + 1 - 1 = i
        BY <1>1
      <3> QED
        BY <1>1, <2>8, <3>1
    <2>11. p[n - 1] = g[n] /\ n - 1 \in 0..(n - 1)
      BY <1>1, <1>3
    <2> HIDE DEF p
    <2>12. \A i \in 0..(n - 1) : p[i] \in T
      BY <2>1, <2>9, <2>10, Recursive, Zenon
    <2> QED
      BY <2>0, <2>11, <2>12 DEF g, T
  <1> QED
    BY <1>1, <1>2, <1>3

LEMMA RowsAreKinds ==
  ASSUME NEW t \in Seq(C!Kinds)
  PROVE  C!RowsOf(t) \in Seq(C!Kinds)
  <1> DEFINE s == [n \in 1..Len(t) |-> C!RowsOfLine(t[n])]
  <1>1. ASSUME NEW n \in 1..Len(t) PROVE C!RowsOfLine(t[n]) \in Seq(C!Kinds)
    <2> DEFINE kind == t[n]
               T == C!Kinds
    <2>1. kind \in T
      OBVIOUS
    <2>2. "text" \in T
      BY DEF C!Kinds
    <2> HIDE DEF kind, T
    <2>3. <<"text", "text">> \in Seq(T) /\ <<kind>> \in Seq(T)
      BY <2>1, <2>2
    <2> QED
      BY <2>3 DEF C!RowsOfLine, kind, T
  <1>2. s \in Seq(Seq(C!Kinds))
    BY <1>1
  <1> HIDE DEF s
  <1>3. C!FlattenSeq(s) \in Seq(C!Kinds)
    BY <1>2, FlatRows
  <1> QED
    BY <1>3 DEF C!RowsOf, s

(* A list of rows has those, and no others.                                *)
RowsIn(t, kinds) == {r \in 1..Len(C!RowsOf(t)) : C!RowsOf(t)[r] \in kinds}
Has(list, r) == \E i \in 1..Len(list) : list[i] = r
Lists(list, rows) == list \in Seq(rows) /\ \A r \in rows : Has(list, r)

LEMMA RowsWithKinds ==
  ASSUME NEW t, C!RowsOf(t) \in Seq(C!Kinds), NEW kinds
  PROVE  Lists(C!RowsWith(t, kinds), RowsIn(t, kinds))
  <1> DEFINE n == Len(C!RowsOf(t))
             rows == RowsIn(t, kinds)
             D == Seq(rows)
             e == <<>>
             In(i) == C!RowsOf(t)[i] \in kinds
             Step(s, i) == IF In(i) THEN Append(s, i) ELSE s
             h == [i \in 1..n |-> [s \in D |-> Step(s, i)]]
             Def(f) == [i \in 0..n |-> IF i = 0 THEN e ELSE Step(f[i - 1], i)]
  <1>1. n \in Nat /\ e \in D /\ e = <<>> /\ \A i \in 1..n : In(i) <=> i \in rows
    BY DEF RowsIn
  <1>0. C!RowsWith(t, kinds) = (CHOOSE f : f = Def(f))[n]
    BY DEF C!RowsWith
  <1>14. \A r \in rows : r \in 1..n
    BY DEF RowsIn
  <1> HIDE DEF n, In, e, rows
  <1>2. \A i \in 1..n, s \in D : Step(s, i) \in D
    BY <1>1
  <1>3. h \in [1..n -> [D -> D]] /\ \A i \in 1..n, s \in D : h[i][s] = Step(s, i)
    <2> HIDE DEF Step, D
    <2> QED
      BY <1>2
  <1> HIDE DEF D, Step, h
  <1>4. PICK f \in [0..n -> D] : Iterates(f, e, h, n)
    <2>1. e \in D /\ h \in [1..n -> [D -> D]] /\ n \in Nat
      BY <1>1, <1>3
    <2> QED
      BY <2>1, Recursion, Zenon
  <1>5. f[0] = e /\ \A i \in 1..n : f[i] = Step(f[i - 1], i)
    BY <1>1, <1>3, <1>4 DEF Iterates
  <1>6. f = Def(f)
    BY <1>1, <1>5
  <1> DEFINE g == CHOOSE g : g = Def(g)
  <1>7. g = Def(g)
    <2> HIDE DEF Def
    <2> QED
      BY <1>6
  <1> HIDE DEF g
  <1>8. g[0] = e /\ \A i \in 1..n : g[i] = Step(g[i - 1], i)
    BY <1>1, <1>7
  <1> DEFINE HasTo(s, i) == \A r \in rows : r <= i => Has(s, r)
             S == {i \in Nat : i <= n => g[i] \in D /\ HasTo(g[i], i)}
  <1>9. 0 \in S
    <2>1. \A r \in rows : ~(r <= 0)
      BY <1>14, <1>1
    <2> QED
      BY <1>1, <1>8, <2>1
  <1>10. \A i \in Nat : i \in S => i + 1 \in S
    <2> SUFFICES ASSUME NEW i \in Nat, i + 1 <= n, g[i] \in D, HasTo(g[i], i)
                 PROVE  g[i + 1] \in D /\ HasTo(g[i + 1], i + 1)
      BY <1>1
    <2>1. i + 1 \in 1..n /\ g[i + 1] = Step(g[i], i + 1)
      BY <1>1, <1>8
    <2>2. g[i + 1] \in D
      BY <1>2, <2>1
    <2>3. CASE In(i + 1)
      <3>1. g[i + 1] = Append(g[i], i + 1)
        BY <2>1, <2>3 DEF Step
      <3>2. g[i] \in Seq(rows) /\ i + 1 \in rows
        BY <1>1, <2>1, <2>3 DEF D
      <3>3. /\ Len(g[i + 1]) = Len(g[i]) + 1 /\ g[i + 1][Len(g[i]) + 1] = i + 1
            /\ \A j \in 1..Len(g[i]) : g[i + 1][j] = g[i][j]
            /\ Len(g[i]) \in Nat
        BY <3>1, <3>2
      <3>4. HasTo(g[i + 1], i + 1)
        <4> SUFFICES ASSUME NEW r \in rows, r <= i + 1
                     PROVE  \E j \in 1..Len(g[i + 1]) : g[i + 1][j] = r
          BY DEF Has
        <4>1. CASE r = i + 1
          <5>1. Len(g[i]) + 1 \in 1..Len(g[i + 1])
            BY <3>3
          <5> QED
            BY <3>3, <4>1, <5>1
        <4>2. CASE r # i + 1
          <5>1. r <= i
            BY <1>1, <1>14, <4>2
          <5>2. PICK j \in 1..Len(g[i]) : g[i][j] = r
            BY <5>1 DEF Has
          <5>3. j \in 1..Len(g[i + 1]) /\ g[i + 1][j] = r
            BY <3>3, <5>2
          <5> QED
            BY <5>3
        <4> QED
          BY <4>1, <4>2
      <3> QED
        BY <2>2, <3>4
    <2>4. CASE ~In(i + 1)
      <3>1. g[i + 1] = g[i] /\ i + 1 \notin rows
        BY <1>1, <2>1, <2>4 DEF Step
      <3>2. \A r \in rows : r <= i + 1 => r <= i
        BY <1>1, <1>14, <3>1
      <3> QED
        BY <2>2, <3>1, <3>2
    <2> QED
      BY <2>3, <2>4
  <1> HIDE DEF S
  <1>11. n \in S
    BY <1>1, <1>9, <1>10, SetInduction
  <1>12. g[n] \in D /\ HasTo(g[n], n)
    BY <1>1, <1>11 DEF S
  <1>13. \A r \in rows : r <= n
    BY <1>1, <1>14
  <1> QED
    BY <1>0, <1>12, <1>13 DEF g, D, Lists, rows

-----------------------------------------------------------------------------
(* The commands, errors and links of a text: what the properties need of   *)
(* them between two parses.                                                *)
Rows == C!RowsOf(Content[lines])
RowsThat(kinds) == RowsIn(Content[lines], kinds)

Link == [icon: {"none", "play", "error"}, error: Nat]
FailsAt(r) == Rows[r] = "fails"

ListsTyped ==
    /\ Rows \in Seq(C!Kinds)
    /\ cmds \in Seq(RowsThat({"plays", "fails"}))
    /\ errs \in Seq(RowsThat({"wrong", "fails"}))
    /\ links \in [1..Len(Rows) -> Link]
    /\ moved \in BOOLEAN

Remembered == \A r \in RowsThat({"plays", "fails"}) : Has(cmds, r) \/ Has(errs, r)

Linked ==
    /\ \A i \in 1..Len(errs) : links[errs[i]].icon = "error"
    /\ \A r \in 1..Len(Rows) : links[r].icon = "error" => links[r].error \in 1..Len(errs)

(* As long as no error moves, every link keeps to its own.  One that is    *)
(* first and came up when a command was played is the only one, unless two *)
(* commands fail; so it never moves past others.                           *)
LinkedToOwn ==
    /\ ~moved =>
          \A r \in 1..Len(Rows) : links[r].icon = "error" => errs[links[r].error] = r
    /\ Len(C!RowsWith(Content[lines], {"fails"})) <= 1 =>
          ~moved /\ (errs # <<>> /\ FailsAt(errs[1]) => Len(errs) = 1)

CommandsInv == ListsTyped /\ Remembered /\ Linked /\ LinkedToOwn

LEMMA RowThat ==
  ASSUME NEW kinds, NEW r
  PROVE  r \in RowsThat(kinds) <=> r \in 1..Len(Rows) /\ Rows[r] \in kinds
  BY DEF RowsThat, RowsIn, Rows

(* What is parsed, of every text.                                          *)
JustParsed ==
    /\ lines \in Texts
    /\ cmds = C!Commands(Content[lines])
    /\ errs = C!Mistakes(Content[lines])
    /\ links = C!LinksOf(Content[lines])
    /\ moved = FALSE

LEMMA Parsed == JustParsed => CommandsInv
  <1> SUFFICES ASSUME lines \in Texts,
                      cmds = C!Commands(Content[lines]), errs = C!Mistakes(Content[lines]),
                      links = C!LinksOf(Content[lines]), moved = FALSE
               PROVE  CommandsInv
    BY DEF JustParsed
  <1> DEFINE t == Content[lines]
  <1>1. t \in Seq(C!Kinds)
    BY ContentAssumption
  <1>2. Rows \in Seq(C!Kinds) /\ C!RowsOf(t) = Rows
    BY <1>1, RowsAreKinds DEF Rows
  <1>3. ASSUME NEW kinds
        PROVE  /\ C!RowsWith(t, kinds) \in Seq(RowsThat(kinds))
               /\ \A r \in RowsThat(kinds) : Has(C!RowsWith(t, kinds), r)
    BY <1>2, RowsWithKinds DEF RowsThat, Rows, Lists
  <1>4. cmds = C!RowsWith(t, {"plays", "fails"}) /\ errs = C!RowsWith(t, {"wrong"})
    BY DEF C!Commands, C!Mistakes
  <1>5. /\ cmds \in Seq(RowsThat({"plays", "fails"}))
        /\ \A r \in RowsThat({"plays", "fails"}) : Has(cmds, r)
    BY <1>3, <1>4
  <1>6. /\ errs \in Seq(RowsThat({"wrong"}))
        /\ \A r \in RowsThat({"wrong"}) : Has(errs, r)
    BY <1>3, <1>4
  <1>7. errs \in Seq(RowsThat({"wrong", "fails"}))
    <2>1. \A i \in 1..Len(errs) : errs[i] \in RowsThat({"wrong", "fails"})
      BY <1>6, RowThat
    <2> QED
      BY <1>6, <2>1
  <1> DEFINE IndexOf(r) == CHOOSE i \in 1..Len(errs) : errs[i] = r
  <1>8. links = [r \in 1..Len(Rows) |->
                    IF Rows[r] = "text"       THEN C!NoLink
                    ELSE IF Rows[r] = "wrong" THEN C!ErrorLink(IndexOf(r))
                    ELSE C!PlayLink]
    BY <1>2 DEF C!LinksOf
  <1>9. \A r \in RowsThat({"wrong"}) : IndexOf(r) \in 1..Len(errs) /\ errs[IndexOf(r)] = r
    BY <1>6 DEF Has
  <1> HIDE DEF IndexOf
  <1>10. \A r \in 1..Len(Rows) : Rows[r] = "wrong" =>
            links[r].icon = "error" /\ links[r].error = IndexOf(r) /\ links[r] \in Link
    BY <1>8, <1>9, RowThat DEF C!ErrorLink, Link
  <1>11. \A r \in 1..Len(Rows) : Rows[r] # "wrong" => links[r].icon # "error" /\ links[r] \in Link
    BY <1>8 DEF C!NoLink, C!PlayLink, Link
  <1>12. links \in [1..Len(Rows) -> Link]
    BY <1>8, <1>10, <1>11
  <1>13. Linked
    <2>1. \A i \in 1..Len(errs) : errs[i] \in RowsThat({"wrong"})
      BY <1>6
    <2>2. \A i \in 1..Len(errs) : links[errs[i]].icon = "error"
      BY <1>10, <2>1, RowThat
    <2>3. \A r \in 1..Len(Rows) : links[r].icon = "error" => links[r].error \in 1..Len(errs)
      BY <1>9, <1>10, <1>11, RowThat
    <2> QED
      BY <2>2, <2>3 DEF Linked
  <1>14. LinkedToOwn
    <2>1. \A i \in 1..Len(errs) : errs[i] \in RowsThat({"wrong"})
      BY <1>6
    <2>2. \A i \in 1..Len(errs) : ~FailsAt(errs[i])
      BY <2>1, RowThat DEF FailsAt
    <2>3. errs # <<>> => 1 \in 1..Len(errs)
      BY <1>6
    <2>4. \A r \in 1..Len(Rows) : links[r].icon = "error" => errs[links[r].error] = r
      BY <1>9, <1>10, <1>11, RowThat
    <2> QED
      BY <2>2, <2>3, <2>4 DEF LinkedToOwn
  <1> QED
    BY <1>2, <1>5, <1>7, <1>12, <1>13, <1>14 DEF CommandsInv, ListsTyped, Remembered

(* What is taken out is the first, and only if it is the one meant.        *)
LEMMA TakenOut ==
  ASSUME NEW S, NEW s \in Seq(S), NEW row
  PROVE  /\ C!Without(s, row) \in Seq(S)
         /\ \A r \in S : r # row /\ Has(s, r) => Has(C!Without(s, row), r)
         /\ IF s # <<>> /\ s[1] = row
            THEN /\ Len(C!Without(s, row)) = Len(s) - 1 /\ Len(s) > 0
                 /\ \A i \in 1..(Len(s) - 1) : C!Without(s, row)[i] = s[i + 1]
            ELSE C!Without(s, row) = s
  <1>1. CASE s # <<>> /\ s[1] = row
    <2>1. C!Without(s, row) = Tail(s)
      BY <1>1 DEF C!Without
    <2>2. /\ Tail(s) \in Seq(S) /\ Len(Tail(s)) = Len(s) - 1 /\ Len(s) \in Nat \ {0}
          /\ \A i \in 1..(Len(s) - 1) : Tail(s)[i] = s[i + 1]
      BY <1>1
    <2>3. ASSUME NEW r \in S, r # row, Has(s, r) PROVE Has(Tail(s), r)
      <3>1. PICK i \in 1..Len(s) : s[i] = r
        BY <2>3 DEF Has
      <3>2. i - 1 \in 1..Len(Tail(s)) /\ Tail(s)[i - 1] = r
        BY <1>1, <2>2, <2>3, <3>1
      <3> QED
        BY <3>2 DEF Has
    <2> QED
      BY <1>1, <2>1, <2>2, <2>3
  <1>2. CASE ~(s # <<>> /\ s[1] = row)
    BY <1>2 DEF C!Without
  <1> QED
    BY <1>1, <1>2

(* A command that fails when it is played is listed last, and its link     *)
(* leads there.                                                            *)
LEMMA RuntimeError ==
  ASSUME CommandsInv, NEW row \in RowsThat({"fails"}), C!SetRuntimeError(row), UNCHANGED lines
  PROVE  CommandsInv'
  <1> DEFINE Playable == RowsThat({"plays", "fails"})
             Bad == RowsThat({"wrong", "fails"})
             rest == C!Without(errs, row)
             n == Len(Rows)
  <1>1. row \in Playable /\ row \in Bad /\ row \in 1..n /\ FailsAt(row)
    BY RowThat DEF FailsAt
  <1>2. /\ cmds \in Seq(Playable) /\ errs \in Seq(Bad) /\ links \in [1..n -> Link]
        /\ Bad \subseteq 1..n
    BY RowThat DEF CommandsInv, ListsTyped
  <1>3. /\ Rows' = Rows /\ \A kinds : RowsThat(kinds)' = RowsThat(kinds)
        /\ \A r : FailsAt(r)' <=> FailsAt(r)
    BY DEF Rows, RowsThat, RowsIn, FailsAt
  <1>4. /\ cmds' = C!Without(cmds, row) /\ errs' = Append(rest, row)
        /\ links' = [links EXCEPT ![row] = C!ErrorLink(Len(rest) + 1)]
    BY DEF C!SetRuntimeError, C!LinkToError
  <1>0. /\ moved' \in BOOLEAN
        /\ moved' <=> moved \/ (Len(errs) > 1 /\ Head(errs) = row)
    BY Zenon DEF C!SetRuntimeError
  <1> HIDE DEF Playable, Bad, n
  <1>5. cmds' \in Seq(Playable) /\ \A r \in Playable : r # row /\ Has(cmds, r) => Has(cmds', r)
    BY <1>2, <1>4, TakenOut
  <1>6. rest \in Seq(Bad) /\ \A r \in Bad : r # row /\ Has(errs, r) => Has(rest, r)
    BY <1>2, TakenOut
  <1>7. /\ errs # <<>> /\ errs[1] = row =>
              /\ Len(rest) = Len(errs) - 1 /\ Len(errs) > 0
              /\ \A i \in 1..(Len(errs) - 1) : rest[i] = errs[i + 1]
        /\ ~(errs # <<>> /\ errs[1] = row) => rest = errs
    BY <1>2, TakenOut
  <1> HIDE DEF rest
  <1>8. /\ errs' \in Seq(Bad) /\ Len(errs') = Len(rest) + 1 /\ errs'[Len(rest) + 1] = row
        /\ \A i \in 1..Len(rest) : errs'[i] = rest[i]
        /\ Len(rest) \in Nat /\ Len(errs) \in Nat /\ Len(errs') >= Len(errs)
    BY <1>1, <1>2, <1>4, <1>6, <1>7
  <1>9. /\ links' \in [1..n -> Link] /\ links'[row].icon = "error"
        /\ links'[row].error = Len(rest) + 1
        /\ \A r \in 1..n : r # row => links'[r] = links[r]
    BY <1>1, <1>2, <1>4, <1>8 DEF C!ErrorLink, Link
  <1>10. ListsTyped'
    BY <1>0, <1>3, <1>5, <1>8, <1>9 DEF ListsTyped, CommandsInv, Playable, Bad, n
  <1>11. Remembered'
    <2>1. Has(errs', row)
      BY <1>8 DEF Has
    <2>2. \A r : Has(rest, r) => Has(errs', r)
      BY <1>8 DEF Has
    <2>3. ASSUME NEW r \in Playable, r # row PROVE Has(cmds', r) \/ Has(errs', r)
      <3>1. CASE Has(cmds, r)
        BY <1>5, <2>3, <3>1
      <3>2. CASE Has(errs, r)
        <4>1. r \in Bad
          BY <1>2, <3>2 DEF Has
        <4> QED
          BY <1>6, <2>2, <2>3, <3>2, <4>1
      <3> QED
        BY <3>1, <3>2 DEF CommandsInv, Remembered, Playable
    <2>4. \A r \in Playable : Has(cmds', r) \/ Has(errs', r)
      BY <2>1, <2>3
    <2>5. (Remembered)' <=> \A r \in RowsThat({"plays", "fails"})' : Has(cmds', r) \/ Has(errs', r)
      BY DEF Remembered, Has
    <2> QED
      BY <1>3, <2>4, <2>5 DEF Playable
  <1>12. \A i \in 1..Len(rest) : \E j \in 1..Len(errs) : rest[i] = errs[j]
    BY <1>7, <1>8
  <1>13. Linked'
    <2>1. ASSUME NEW i \in 1..Len(errs') PROVE links'[errs'[i]].icon = "error"
      <3>1. CASE i \in 1..Len(rest)
        <4>1. PICK j \in 1..Len(errs) : errs'[i] = errs[j]
          BY <1>8, <1>12, <3>1
        <4>2. links[errs[j]].icon = "error"
          BY DEF CommandsInv, Linked
        <4>3. errs[j] \in Bad
          BY <1>2
        <4> QED
          BY <1>2, <1>9, <4>1, <4>2, <4>3
      <3> QED
        BY <1>8, <1>9, <3>1
    <2>2. ASSUME NEW r \in 1..n, links'[r].icon = "error" PROVE links'[r].error \in 1..Len(errs')
      <3>1. CASE r = row
        BY <1>8, <1>9, <3>1
      <3>2. CASE r # row
        <4>1. links[r].error \in 1..Len(errs)
          BY <1>9, <2>2, <3>2 DEF CommandsInv, Linked, n
        <4> QED
          BY <1>8, <1>9, <3>2, <4>1
      <3> QED
        BY <3>1, <3>2
    <2> QED
      BY <1>3, <2>1, <2>2 DEF Linked, n
  <1>14. LinkedToOwn'
    <2> DEFINE Own == \A r \in 1..n : links'[r].icon = "error" => errs'[links'[r].error] = r
               Few == Len(C!RowsWith(Content[lines], {"fails"})) <= 1
    <2>1. moved' <=> moved \/ (Len(errs) > 1 /\ errs[1] = row)
      BY <1>0, <1>2
    <2>2. Len(errs) > 0 <=> errs # <<>>
      BY <1>2
    <2>3. ASSUME ~moved' PROVE Own
      <3>1. /\ \A r \in 1..n : links[r].icon = "error" => errs[links[r].error] = r
            /\ \A r \in 1..n : links[r].icon = "error" => links[r].error \in 1..Len(errs)
        BY <2>1, <2>3 DEF CommandsInv, LinkedToOwn, Linked, n
      <3>2. CASE errs # <<>> /\ errs[1] = row
        <4>1. Len(errs) = 1 /\ Len(rest) = 0
          BY <1>7, <1>8, <2>1, <2>3, <3>2
        <4>2. \A r \in 1..n : r # row => links[r].icon # "error"
          BY <3>1, <3>2, <4>1
        <4> QED
          BY <1>8, <1>9, <4>1, <4>2
      <3>3. CASE ~(errs # <<>> /\ errs[1] = row)
        <4>1. rest = errs
          BY <1>7, <3>3
        <4> QED
          BY <1>8, <1>9, <3>1, <4>1
      <3> QED
        BY <3>2, <3>3
    <2>4. ASSUME Few
          PROVE  ~moved' /\ (errs' # <<>> /\ FailsAt(errs'[1]) => Len(errs') = 1)
      <3>1. ~moved /\ (errs # <<>> /\ FailsAt(errs[1]) => Len(errs) = 1)
        BY <2>4 DEF CommandsInv, LinkedToOwn
      <3>2. \A r \in RowsThat({"fails"}) : r = row
        <4>1. Rows \in Seq(C!Kinds)
          BY DEF CommandsInv, ListsTyped
        <4> DEFINE one == C!RowsWith(Content[lines], {"fails"})
        <4>2. one \in Seq(RowsThat({"fails"})) /\ \A r \in RowsThat({"fails"}) : Has(one, r)
          BY <4>1, RowsWithKinds DEF RowsThat, Rows, Lists
        <4>3. Len(one) \in Nat /\ \A r \in RowsThat({"fails"}) : one[1] = r
          BY <2>4, <4>2 DEF Has
        <4> QED
          BY <4>3
      <3>3. CASE errs # <<>> /\ errs[1] = row
        <4>1. Len(errs) = 1
          BY <1>1, <3>1, <3>3
        <4> QED
          BY <1>7, <1>8, <2>1, <3>1, <3>3, <4>1
      <3>4. CASE errs = <<>>
        BY <1>7, <1>8, <2>1, <2>2, <3>1, <3>4
      <3>5. CASE errs # <<>> /\ errs[1] # row
        <4>1. 1 \in 1..Len(errs) /\ errs[1] \in Bad
          BY <1>2, <2>2, <3>5
        <4>2. ~FailsAt(errs[1])
          BY <3>2, <3>5, <4>1, RowThat DEF FailsAt, Bad
        <4>3. errs'[1] = errs[1]
          BY <1>7, <1>8, <3>5, <4>1
        <4> QED
          BY <2>1, <3>1, <3>5, <4>2, <4>3
      <3> QED
        BY <3>3, <3>4, <3>5
    <2> QED
      BY <1>3, <2>3, <2>4 DEF LinkedToOwn, n
  <1> QED
    BY <1>10, <1>11, <1>13, <1>14 DEF CommandsInv

-----------------------------------------------------------------------------
(* The whole buffer: its history is an undo history, whatever else it does.*)
LEMMA BufferStep == [BufferNext]_bvars => [Next]_vars
  <1> SUFFICES ASSUME [BufferNext]_bvars PROVE [Next]_vars
    OBVIOUS
  <1>1. CASE Type
    BY <1>1 DEF Type, Next
  <1>2. CASE Move
    BY <1>2 DEF Move, Next
  <1>3. CASE UndoOrRedo
    BY <1>3 DEF UndoOrRedo, Next
  <1>4. CASE TimePasses
    BY <1>4 DEF TimePasses, Next
  <1>5. CASE PlayOrSee
    BY <1>5 DEF PlayOrSee
  <1>6. CASE UNCHANGED bvars
    BY <1>6 DEF bvars
  <1> QED
    BY <1>1, <1>2, <1>3, <1>4, <1>5, <1>6 DEF BufferNext

(* A buffer does to its history what UndoHistory says, whatever is typed,  *)
(* played, undone and redone.                                              *)
THEOREM BufferHasHistory == BufferSpec => Spec
  <1>1. BufferInit => Init
    BY DEF BufferInit
  <1> QED
    BY <1>1, BufferStep, PTL DEF BufferSpec, Spec

LEMMA CommandsInvInit == BufferInit => CommandsInv
  <1>1. BufferInit => JustParsed
    BY DEF BufferInit, Init, JustParsed
  <1> QED
    BY <1>1, Parsed

LEMMA CommandsInvStep == IInv /\ CommandsInv /\ [BufferNext]_bvars => CommandsInv'
  <1> SUFFICES ASSUME IInv, CommandsInv, [BufferNext]_bvars PROVE CommandsInv'
    OBVIOUS
  <1>1. lines' \in Texts
    BY BufferStep, IInvStep DEF IInv, TypeOK
  <1>2. JustParsed' => CommandsInv'
    BY Parsed, PTL
  <1>3. ASSUME UNCHANGED <<lines, cmds, errs, links, moved>> PROVE CommandsInv'
    <2>1. /\ Rows' = Rows /\ (\A kinds : RowsThat(kinds)' = RowsThat(kinds))
      BY <1>3 DEF Rows, RowsThat
    <2> QED
      BY <1>3, <2>1 DEF CommandsInv, ListsTyped, Remembered, Linked, LinkedToOwn, FailsAt, Has
  <1>4. ASSUME ParseLines PROVE CommandsInv'
    <2>1. CASE lines' # lines
      BY <1>1, <1>2, <1>4, <2>1 DEF ParseLines, C!Parse, JustParsed
    <2> QED
      BY <1>3, <1>4, <2>1 DEF ParseLines
  <1>5. CASE PlayOrSee
    <2>1. UNCHANGED lines
      BY <1>5 DEF PlayOrSee, vars
    <2>2. ASSUME NEW row \in DOMAIN links, C!PlayLine(row) PROVE CommandsInv'
      <3>1. row \in 1..Len(Rows)
        BY <2>2 DEF CommandsInv, ListsTyped
      <3>2. CASE Rows[row] = "fails"
        <4>1. row \in RowsThat({"fails"}) /\ C!SetRuntimeError(row)
          BY <2>2, <3>1, <3>2, RowThat DEF C!PlayLine, Rows
        <4> QED
          BY <2>1, <4>1, RuntimeError
      <3> QED
        BY <1>3, <2>1, <2>2, <3>2 DEF C!PlayLine, Rows
    <2>3. CASE C!PlayAll
      <3>1. CASE C!Failing # {}
        <4> DEFINE i == C!Min(C!Failing)
        <4>1. C!Failing \subseteq 1..Len(cmds) /\ \A j \in C!Failing : Rows[cmds[j]] = "fails"
          BY DEF CommandsInv, ListsTyped, C!Failing, Rows
        <4>2. C!Failing \subseteq Nat
          BY <4>1
        <4>3. i \in C!Failing
          BY <3>1, <4>2, LeastNumber DEF C!Min
        <4> HIDE DEF i
        <4>4. cmds[i] \in RowsThat({"plays", "fails"})
          BY <4>1, <4>3 DEF CommandsInv, ListsTyped
        <4>5. cmds[i] \in RowsThat({"fails"})
          BY <4>1, <4>3, <4>4, RowThat
        <4>6. C!SetRuntimeError(cmds[i])
          BY <2>3, <3>1 DEF C!PlayAll, i
        <4> QED
          BY <2>1, <4>5, <4>6, RuntimeError
      <3> QED
        BY <1>3, <2>1, <2>3, <3>1 DEF C!PlayAll
    <2> QED
      BY <1>3, <1>5, <2>1, <2>2, <2>3 DEF PlayOrSee, C!SelectTab, C!SeeError, C!GoToLine
  <1> QED
    BY <1>3, <1>4, <1>5 DEF BufferNext, Type, Move, UndoOrRedo, TimePasses, MoveCursor, Elapse, bvars, vars, cvars

LEMMA CommandsInvariant == BufferSpec => []CommandsInv
  BY BufferHasHistory, Invariant, CommandsInvInit, CommandsInvStep, PTL DEF BufferSpec

(* Every command of the text is played with the others, or an error is     *)
(* listed for its line.                                                    *)
THEOREM Remembering == BufferSpec => []NoCommandForgotten
  <1>1. CommandsInv => NoCommandForgotten
    <2> SUFFICES ASSUME CommandsInv, NEW row \in DOMAIN links, Rows[row] \in {"plays", "fails"}
                 PROVE  row \in C!Range(cmds) \cup C!Range(errs)
      BY DEF NoCommandForgotten, C!NoCommandForgotten, Rows
    <2>1. row \in 1..Len(Rows) /\ DOMAIN cmds = 1..Len(cmds) /\ DOMAIN errs = 1..Len(errs)
      BY DEF CommandsInv, ListsTyped
    <2>2. Has(cmds, row) \/ Has(errs, row)
      BY <2>1, RowThat DEF CommandsInv, Remembered
    <2> QED
      BY <2>1, <2>2 DEF Has, C!Range
  <1> QED
    BY <1>1, CommandsInvariant, PTL

(* A link to an error leads to one that is listed, and, as long as no error*)
(* before others came up again, to the one of its own line.                *)
THEOREM Linking == BufferSpec => []LinksLeadToErrors
  <1>1. CommandsInv => LinksLeadToErrors
    <2> SUFFICES ASSUME CommandsInv PROVE LinksLeadToErrors
      OBVIOUS
    <2>1. /\ DOMAIN links = 1..Len(Rows) /\ DOMAIN errs = 1..Len(errs)
          /\ \A i \in 1..Len(errs) : errs[i] \in RowsThat({"wrong", "fails"})
      BY DEF CommandsInv, ListsTyped
    <2>2. \A i \in 1..Len(errs) : errs[i] \in 1..Len(Rows) /\ Rows[errs[i]] \in {"wrong", "fails"}
      BY <2>1, RowThat
    <2> QED
      BY <2>1, <2>2
      DEF LinksLeadToErrors, C!LinksLeadToErrors, CommandsInv, Linked, LinkedToOwn, Rows
  <1> QED
    BY <1>1, CommandsInvariant, PTL

(* So a text that has settled is kept, and a change ends redo, in the whole*)
(* buffer as in its history alone.                                         *)
THEOREM BufferUndo == BufferSpec => FirstTextStays /\ SettledTextStays /\ ChangeEndsRedo
  BY BufferHasHistory, FirstText, SettledText, NothingToRedo
=============================================================================

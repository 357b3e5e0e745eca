---------------------------- MODULE UndoHistory ----------------------------
(***************************************************************************)
(* Undo and redo of an editor buffer (the rules updateHistory and          *)
(* undoIndexChanged of editor.nim), each action followed by the rules it   *)
(* triggers.                                                               *)
(*                                                                         *)
(* Lines are compared by reference, so a text here is one state of the     *)
(* lines: typing a word again makes a new one, but a line that is drawn    *)
(* below the others and deleted again leaves the same one as before.  Of   *)
(* the times only "within undoDelay" matters; snapshots are made in order, *)
(* so the older ones are the first ones.                                   *)
(***************************************************************************)
EXTENDS Integers, Sequences

CONSTANTS
    Texts,      \* states of the lines
    Cursors,    \* positions of the cursor
    Start,      \* the position a buffer starts with
    MaxHistory  \* bound on the number of snapshots

ASSUME StartAssumption == Start \in Cursors
ASSUME MaxHistoryAssumption == MaxHistory \in Nat \ {0, 1}

Snapshot == [lines: Texts, cursor: Cursors]
SnapshotOf(t, c) == [lines |-> t, cursor |-> c]

VARIABLES
    lines,      \* Lines
    cursor,     \* CursorX and CursorY
    history,    \* UndoHistory
    undoIndex,  \* UndoIndex + 1, so history[undoIndex] is the current moment
    old         \* the snapshots up to this one are older than undoDelay

vars == <<lines, cursor, history, undoIndex, old>>

TypeOK ==
    /\ lines \in Texts /\ cursor \in Cursors
    /\ history \in Seq(Snapshot)
    /\ undoIndex \in 1..Len(history)
    /\ old \in 0..Len(history)

(* init: the text of a file, or an empty buffer that the draft replaces.   *)
Init ==
    /\ lines \in Texts /\ cursor = Start
    /\ \/ history = <<SnapshotOf(lines, Start)>>
       \/ \E blank \in Texts \ {lines} :
             history = <<SnapshotOf(blank, Start), SnapshotOf(lines, Start)>>
    /\ undoIndex = Len(history) /\ old = 0

-----------------------------------------------------------------------------
(* mutant: every change goes into the current snapshot                     *)
NewIndexSame == IF undoIndex > 1 THEN undoIndex ELSE undoIndex + 1

(* A change soon after the snapshot was made replaces it, unless it is the *)
(* first one; any other change makes a new one.                            *)
NewIndex == IF undoIndex > 1 /\ undoIndex > old THEN undoIndex ELSE undoIndex + 1

(* mutant: the snapshots after the current one are kept                    *)
ChangeKeepingRedo(t, c) ==
    /\ t # lines
    /\ NewIndex <= MaxHistory
    /\ lines' = t /\ cursor' = c
    /\ undoIndex' = NewIndex
    /\ history' = IF NewIndex <= Len(history)
                  THEN [history EXCEPT ![NewIndex] = SnapshotOf(t, c)]
                  ELSE Append(history, SnapshotOf(t, c))
    /\ old' = IF old < NewIndex THEN old ELSE NewIndex - 1

(* Any input that changes the lines, and the cursor with them.             *)
Change(t, c) ==
    /\ t # lines
    /\ NewIndex <= MaxHistory
    /\ lines' = t /\ cursor' = c
    /\ undoIndex' = NewIndex
    /\ history' = Append(SubSeq(history, 1, NewIndex - 1), SnapshotOf(t, c))
    /\ old' = IF old < NewIndex THEN old ELSE NewIndex - 1

(* A move of the cursor alone is kept in the current snapshot.             *)
MoveCursor(c) ==
    /\ c # cursor
    /\ cursor' = c
    /\ history' = [history EXCEPT ![undoIndex].cursor = c]
    /\ UNCHANGED <<lines, undoIndex, old>>

(* undoIndexChanged: nothing is restored if the lines are the same already.*)
Restore(i) ==
    /\ undoIndex' = i
    /\ lines' = history[i].lines
    /\ cursor' = IF history[i].lines # lines THEN history[i].cursor ELSE cursor
    /\ UNCHANGED <<history, old>>

Undo == undoIndex > 1 /\ Restore(undoIndex - 1)
Redo == undoIndex + 1 <= Len(history) /\ Restore(undoIndex + 1)

Elapse ==
    /\ old' \in (old + 1)..Len(history)
    /\ UNCHANGED <<lines, cursor, history, undoIndex>>

Next ==
    \/ \E t \in Texts, c \in Cursors : Change(t, c)
    \/ \E c \in Cursors : MoveCursor(c)
    \/ Undo
    \/ Redo
    \/ Elapse

Spec == Init /\ [][Next]_vars

-----------------------------------------------------------------------------
(* What the author sees is the current moment of the history, so that undo *)
(* followed by redo comes back exactly here.  The cursor may be another one*)
(* only after moving between two moments of the same lines.                *)
CurrentIsSnapshot ==
    /\ history[undoIndex].lines = lines
    /\ \/ history[undoIndex].cursor = cursor
       \/ \E i \in {undoIndex - 1, undoIndex + 1} :
             i \in 1..Len(history) /\ history[i].lines = lines

(* The text the buffer was created with can always be undone to.           *)
FirstTextStays == [][history'[1].lines = history[1].lines]_vars

(* A text that was shown for longer than undoDelay is never lost to        *)
(* further typing, undo or redo, as long as it is not undone.              *)
SettledTextStays ==
    [][\A i \in 1..undoIndex : i <= old =>
          i <= Len(history') /\ history'[i].lines = history[i].lines]_vars

(* As long as there is anything to redo, the author is looking at a moment *)
(* that is in the history already: a change after undo leaves no moments of*)
(* the text it replaced.                                                   *)
ChangeEndsRedo ==
    [][undoIndex' < Len(history') =>
          undoIndex' <= Len(history) /\ lines' = history[undoIndex'].lines]_vars
=============================================================================

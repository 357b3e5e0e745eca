-------------------------- MODULE WebEditorProofs --------------------------
(***************************************************************************)
(* Proofs about WebEditor, for any number of drafts and any length of the  *)
(* queue of a frame.                                                       *)
(***************************************************************************)
EXTENDS WebEditor, TLAPS

(* Between two frames the element is that of the selected page.            *)
FieldIsSelected == Between => last = sel /\ (wasEditing => IsEditing(sel))

(* What is anywhere was put somewhere.                                     *)
PiecesKnown ==
    /\ \A p \in field \cup seen : home[p] # None
    /\ \A e \in Editors : \A p \in buffer[e] : home[p] # None

(* The displayed element has pieces of the editor it was displayed for,    *)
FieldIsOfLast ==
    ~hasty /\ wasEditing => last \in Editors /\ \A p \in field : home[p] = last

(* words not taken over are of the editor that will get them,              *)
UnseenIsOfSelected ==
    ~hasty /\ field # seen => sel \in Editors /\ \A p \in field : home[p] = sel

(* and all of the words taken over are in its buffer, even in the middle of*)
(* a frame that has gone to another page.                                  *)
BufferHasField ==
    ~hasty /\ wasEditing /\ field = seen /\ ~pasted => buffer[last] = field

IInv ==
    /\ TypeOK
    /\ FieldIsSelected
    /\ PiecesKnown
    /\ DraftsStayApart
    /\ FieldIsOfLast
    /\ UnseenIsOfSelected
    /\ BufferHasField

LEMMA InitIInv == Init => IInv
  BY NoneAssumption, MaxKeysAssumption
  DEF Init, IInv, TypeOK, FieldIsSelected, PiecesKnown, DraftsStayApart, FieldIsOfLast,
      UnseenIsOfSelected, BufferHasField, Between

-----------------------------------------------------------------------------
LEMMA Typing == TypeOK /\ [Next]_vars => TypeOK'
  <1> SUFFICES ASSUME TypeOK, [Next]_vars PROVE TypeOK'
    OBVIOUS
  <1> USE DEF TypeOK
  <1>1. ASSUME NEW p \in Pieces, Type(p) PROVE TypeOK'
    BY <1>1 DEF Type, New, page, history
  <1>2. ASSUME NEW p \in Pieces, InsertFile(p) PROVE TypeOK'
    BY <1>2 DEF InsertFile, New, page
  <1>3. ASSUME NEW p \in Pieces, Put(p) PROVE TypeOK'
    BY <1>3, MaxKeysAssumption DEF Put, New, Tick, Leave, texts
  <1>4. CASE Clock
    BY <1>4 DEF Clock, page, texts, history
  <1>5. CASE BeginFrame
    <2>1. MaxKeys \in 0..MaxKeys
      BY MaxKeysAssumption
    <2> QED
      BY <1>5, <2>1, Zenon DEF BeginFrame, page, texts, history
  <1>6. CASE TickOnly \/ Escape \/ Back
    <2>1. keys' \in 0..MaxKeys
      BY <1>6, MaxKeysAssumption DEF TickOnly, Escape, Back, Tick
    <2>2. sel' \in Editors \cup {None} /\ going' \in Editors \cup {None} /\ hasty' \in BOOLEAN
      BY <1>6, Zenon DEF TickOnly, Escape, Back, Leave
    <2> QED
      BY <1>6, <2>1, <2>2, Zenon DEF TickOnly, Escape, Back, Tick, texts
  <1>7. ASSUME NEW e \in Editors, Open(e) PROVE TypeOK'
    BY <1>7, MaxKeysAssumption DEF Open, Tick, Leave, texts
  <1>8. ASSUME NEW v \in {"write", "draw", "tab"}, Switch(v) PROVE TypeOK'
    BY <1>8, MaxKeysAssumption DEF Switch, Tick, Leave, texts
  <1>9. CASE Enter
    BY <1>9 DEF Enter, Ending, IsEditing, page
  <1>10. CASE Compare
    BY <1>10 DEF Compare, Ending, IsEditing, page
  <1>11. CASE LeaveAlone
    BY <1>11 DEF LeaveAlone, Ending, IsEditing, page
  <1>12. CASE UNCHANGED vars
    BY <1>12 DEF vars, page, texts, history
  <1> QED
    BY <1>1, <1>2, <1>3, <1>4, <1>5, <1>6, <1>7, <1>8, <1>9, <1>10, <1>11, <1>12 DEF Next

Texts == PiecesKnown /\ DraftsStayApart /\ FieldIsOfLast /\ UnseenIsOfSelected /\ BufferHasField

(* A tick is in the middle of a frame.                                     *)
LEMMA TickIsInside ==
  ASSUME Tick
  PROVE  ~Between' /\ FieldIsSelected'
  BY NoneAssumption, MaxKeysAssumption DEF Tick, Between, FieldIsSelected

(* Whoever goes to another page leaves nothing behind, or is hasty.        *)
LEMMA Going ==
  ASSUME IInv, NEW to, Leave(to), UNCHANGED <<buffer, texts, home, last, pasted>>
  PROVE  Texts'
  <1>1. PiecesKnown' /\ DraftsStayApart'
    BY Zenon DEF IInv, PiecesKnown, DraftsStayApart, Leave, texts
  <1>2. FieldIsOfLast' /\ BufferHasField'
    BY Zenon DEF IInv, FieldIsOfLast, BufferHasField, Leave, texts
  <1>3. UnseenIsOfSelected'
    BY Zenon DEF IInv, UnseenIsOfSelected, Leave, texts
  <1> QED
    BY <1>1, <1>2, <1>3 DEF Texts

LEMMA Putting ==
  ASSUME IInv, NEW p \in Pieces, Put(p)
  PROVE  Texts'
  <1>1. /\ going \in Editors /\ Leave(going) /\ New(p, going)
        /\ buffer' = [buffer EXCEPT ![going] = @ \cup {p}]
        /\ pasted' = (pasted \/ wasEditing)
        /\ UNCHANGED <<field, seen, wasEditing, last>>
    BY DEF Put, Tick, texts
  <1>2. /\ p \notin field \cup seen /\ \A e \in Editors : p \notin buffer[e]
        /\ home'[p] = going /\ \A q \in Pieces : q # p => home'[q] = home[q]
    BY <1>1 DEF IInv, TypeOK, PiecesKnown, New
  <1>3. \A e \in Editors : \A q \in buffer'[e] : q \in buffer[e] \/ (q = p /\ e = going)
    BY <1>1 DEF IInv, TypeOK
  <1>4. field \subseteq Pieces /\ seen \subseteq Pieces /\ \A e \in Editors : buffer[e] \subseteq Pieces
    BY DEF IInv, TypeOK
  <1>5. PiecesKnown'
    BY <1>1, <1>2, <1>3, <1>4, NoneAssumption DEF IInv, PiecesKnown
  <1>6. DraftsStayApart'
    <2>1. ~hasty' => ~hasty
      BY <1>1 DEF Leave
    <2> QED
      BY <1>2, <1>3, <1>4, <2>1 DEF IInv, DraftsStayApart
  <1>7. FieldIsOfLast' /\ UnseenIsOfSelected'
    BY <1>1, <1>2, <1>4 DEF IInv, FieldIsOfLast, UnseenIsOfSelected, Leave
  <1>8. BufferHasField'
    BY <1>1 DEF BufferHasField
  <1> QED
    BY <1>5, <1>6, <1>7, <1>8 DEF Texts

LEMMA Typed ==
  ASSUME IInv, NEW p \in Pieces, Type(p)
  PROVE  Texts' /\ FieldIsSelected'
  <1>1. /\ Between /\ wasEditing /\ sel \in Editors /\ last = sel
        /\ New(p, sel) /\ field' = field \cup {p}
        /\ UNCHANGED <<sel, view, buffer, seen, wasEditing, keys, last, pasted, hasty>>
    BY DEF Type, page, history, IInv, FieldIsSelected
  <1>2. /\ p \notin field \cup seen /\ \A e \in Editors : p \notin buffer[e]
        /\ home'[p] = sel /\ \A q \in Pieces : q # p => home'[q] = home[q]
    BY <1>1 DEF IInv, TypeOK, PiecesKnown, New
  <1>3. field \subseteq Pieces /\ seen \subseteq Pieces /\ \A e \in Editors : buffer[e] \subseteq Pieces
    BY DEF IInv, TypeOK
  <1>4. PiecesKnown' /\ DraftsStayApart'
    BY <1>1, <1>2, <1>3, NoneAssumption DEF IInv, PiecesKnown, DraftsStayApart
  <1>5. FieldIsOfLast' /\ UnseenIsOfSelected'
    BY <1>1, <1>2, <1>3 DEF IInv, FieldIsOfLast, UnseenIsOfSelected
  <1>6. BufferHasField'
    BY <1>1, <1>2 DEF BufferHasField
  <1>7. FieldIsSelected'
    BY <1>1 DEF IInv, FieldIsSelected, Between, IsEditing
  <1> QED
    BY <1>4, <1>5, <1>6, <1>7 DEF Texts

LEMMA FileInserted ==
  ASSUME IInv, NEW p \in Pieces, InsertFile(p)
  PROVE  Texts' /\ FieldIsSelected'
  <1>1. /\ Between /\ sel \in Editors /\ last = sel
        /\ New(p, sel) /\ buffer' = [buffer EXCEPT ![sel] = @ \cup {p}]
        /\ field' = IF view[sel] # "draw" THEN buffer'[sel] ELSE field
        /\ pasted' = (pasted /\ view[sel] = "draw")
        /\ wasEditing => view[sel] = "write"
        /\ UNCHANGED <<sel, view, seen, wasEditing, keys, last, hasty>>
    BY DEF InsertFile, page, IInv, FieldIsSelected, IsEditing
  <1>2. /\ p \notin field \cup seen /\ \A e \in Editors : p \notin buffer[e]
        /\ home'[p] = sel /\ \A q \in Pieces : q # p => home'[q] = home[q]
    BY <1>1 DEF IInv, TypeOK, PiecesKnown, New
  <1>3. field \subseteq Pieces /\ seen \subseteq Pieces /\ \A e \in Editors : buffer[e] \subseteq Pieces
    BY DEF IInv, TypeOK
  <1>4. /\ buffer'[sel] = buffer[sel] \cup {p}
        /\ \A e \in Editors : e # sel => buffer'[e] = buffer[e]
    BY <1>1 DEF IInv, TypeOK
  <1>5. PiecesKnown'
    BY <1>1, <1>2, <1>3, <1>4, NoneAssumption DEF IInv, PiecesKnown
  <1>6. DraftsStayApart'
    BY <1>1, <1>2, <1>3, <1>4 DEF IInv, DraftsStayApart
  <1>7. ~hasty => \A q \in buffer'[sel] : home'[q] = sel
    BY <1>1, <1>6 DEF DraftsStayApart
  <1>8. FieldIsOfLast'
    BY <1>1, <1>7 DEF FieldIsOfLast
  <1>9. UnseenIsOfSelected'
    BY <1>1, <1>2, <1>3, <1>7 DEF IInv, UnseenIsOfSelected
  <1>10. BufferHasField' /\ FieldIsSelected'
    BY <1>1 DEF IInv, FieldIsSelected, BufferHasField, Between, IsEditing
  <1> QED
    BY <1>5, <1>6, <1>8, <1>9, <1>10 DEF Texts

(* The end of a frame makes the selected page the one the element is for.  *)
LEMMA EndIsBetween ==
  ASSUME Ending
  PROVE  FieldIsSelected' /\ last' = sel /\ (~hasty' => ~hasty)
         /\ (~hasty' /\ wasEditing' /\ wasEditing => last = sel)
         /\ (wasEditing' => sel \in Editors)
  BY DEF Ending, FieldIsSelected, IsEditing, page

LEMMA Entered ==
  ASSUME IInv, Enter
  PROVE  Texts'
  <1>1. /\ sel \in Editors /\ field' = buffer[sel] /\ seen' = buffer[sel] /\ buffer' = buffer
        /\ sel' = sel /\ home' = home
    BY DEF Enter, Ending, page, IsEditing
  <1>2. last' = sel /\ (~hasty' => ~hasty)
    BY EndIsBetween DEF Enter
  <1> QED
    BY <1>1, <1>2 DEF IInv, Texts, PiecesKnown, DraftsStayApart, FieldIsOfLast,
                      UnseenIsOfSelected, BufferHasField

LEMMA Compared ==
  ASSUME IInv, Compare
  PROVE  Texts'
  <1>1. /\ sel \in Editors /\ (wasEditing' => wasEditing)
        /\ buffer' = IF field # seen THEN [buffer EXCEPT ![sel] = field] ELSE buffer
        /\ pasted' = (pasted /\ field = seen)
        /\ seen' = field /\ field' = field /\ sel' = sel /\ home' = home
    BY DEF Compare, Ending, page
  <1>2. /\ last' = sel /\ (~hasty' => ~hasty)
        /\ (~hasty' /\ wasEditing' /\ wasEditing => last = sel)
    BY EndIsBetween DEF Compare
  <1>3. \A e \in Editors : buffer'[e] = IF field # seen /\ e = sel THEN field ELSE buffer[e]
    BY <1>1 DEF IInv, TypeOK
  <1>4. PiecesKnown'
    BY <1>1, <1>3 DEF IInv, PiecesKnown
  <1>5. DraftsStayApart'
    BY <1>1, <1>2, <1>3 DEF IInv, DraftsStayApart, UnseenIsOfSelected
  <1>6. FieldIsOfLast' /\ UnseenIsOfSelected'
    BY <1>1, <1>2 DEF IInv, FieldIsOfLast, UnseenIsOfSelected
  <1>7. BufferHasField'
    BY <1>1, <1>2, <1>3 DEF IInv, BufferHasField
  <1> QED
    BY <1>4, <1>5, <1>6, <1>7 DEF Texts

LEMMA LeftAlone ==
  ASSUME IInv, LeaveAlone
  PROVE  Texts'
  <1>1. /\ wasEditing' => sel \in Editors /\ wasEditing
        /\ UNCHANGED <<buffer, field, seen, pasted, sel, home>>
    BY DEF LeaveAlone, Ending, page, IsEditing
  <1>2. /\ last' = sel /\ (~hasty' => ~hasty)
        /\ (~hasty' /\ wasEditing' /\ wasEditing => last = sel)
    BY EndIsBetween DEF LeaveAlone
  <1> QED
    BY <1>1, <1>2, Zenon DEF IInv, Texts, PiecesKnown, DraftsStayApart, FieldIsOfLast,
                      UnseenIsOfSelected, BufferHasField

-----------------------------------------------------------------------------
LEMMA IInvStep == IInv /\ [Next]_vars => IInv'
  <1> SUFFICES ASSUME IInv, [Next]_vars PROVE Texts' /\ FieldIsSelected'
    BY Typing DEF IInv, Texts
  <1>1. ASSUME NEW p \in Pieces, Type(p) \/ InsertFile(p)
        PROVE  Texts' /\ FieldIsSelected'
    BY <1>1, Typed, FileInserted
  <1>2. ASSUME NEW p \in Pieces, Put(p)
        PROVE  Texts' /\ FieldIsSelected'
    BY <1>2, Putting, TickIsInside DEF Put
  <1>3. CASE Clock \/ UNCHANGED vars
    <2>1. UNCHANGED <<page, buffer, texts, keys, home, history>>
      BY <1>3 DEF Clock, vars
    <2> QED
      BY <2>1, Zenon DEF page, texts, history, IInv, Texts, PiecesKnown, DraftsStayApart,
        FieldIsOfLast, UnseenIsOfSelected, BufferHasField, FieldIsSelected, Between, IsEditing
  <1>4. CASE BeginFrame
    <2>1. ~Between'
      BY <1>4, NoneAssumption, MaxKeysAssumption DEF BeginFrame, Between
    <2>2. UNCHANGED <<page, buffer, texts, home, history>>
      BY <1>4 DEF BeginFrame
    <2> QED
      BY <2>1, <2>2, Zenon DEF page, texts, history, IInv, Texts, PiecesKnown, DraftsStayApart,
        FieldIsOfLast, UnseenIsOfSelected, BufferHasField, FieldIsSelected
  <1>5. CASE TickOnly \/ Escape \/ Back
    <2>1. PICK to : Leave(to)
      BY <1>5 DEF TickOnly, Escape, Back
    <2>2. Tick /\ UNCHANGED <<buffer, texts, home, last, pasted>>
      BY <1>5 DEF TickOnly, Escape, Back, Tick
    <2> QED
      BY <2>1, <2>2, Going, TickIsInside
  <1>6. ASSUME NEW e \in Editors, Open(e)
        PROVE  Texts' /\ FieldIsSelected'
    <2>1. Leave(None) /\ Tick /\ UNCHANGED <<buffer, texts, home, last, pasted>>
      BY <1>6 DEF Open, Tick
    <2> QED
      BY <2>1, Going, TickIsInside
  <1>7. ASSUME NEW v \in {"write", "draw", "tab"}, Switch(v)
        PROVE  Texts' /\ FieldIsSelected'
    <2>1. Leave(going) /\ Tick /\ UNCHANGED <<buffer, texts, home, last, pasted>>
      BY <1>7 DEF Switch, Tick
    <2> QED
      BY <2>1, Going, TickIsInside
  <1>8. CASE Enter \/ Compare \/ LeaveAlone
    <2>1. Texts'
      BY <1>8, Entered, Compared, LeftAlone
    <2>2. FieldIsSelected'
      BY <1>8, EndIsBetween DEF Enter, Compare, LeaveAlone
    <2> QED
      BY <2>1, <2>2
  <1> QED
    BY <1>1, <1>2, <1>3, <1>4, <1>5, <1>6, <1>7, <1>8 DEF Next

LEMMA Invariance == Spec => []IInv
  BY InitIInv, IInvStep, PTL DEF Spec

-----------------------------------------------------------------------------
(* Every variable stays in its type, the history variables too.            *)
THEOREM TypeCorrect == Spec => []TypeOK
  <1>1. IInv => TypeOK
    BY DEF IInv
  <1> QED
    BY Invariance, <1>1, PTL

(* What the author sees in the element is the buffer of the editor, apart  *)
(* from words not taken over yet, pastes past the element, and haste.      *)
THEOREM ShownIsBuffer == Spec => []FieldShowsBuffer
  <1>1. IInv => FieldShowsBuffer
    BY DEF IInv, FieldIsSelected, BufferHasField, FieldShowsBuffer
  <1> QED
    BY Invariance, <1>1, PTL

(* Without haste nothing that was put into one draft gets into another.    *)
THEOREM Apart == Spec => []DraftsStayApart
  <1>1. IInv => DraftsStayApart
    BY DEF IInv
  <1> QED
    BY Invariance, <1>1, PTL
=============================================================================

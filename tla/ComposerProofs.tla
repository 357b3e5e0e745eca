--------------------------- MODULE ComposerProofs ---------------------------
(***************************************************************************)
(* What Composer guarantees for any set of texts.                          *)
(***************************************************************************)
EXTENDS Composer, TLAPS

(* A request that reads as valid was taken by the server: what lets the    *)
(* tick that files the post trust the answer it finds.                     *)
ValidWasAccepted == req = "valid" => reqText \in accepted

IInv ==
    /\ TypeOK
    /\ LockedIffRequested
    /\ SavedMeansStored
    /\ SentWasAccepted
    /\ ValidWasAccepted

(* Every state of the initial predicate satisfies the invariant.           *)
LEMMA InitIInv == Init => IInv
  BY DEF Init, IInv, TypeOK, LockedIffRequested, SavedMeansStored,
         SentWasAccepted, ValidWasAccepted, Text

(* The parts of the state keep their types in every step.                  *)
LEMMA TypeStep == TypeOK /\ [Next]_vars => TypeOK'
<1> SUFFICES ASSUME TypeOK, [Next]_vars PROVE TypeOK'
  OBVIOUS
<1> USE BlankAssumption, InitialAssumption, TornAssumption DEF TypeOK, Text
<1>1. CASE ReturnToEditor
  BY <1>1 DEF ReturnToEditor
<1>2. CASE OpenEditor
  BY <1>2 DEF OpenEditor, InitEditor, WriteDraft, Unanswered
<1>3. CASE LeaveEditor
  BY <1>3 DEF LeaveEditor
<1>4. ASSUME NEW text \in Text, Type(text) PROVE TypeOK'
  BY <1>4 DEF Type, ChangeBuffer
<1>5. ASSUME NEW text \in Text, LockedEdit(text) PROVE TypeOK'
  BY <1>5 DEF LockedEdit, ChangeBuffer
<1>6. CASE Send
  BY <1>6 DEF Send, SaveToStorage, SaveDue
<1>7. CASE ContinueEditing
  BY <1>7 DEF ContinueEditing, SaveToStorage, SaveDue, WriteDraft
<1>8. CASE Elapse
  BY <1>8 DEF Elapse
<1>9. CASE IdleTick
  BY <1>9 DEF IdleTick, SaveToStorage, SaveDue, WriteDraft
<1>10. CASE Answer
  BY <1>10 DEF Answer
<1>11. ASSUME NEW text \in Text, OrphanArrives(text) PROVE TypeOK'
  BY <1>11 DEF OrphanArrives
<1>12. CASE Deliver
  BY <1>12 DEF Deliver, ForgetPage, StorePost
<1>13. CASE Crash
  BY <1>13 DEF Crash, ForgetPage, Unanswered, StorePost
<1>14. CASE UNCHANGED vars
  BY <1>14 DEF vars
<1> QED
  BY <1>1, <1>2, <1>3, <1>4, <1>5, <1>6, <1>7, <1>8, <1>9, <1>10, <1>11,
     <1>12, <1>13, <1>14 DEF Next, User

(* The other parts of the invariant, one action at a time.                 *)
LEMMA IInvStep == IInv /\ [Next]_vars => IInv'
<1> SUFFICES ASSUME IInv, [Next]_vars PROVE IInv'
  OBVIOUS
<1> DEFINE Rest == LockedIffRequested /\ SavedMeansStored
                   /\ SentWasAccepted /\ ValidWasAccepted
<1>0. TypeOK'
  BY TypeStep DEF IInv
<1>a. TypeOK /\ Rest
  BY DEF IInv
<1>b. SUFFICES Rest'
  BY <1>0 DEF IInv
<1> USE <1>a DEF LockedIffRequested, SavedMeansStored, SentWasAccepted,
                 ValidWasAccepted
<1>1. CASE ReturnToEditor
  BY <1>1 DEF ReturnToEditor
<1>2. CASE OpenEditor
  BY <1>2 DEF OpenEditor, InitEditor
<1>3. CASE LeaveEditor
  BY <1>3 DEF LeaveEditor
<1>4. ASSUME NEW text \in Text, Type(text) PROVE Rest'
  BY <1>4 DEF Type, ChangeBuffer
<1>5. ASSUME NEW text \in Text, LockedEdit(text) PROVE Rest'
  BY <1>5 DEF LockedEdit, ChangeBuffer
<1>6. CASE Send
  BY <1>6 DEF Send, SaveToStorage, SaveDue
<1>7. CASE ContinueEditing
  BY <1>7 DEF ContinueEditing, SaveToStorage, SaveDue, WriteDraft
<1>8. CASE Elapse
  BY <1>8 DEF Elapse
<1>9. CASE IdleTick
  BY <1>9 DEF IdleTick, SaveToStorage, SaveDue, WriteDraft
<1>10. CASE Answer
  BY <1>10 DEF Answer, TypeOK
<1>11. ASSUME NEW text \in Text, OrphanArrives(text) PROVE Rest'
  BY <1>11 DEF OrphanArrives
<1>12. CASE Deliver
  <2>1. sent' # Blank => \/ sent' \in accepted
                         \/ storeFailed' /\ \E text \in accepted : sent' \in Torn[text]
    BY <1>12 DEF Deliver, StorePost
  <2> QED
    BY <1>12, <2>1 DEF Deliver, ForgetPage
<1>13. CASE Crash
  <2>1. UNCHANGED <<sent, storeFailed>> \/ (req = "valid" /\ StorePost(reqText))
    BY <1>13 DEF Crash
  <2>2. sent' # Blank => \/ sent' \in accepted
                         \/ storeFailed' /\ \E text \in accepted : sent' \in Torn[text]
    BY <2>1 DEF StorePost
  <2> QED
    BY <1>13, <2>2 DEF Crash, ForgetPage
<1>14. CASE UNCHANGED vars
  BY <1>14 DEF vars
<1> QED
  BY <1>1, <1>2, <1>3, <1>4, <1>5, <1>6, <1>7, <1>8, <1>9, <1>10, <1>11,
     <1>12, <1>13, <1>14 DEF Next, User

(* The inductive invariant holds throughout.                               *)
THEOREM Invariant == Spec => []IInv
  BY InitIInv, IInvStep, PTL DEF Spec

(* Every variable of the editor page stays in its type.                    *)
THEOREM TypeCorrect == Spec => []TypeOK
<1>1. IInv => TypeOK
  BY DEF IInv
<1> QED
  BY <1>1, Invariant, PTL

(* The buffer is locked exactly while a request is unresolved.             *)
THEOREM Locking == Spec => []LockedIffRequested
<1>1. IInv => LockedIffRequested
  BY DEF IInv
<1> QED
  BY <1>1, Invariant, PTL

(* No edit is ever counted as saved that the draft file does not hold,     *)
(* writes that failed aside.                                               *)
THEOREM Saving == Spec => []SavedMeansStored
<1>1. IInv => SavedMeansStored
  BY DEF IInv
<1> QED
  BY <1>1, Invariant, PTL

(* The local copy of a sent post is a text the server took, whole or as a  *)
(* failed write left it.                                                   *)
THEOREM Filing == Spec => []SentWasAccepted
<1>1. IInv => SentWasAccepted
  BY DEF IInv
<1> QED
  BY <1>1, Invariant, PTL

(* A draft file goes only when emptied, delivered or lost in a write.      *)
THEOREM DraftKeeping == Spec => DraftKept
<1> DEFINE Reason == \/ buffer = Blank
                     \/ req = "valid" /\ reqText \in accepted
                     \/ writeFailed'
           Goes == draft # Blank /\ draft' = Blank
<1>1. ASSUME IInv, [Next]_vars, Goes PROVE Reason
  <2> USE <1>1 DEF IInv, ValidWasAccepted
  <2>1. ASSUME NEW text \in Text,
               Type(text) \/ LockedEdit(text) \/ OrphanArrives(text)
        PROVE  FALSE
    BY <2>1 DEF Type, LockedEdit, OrphanArrives, ChangeBuffer
  <2>2. CASE ReturnToEditor \/ LeaveEditor \/ Elapse \/ Answer \/ UNCHANGED vars
    BY <2>2 DEF ReturnToEditor, LeaveEditor, Elapse, Answer, vars
  <2>3. CASE OpenEditor
    BY <2>3 DEF OpenEditor, WriteDraft
  <2>4. CASE Send \/ ContinueEditing \/ IdleTick
    BY <2>4 DEF Send, ContinueEditing, IdleTick, SaveToStorage, SaveDue, WriteDraft
  <2>5. CASE Deliver
    BY <2>5 DEF Deliver
  <2>6. CASE Crash
    BY <2>6 DEF Crash
  <2> QED
    BY <2>1, <2>2, <2>3, <2>4, <2>5, <2>6 DEF Next, User
<1>2. IInv /\ [Next]_vars => [Goes => Reason]_vars
  BY <1>1
<1> QED
  BY <1>2, Invariant, PTL DEF Spec, DraftKept

(* Seen from the data directory and the server, the page is an Outbox.     *)
THEOREM Refinement == Spec => ImplementsOutbox
<1> DEFINE posting == orphans \cup Unanswered
<1> USE DEF Abstract!Text, Text
<1>1. Init => Abstract!Init
  BY DEF Init, Abstract!Init, Unanswered
<1>2. ASSUME IInv, [Next]_vars PROVE [Abstract!Next]_(Abstract!vars)
  <2> USE <1>2 DEF IInv, TypeOK, Abstract!Next, Abstract!vars
  <2>0. TypeOK'
    BY TypeStep
  <2>w. ASSUME UNCHANGED <<sent, accepted, posting>>
        PROVE  Abstract!Next
    BY <2>w, <2>0 DEF Abstract!Write
  <2>1. CASE ReturnToEditor
    BY <2>1, <2>w DEF ReturnToEditor, Unanswered
  <2>2. CASE OpenEditor
    BY <2>2, <2>w DEF OpenEditor, InitEditor, Unanswered
  <2>3. CASE LeaveEditor
    BY <2>3, <2>w DEF LeaveEditor, Unanswered
  <2>4. ASSUME NEW text \in Text, Type(text) \/ LockedEdit(text)
        PROVE  Abstract!Next
    BY <2>4, <2>w DEF Type, LockedEdit, ChangeBuffer, Unanswered
  <2>5. CASE Send
    <3>1. posting' = posting \cup {buffer} /\ draft' = draft
      BY <2>5 DEF Send, Unanswered, SaveToStorage, SaveDue
    <3>2. Abstract!Post(buffer)
      BY <3>1, <2>5 DEF Send, Abstract!Post
    <3> QED
      BY <3>2
  <2>6. CASE ContinueEditing
    BY <2>6, <2>w DEF ContinueEditing, Unanswered
  <2>7. CASE Elapse
    BY <2>7, <2>w DEF Elapse, Unanswered
  <2>8. CASE IdleTick
    BY <2>8, <2>w DEF IdleTick, Unanswered
  <2>9. CASE Answer
    <3>1. posting' \in {posting, posting \ {reqText}} /\ reqText \in posting
      BY <2>9 DEF Answer, Unanswered
    <3>2. accepted' \in {accepted, accepted \cup {reqText}}
      BY <2>9 DEF Answer
    <3>3. Abstract!Settle(reqText)
      BY <3>1, <3>2, <2>9 DEF Answer, Abstract!Settle
    <3> QED
      BY <3>3
  <2>10. ASSUME NEW text \in Text, OrphanArrives(text)
         PROVE  Abstract!Next
    <3>1. posting' \in {posting, posting \ {text}} /\ text \in posting
      BY <2>10 DEF OrphanArrives, Unanswered
    <3>2. Abstract!Settle(text)
      BY <3>1, <2>10 DEF OrphanArrives, Abstract!Settle
    <3> QED
      BY <3>2
  <2>11. CASE Deliver
    <3>1. posting' = posting
      BY <2>11 DEF Deliver, ForgetPage, Unanswered
    <3>2. sent' \in {sent, reqText} \cup Torn[reqText]
      BY <2>11 DEF Deliver, StorePost
    <3>3. Abstract!File(reqText)
      BY <3>1, <3>2, <2>11 DEF Deliver, Abstract!File, ValidWasAccepted
    <3> QED
      BY <3>3
  <2>12. CASE Crash
    <3>1. posting' = posting /\ accepted' = accepted
      BY <2>12 DEF Crash, ForgetPage, Unanswered
    <3>2. CASE UNCHANGED sent
      BY <2>w, <3>1, <3>2
    <3>3. CASE req = "valid" /\ draft' = Blank /\ StorePost(reqText)
      <4>1. sent' \in {sent, reqText} \cup Torn[reqText]
        BY <3>3 DEF StorePost
      <4>2. Abstract!File(reqText)
        BY <3>1, <3>3, <4>1 DEF Abstract!File, ValidWasAccepted
      <4> QED
        BY <4>2
    <3> QED
      BY <2>12, <3>2, <3>3 DEF Crash
  <2>13. CASE UNCHANGED vars
    BY <2>13 DEF vars, Unanswered
  <2> QED
    BY <2>1, <2>2, <2>3, <2>4, <2>5, <2>6, <2>7, <2>8, <2>9, <2>10, <2>11,
       <2>12, <2>13 DEF Next, User
<1> QED
  BY <1>1, <1>2, Invariant, PTL DEF Spec, ImplementsOutbox, Abstract!Spec
=============================================================================

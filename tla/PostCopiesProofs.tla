-------------------------- MODULE PostCopiesProofs --------------------------
(***************************************************************************)
(* Proofs about PostCopies, for any clock bound and any length of a week.  *)
(*                                                                         *)
(* What is shown depends on the two copies as they were when the page was  *)
(* shown; the inductive invariant says that neither changes afterwards in a*)
(* way that matters, because filing a post opens its page anew.            *)
(***************************************************************************)
EXTENDS PostCopies, TLAPS

(* Nothing is shown before there is an answer.                             *)
ShownAfterAnswer == channel # "answered" => view = Missing

(* The copies on disk, at the server and in the channel were all accepted, *)
(* and the server's are whole.                                             *)
CopiesWereAccepted ==
    /\ local \in Copy => local.version \in accepted
    /\ published \in Copy => published.version \in accepted /\ published.whole
    /\ body \in Copy => body.version \in accepted /\ body.whole

(* What was filed is on disk for at least a week.                          *)
FiledIsStored ==
    \A v \in filed : local = Whole(v) \/ now >= v.time + Week

IInv ==
    /\ TypeOK
    /\ ShownAfterAnswer
    /\ CopiesWereAccepted
    /\ FiledIsStored
    /\ NeverOlder
    /\ ShowsWhatThereIs
    /\ CutHeals
    /\ ShownWasAccepted
    /\ ReadYourWrites

(* Copies differ from the ways of having none.                             *)
LEMMA CopyIsSome ==
  /\ Missing \notin Copy /\ Junk \notin Copy /\ Error \notin Copy
  /\ Missing # Error /\ Missing # Junk /\ Junk # Error
  BY DEF Copy, Missing, Junk, Error

LEMMA CopyFields ==
  /\ \A x \in Copy : x.version \in Version /\ x.whole \in BOOLEAN
  /\ \A v \in Version : /\ v.time \in Nat
                        /\ Whole(v) \in Copy /\ Cut(v) \in Copy
                        /\ Whole(v).version = v /\ Whole(v).whole
                        /\ Cut(v).version = v /\ ~Cut(v).whole
  BY MaxTimeAssumption, SMT DEF Copy, Version, Time, Whole, Cut

(* Of the two copies there are, the later one is chosen, and the answer if *)
(* they are equally late.                                                  *)
LEMMA Choice ==
  ASSUME NEW file \in File, NEW answer \in File,
         NEW r, r = GetFromLocalOrRemote(file, answer)
  PROVE  /\ r \in Copy \cup {Error}
         /\ r \in Copy => r = file \/ r = answer
         /\ r = Error <=> file \notin Copy /\ answer \notin Copy
         /\ file \in Copy /\ r \in Copy => r.version.time >= file.version.time
         /\ answer \in Copy /\ r \in Copy => r.version.time >= answer.version.time
         /\ answer \in Copy /\ r # answer => r.version.time > answer.version.time
  <1>1. \A x \in Copy : x.version.time \in Nat
    BY CopyFields
  <1>2. Parse(file) = IF file \in Copy THEN file ELSE Error
    BY DEF Parse
  <1>3. Parse(answer) = IF answer \in Copy THEN answer ELSE Error
    BY DEF Parse
  <1>4. Error \notin Copy
    BY CopyIsSome
  <1> QED
    BY <1>1, <1>2, <1>3, <1>4, SMT DEF GetFromLocalOrRemote

LEMMA InitIInv == Init => IInv
  BY CopyIsSome, MaxTimeAssumption, SMT
  DEF Init, IInv, TypeOK, ShownAfterAnswer, CopiesWereAccepted, FiledIsStored,
      NeverOlder, ShowsWhatThereIs, CutHeals, ShownWasAccepted, ReadYourWrites,
      Time, File

LEMMA TypeStep == TypeOK /\ [Next]_vars => TypeOK'
  <1> SUFFICES ASSUME TypeOK, [Next]_vars PROVE TypeOK'
    OBVIOUS
  <1> USE DEF TypeOK
  <1>1. CASE OpenPage
    BY <1>1 DEF OpenPage, Open, File
  <1>2. CASE Answer
    BY <1>2 DEF Answer, File
  <1>3. CASE ShowPage
    <2>1. GetFromLocalOrRemote(local, body) \in Copy \cup {Error}
      BY Choice
    <2> QED
      BY <1>3, <2>1 DEF ShowPage
  <1>4. CASE Sign
    BY <1>4 DEF Sign, Version
  <1>5. CASE EditElsewhere
    BY <1>5 DEF EditElsewhere, Version
  <1>6. ASSUME NEW v \in pending, Accept(v)
        PROVE  TypeOK'
    BY <1>6 DEF Accept
  <1>7. ASSUME NEW v \in accepted, Publish(v)
        PROVE  TypeOK'
    BY <1>7, CopyFields DEF Publish, File
  <1>8. ASSUME NEW v \in pending, Deliver(v)
        PROVE  TypeOK'
    <2>1. v \in Version /\ Whole(v) \in File /\ Cut(v) \in File /\ Junk \in File
             /\ Missing \in File
      BY CopyFields DEF File
    <2> QED
      BY <1>8, <2>1 DEF Deliver, Open
  <1>9. CASE Elapse
    BY <1>9, MaxTimeAssumption, SMT DEF Elapse, Time
  <1>10. CASE Crash
    <2>1. Junk \in File /\ Missing \in File /\ \A v \in Version : Cut(v) \in File
      BY CopyFields DEF File
    <2> QED
      BY <1>10, <2>1 DEF Crash, Close
  <1>11. CASE Restart
    BY <1>11 DEF Restart, File
  <1>12. CASE UNCHANGED vars
    BY <1>12 DEF vars
  <1> QED
    BY <1>1, <1>2, <1>3, <1>4, <1>5, <1>6, <1>7, <1>8, <1>9, <1>10, <1>11, <1>12
    DEF Next

(* The parts of the invariant that speak of a page, and hold while nothing *)
(* is shown.                                                               *)
LEMMA NothingShown ==
  ASSUME view' = Missing
  PROVE  /\ ShownAfterAnswer' /\ NeverOlder' /\ ShowsWhatThereIs'
         /\ CutHeals' /\ ShownWasAccepted' /\ ReadYourWrites'
  BY CopyIsSome DEF ShownAfterAnswer, NeverOlder, ShowsWhatThereIs, CutHeals,
                    ShownWasAccepted, ReadYourWrites

(* A step that leaves the page and its answer alone, and the file too or   *)
(* whatever of it is not whole any more, and that only adds to what was    *)
(* accepted, keeps what was shown right.                                   *)
LEMMA PageLeftAlone ==
  ASSUME IInv, TypeOK',
         view' = view, channel' = channel, body' = body, accepted \subseteq accepted',
         now' >= now, filed' \subseteq filed,
         local' = local \/ ~(local' \in Copy /\ local'.whole)
  PROVE  /\ ShownAfterAnswer' /\ NeverOlder' /\ ShowsWhatThereIs'
         /\ CutHeals' /\ ShownWasAccepted' /\ ReadYourWrites'
  <1>1. ShownAfterAnswer' /\ CutHeals' /\ ShownWasAccepted'
    BY DEF IInv, ShownAfterAnswer, CutHeals, ShownWasAccepted
  <1>2. NeverOlder' /\ ShowsWhatThereIs'
    BY DEF IInv, NeverOlder, ShowsWhatThereIs
  <1>3. ASSUME NEW v \in filed', view' # Missing, now' < v.time + Week
        PROVE  view' \in Copy /\ view'.version.time >= v.time
    <2>1. v \in filed /\ v.time \in Nat /\ now \in Nat /\ now' \in Nat /\ Week \in Nat
      BY WeekAssumption, MaxTimeAssumption, CopyFields, SMT DEF IInv, TypeOK, Time
    <2>2. now < v.time + Week
      BY <1>3, <2>1, SMT
    <2> QED
      BY <1>3, <2>1, <2>2 DEF IInv, ReadYourWrites
  <1>4. ReadYourWrites'
    BY <1>3 DEF ReadYourWrites
  <1> QED
    BY <1>1, <1>2, <1>4

LEMMA IInvStep == IInv /\ [Next]_vars => IInv'
  <1> SUFFICES ASSUME IInv, [Next]_vars PROVE IInv'
    OBVIOUS
  <1> DEFINE Page == /\ ShownAfterAnswer /\ NeverOlder /\ ShowsWhatThereIs
                     /\ CutHeals /\ ShownWasAccepted /\ ReadYourWrites
  <1>0. TypeOK /\ TypeOK'
    BY TypeStep DEF IInv
  <1>n. now \in Nat /\ Week \in Nat /\ \A v \in Version : v.time \in Nat
    BY <1>0, WeekAssumption, MaxTimeAssumption, CopyFields, SMT DEF TypeOK, Time
  <1>1. CASE OpenPage
    <2>1. Page'
      BY <1>1, NothingShown DEF OpenPage, Open
    <2>2. CopiesWereAccepted' /\ FiledIsStored'
      BY <1>1, CopyIsSome DEF OpenPage, Open, IInv, CopiesWereAccepted, FiledIsStored
    <2> QED
      BY <1>0, <2>1, <2>2 DEF IInv
  <1>2. CASE Answer
    <2>1. view' = Missing
      BY <1>2 DEF Answer, IInv, ShownAfterAnswer
    <2>2. CopiesWereAccepted' /\ FiledIsStored'
      BY <1>2, CopyIsSome DEF Answer, IInv, CopiesWereAccepted, FiledIsStored
    <2> QED
      BY <1>0, <2>1, <2>2, NothingShown DEF IInv
  <1>3. CASE ShowPage
    <2> DEFINE r == GetFromLocalOrRemote(local, body)
    <2>1. view' = r /\ UNCHANGED <<now, accepted, published, local, channel, body, filed>>
      BY <1>3 DEF ShowPage
    <2>2. /\ r \in Copy \cup {Error}
          /\ r \in Copy => r = local \/ r = body
          /\ r = Error <=> local \notin Copy /\ body \notin Copy
          /\ local \in Copy /\ r \in Copy => r.version.time >= local.version.time
          /\ body \in Copy /\ r \in Copy => r.version.time >= body.version.time
          /\ body \in Copy /\ r # body => r.version.time > body.version.time
      BY <1>0, Choice DEF TypeOK
    <2> HIDE DEF r
    <2>3. ShownAfterAnswer'
      BY <1>3 DEF ShowPage, ShownAfterAnswer
    <2>4. CopiesWereAccepted' /\ FiledIsStored'
      BY <2>1 DEF IInv, CopiesWereAccepted, FiledIsStored
    <2>5. NeverOlder' /\ ShowsWhatThereIs'
      BY <2>1, <2>2, CopyIsSome DEF NeverOlder, ShowsWhatThereIs
    <2>6. ShownWasAccepted'
      BY <2>1, <2>2 DEF IInv, ShownWasAccepted, CopiesWereAccepted
    <2>7. CutHeals'
      <3> SUFFICES ASSUME r \in Copy, ~r.whole, body \in Copy
                   PROVE  body.version.time < r.version.time
        BY <2>1 DEF CutHeals
      <3>1. r # body
        BY DEF IInv, CopiesWereAccepted
      <3>2. body.version.time \in Nat /\ r.version.time \in Nat
        BY CopyFields
      <3> QED
        BY <2>2, <3>1, <3>2, SMT
    <2>8. ASSUME NEW v \in filed, now < v.time + Week
          PROVE  r \in Copy /\ r.version.time >= v.time
      <3>1. v \in Version
        BY <1>0 DEF TypeOK
      <3>2. local = Whole(v)
        BY <2>8, <3>1, <1>n, SMT DEF IInv, FiledIsStored
      <3>3. local \in Copy /\ local.version = v
        BY <3>1, <3>2, CopyFields
      <3> QED
        BY <2>2, <3>3
    <2>9. ReadYourWrites'
      BY <2>1, <2>8 DEF ReadYourWrites
    <2> QED
      BY <1>0, <2>3, <2>4, <2>5, <2>6, <2>7, <2>9 DEF IInv
  <1>4. CASE Sign
    <2>1. UNCHANGED <<now, accepted, published, local, channel, body, view, filed>>
      BY <1>4 DEF Sign
    <2>2. CopiesWereAccepted' /\ FiledIsStored'
      BY <2>1 DEF IInv, CopiesWereAccepted, FiledIsStored
    <2>3. now' >= now
      BY <2>1, <1>n, SMT
    <2> QED
      BY <1>0, <2>1, <2>2, <2>3, PageLeftAlone DEF IInv
  <1>5. ASSUME accepted \subseteq accepted',
               UNCHANGED <<now, published, local, channel, body, view, filed>>
        PROVE  IInv'
    <2>1. CopiesWereAccepted' /\ FiledIsStored'
      BY <1>5 DEF IInv, CopiesWereAccepted, FiledIsStored
    <2>2. now' >= now
      BY <1>5, <1>n, SMT
    <2> QED
      BY <1>0, <1>5, <2>1, <2>2, PageLeftAlone DEF IInv
  <1>6. CASE EditElsewhere
    BY <1>5, <1>6 DEF EditElsewhere
  <1>7. ASSUME NEW v \in pending, Accept(v)
        PROVE  IInv'
    BY <1>5, <1>7 DEF Accept
  <1>8. ASSUME NEW v \in accepted, Publish(v)
        PROVE  IInv'
    <2>1. UNCHANGED <<now, accepted, local, channel, body, view, filed>>
      BY <1>8 DEF Publish
    <2>2. published' = Whole(v) /\ Whole(v).version = v /\ Whole(v).whole
      BY <1>0, <1>8, CopyFields DEF Publish, TypeOK
    <2>3. CopiesWereAccepted' /\ FiledIsStored'
      BY <2>1, <2>2 DEF IInv, CopiesWereAccepted, FiledIsStored
    <2>4. now' >= now
      BY <2>1, <1>n, SMT
    <2> QED
      BY <1>0, <2>1, <2>3, <2>4, PageLeftAlone DEF IInv
  <1>9. ASSUME NEW v \in pending, Deliver(v)
        PROVE  IInv'
    <2>1. v \in Version /\ v \in accepted /\ UNCHANGED <<now, accepted, published>>
      BY <1>0, <1>9 DEF Deliver, TypeOK
    <2>2. CASE local' = Whole(v) /\ filed' = {v} /\ Open
      <3>1. Page'
        BY <2>2, NothingShown DEF Open
      <3>2. CopiesWereAccepted' /\ FiledIsStored'
        BY <2>1, <2>2, CopyFields, CopyIsSome
        DEF Open, IInv, CopiesWereAccepted, FiledIsStored
      <3> QED
        BY <1>0, <3>1, <3>2 DEF IInv
    <2>3. CASE /\ local' \in {local, Junk, Cut(v)} /\ filed' = {}
               /\ UNCHANGED <<channel, body, view>>
      <3>1. CopiesWereAccepted' /\ FiledIsStored'
        BY <2>1, <2>3, CopyFields, CopyIsSome
        DEF IInv, CopiesWereAccepted, FiledIsStored
      <3>2. local' = local \/ ~(local' \in Copy /\ local'.whole)
        BY <2>1, <2>3, CopyFields, CopyIsSome
      <3>3. now' >= now
        BY <2>1, <1>n, SMT
      <3> QED
        BY <1>0, <2>1, <2>3, <3>1, <3>2, <3>3, PageLeftAlone DEF IInv
    <2> QED
      BY <1>9, <2>2, <2>3 DEF Deliver
  <1>10. CASE Elapse
    <2>1. UNCHANGED <<accepted, published, local, channel, body, view, filed>> /\ now' >= now
      BY <1>10, <1>n, SMT DEF Elapse
    <2>2. CopiesWereAccepted'
      BY <2>1 DEF IInv, CopiesWereAccepted
    <2>3. FiledIsStored'
      <3>1. \A v \in filed : v.time + Week \in Nat
        BY <1>0, <1>n, SMT DEF TypeOK
      <3> QED
        BY <1>10, <1>n, <2>1, <3>1, SMT DEF Elapse, IInv, FiledIsStored
    <2> QED
      BY <1>0, <2>1, <2>2, <2>3, PageLeftAlone DEF IInv
  <1>11. CASE Crash
    <2>1. Page'
      BY <1>11, NothingShown DEF Crash, Close
    <2>2. CopiesWereAccepted' /\ FiledIsStored'
      <3>1. \A v \in pending : v \in Version
        BY <1>0 DEF TypeOK
      <3> QED
        BY <1>11, <3>1, CopyFields, CopyIsSome
        DEF Crash, Close, IInv, CopiesWereAccepted, FiledIsStored
    <2> QED
      BY <1>0, <2>1, <2>2 DEF IInv
  <1>12. CASE Restart
    <2>1. UNCHANGED <<now, accepted, published, channel, body, view, filed>>
      BY <1>12 DEF Restart
    <2>2. view' = Missing
      BY <1>12 DEF Restart, IInv, ShownAfterAnswer
    <2>3. CopiesWereAccepted'
      BY <1>12, CopyIsSome DEF Restart, IInv, CopiesWereAccepted
    <2>4. ASSUME NEW v \in filed, local = Whole(v)
          PROVE  now >= v.time + Week
      <3>1. v \in Version /\ local.version = v
        BY <1>0, <2>4, CopyFields DEF TypeOK
      <3> QED
        BY <1>12, <1>n, <3>1, SMT DEF Restart
    <2>5. FiledIsStored'
      BY <2>1, <2>4 DEF IInv, FiledIsStored
    <2> QED
      BY <1>0, <2>2, <2>3, <2>5, NothingShown DEF IInv
  <1>13. CASE UNCHANGED vars
    BY <1>13 DEF vars, IInv, TypeOK, ShownAfterAnswer, CopiesWereAccepted,
       FiledIsStored, NeverOlder, ShowsWhatThereIs, CutHeals, ShownWasAccepted,
       ReadYourWrites
  <1> QED
    BY <1>1, <1>2, <1>3, <1>4, <1>6, <1>7, <1>8, <1>9, <1>10, <1>11, <1>12, <1>13
    DEF Next

(* The properties of what is shown, together with where the copies come    *)
(* from, are inductive.                                                    *)
THEOREM Invariant == Spec => []IInv
  BY InitIInv, IInvStep, PTL DEF Spec

(* Every copy there is, is a version and whether it is whole.              *)
THEOREM TypeCorrect == Spec => []TypeOK
  <1>1. IInv => TypeOK
    BY DEF IInv
  <1> QED
    BY <1>1, Invariant, PTL

(* No page shows a text older than the copy on disk or the server's answer.*)
THEOREM Newest == Spec => []NeverOlder
  <1>1. IInv => NeverOlder
    BY DEF IInv
  <1> QED
    BY <1>1, Invariant, PTL

(* A page fails to load only if there is no copy of the post at all.       *)
THEOREM Availability == Spec => []ShowsWhatThereIs
  <1>1. IInv => ShowsWhatThereIs
    BY DEF IInv
  <1> QED
    BY <1>1, Invariant, PTL

(* A copy cut short gives way to the server's copy of the same version.    *)
THEOREM Healing == Spec => []CutHeals
  <1>1. IInv => CutHeals
    BY DEF IInv
  <1> QED
    BY <1>1, Invariant, PTL

(* Everything shown was accepted by the server.                            *)
THEOREM Provenance == Spec => []ShownWasAccepted
  <1>1. IInv => ShownWasAccepted
    BY DEF IInv
  <1> QED
    BY <1>1, Invariant, PTL

(* For a week, what was sent and filed here is shown, or something newer.  *)
THEOREM OwnWrites == Spec => []ReadYourWrites
  <1>1. IInv => ReadYourWrites
    BY DEF IInv
  <1> QED
    BY <1>1, Invariant, PTL
=============================================================================

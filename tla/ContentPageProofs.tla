-------------------------- MODULE ContentPageProofs --------------------------
(***************************************************************************)
(* Proofs about ContentPage, for every kind of page and any bound on pages.*)
(*                                                                         *)
(* A view can be cached only if the user was read by an earlier tick; and  *)
(* that tick has already gone to limbo if the user was not found.  So the  *)
(* tick that caches a view never refreshes the component under it.         *)
(***************************************************************************)
EXTENDS ContentPage, TLAPS

(* The channels were opened for what the component is set to.              *)
AskedIsCurrent == asked = [limbo |-> limbo, all |-> all, offset |-> offset]

(* A user who is known to be missing was looked for in limbo.              *)
MissingIsInLimbo ==
    Kind = "user" /\ chan["entity"] = "ready" /\ entity = "missing" => limbo

(* Tags are edited only of a post or user that has been read.              *)
TagsHaveEntity ==
    tagSig => "entity" \in Channels /\ chan["entity"] = "ready" /\ entity = "found"

(* "previous page" was drawn for a page that had one.                      *)
PrevHasPage ==
    "prev" \in shown.areas => offset >= 0 /\ (cached => offset > 0)

IInv ==
    /\ TypeOK
    /\ CachedIsComplete
    /\ CachedIsCurrent
    /\ TagEditorRefreshes
    /\ OffsetBounded
    /\ AskedIsCurrent
    /\ MissingIsInLimbo
    /\ TagsHaveEntity
    /\ PrevHasPage

LEMMA Kinds ==
  /\ "content" \in Channels /\ "posts" \in Channels
  /\ Kind = "user" => "entity" \in Channels
  BY KindAssumption DEF Channels

LEMMA InitIInv == Init => IInv
  <1> SUFFICES ASSUME Init PROVE IInv
    OBVIOUS
  <1>1. asked \in Asked /\ 0 \in -1..MaxPage
    BY MaxPageAssumption, SMT DEF Init, Asked
  <1>2. chan \in [Channels -> Status \ {"none"}] /\ \A c \in Channels : chan[c] = "sent"
    BY DEF Init, Sent, Status
  <1>3. shown \in View /\ shown.areas = {}
    BY <1>1 DEF Init, View
  <1>4. limbo \in BOOLEAN /\ all = FALSE /\ offset = 0 /\ cached = FALSE /\ tagSig = FALSE
    BY DEF Init
  <1>5. TypeOK
    BY <1>1, <1>2, <1>3, <1>4 DEF Init, TypeOK, Status
  <1>6. CachedIsComplete /\ CachedIsCurrent /\ TagEditorRefreshes /\ TagsHaveEntity
    BY <1>4 DEF CachedIsComplete, CachedIsCurrent, TagEditorRefreshes, TagsHaveEntity
  <1>7. OffsetBounded /\ PrevHasPage
    BY <1>3, <1>4, SMT DEF OffsetBounded, PrevHasPage
  <1>8. AskedIsCurrent
    BY DEF Init, AskedIsCurrent
  <1>9. MissingIsInLimbo
    BY <1>2, Kinds DEF MissingIsInLimbo
  <1> QED
    BY <1>5, <1>6, <1>7, <1>8, <1>9 DEF IInv

(* The view that a tick builds, and what building it leaves.               *)
LEMMA Built ==
  ASSUME IInv
  PROVE  /\ Limbo1 \in BOOLEAN /\ Asked1 \in Asked
         /\ Asked1 = [limbo |-> Limbo1, all |-> all, offset |-> offset]
         /\ Chan1 \in [Channels -> Status \ {"none"}]
         /\ Sent \in [Channels -> Status \ {"none"}]
         /\ Items1 \in Status /\ TagSig1 \in BOOLEAN /\ TagReq1 \in Status
         /\ Areas \in SUBSET Area
  <1>1. Limbo1 \in BOOLEAN
    BY DEF Limbo1, FallsBack, IInv, TypeOK
  <1>2. Asked1 = [limbo |-> Limbo1, all |-> all, offset |-> offset]
    BY DEF Asked1, IInv, AskedIsCurrent
  <1>3. Asked1 \in Asked
    BY <1>1, <1>2 DEF Asked, IInv, TypeOK
  <1>4. Sent \in [Channels -> Status \ {"none"}]
    BY DEF Sent, Status
  <1>5. [c \in Channels |-> Got(chan[c])] \in [Channels -> Status \ {"none"}]
    BY DEF Got, Status, IInv, TypeOK
  <1>6. Chan1 \in [Channels -> Status \ {"none"}]
    BY <1>4, <1>5 DEF Chan1, IInv, TypeOK
  <1>7. Items1 \in Status
    BY SMT DEF Items1, Listing, Got, Status, IInv, TypeOK
  <1>8. TagSig1 \in BOOLEAN /\ TagReq1 \in Status
    BY DEF TagSig1, TagReq1, Got, Status, FallsBack, Tagging, IInv, TypeOK
  <1>9. Areas \in SUBSET Area
    BY DEF Areas, Area
  <1> QED
    BY <1>1, <1>2, <1>3, <1>4, <1>6, <1>7, <1>8, <1>9

(* If the view is done, no refresh happened under it, and it is complete.  *)
LEMMA FinishedView ==
  ASSUME IInv, ~cached, Finished
  PROVE  /\ ~FallsBack
         /\ \A c \in Channels : Chan1[c] = "ready"
         /\ Listing => Items1 = "ready"
         /\ ~animating /\ ~Tagging
  <1>1. ~FallsBack
    <2> SUFFICES ASSUME FallsBack PROVE FALSE
      OBVIOUS
    <2>1. Kind = "user" /\ entity = "missing" /\ ~limbo
      BY DEF FallsBack
    <2>2. chan["entity"] = "ready"
      BY <2>1, Kinds DEF Finished, Read
    <2> QED
      BY <2>1, <2>2 DEF IInv, MissingIsInLimbo
  <1>2. \A c \in Channels : Chan1[c] = Got(chan[c])
    BY <1>1 DEF Chan1
  <1>3. \A c \in Channels : Chan1[c] = "ready"
    BY <1>2 DEF Finished, Read, Got
  <1>4. ~animating
    BY <1>3, Kinds DEF Finished, Moving
  <1> QED
    BY <1>1, <1>3, <1>4 DEF Finished

(* The view that is drawn is of the type of a view.                        *)
LEMMA DrawnView ==
  ASSUME IInv, Draw
  PROVE  /\ shown' \in View
         /\ cached => shown' = shown
         /\ ~cached => /\ shown'.asked = Asked1
                       /\ shown'.areas = Areas
                       /\ Finished => shown'.complete
  <1> DEFINE complete == /\ \A c \in Channels : Chan1[c] = "ready"
                         /\ Listing => Items1 = "ready"
                         /\ ~animating
  <1>1. Asked1 \in Asked /\ Areas \in SUBSET Area /\ complete \in BOOLEAN
    BY Built
  <1>2. ~cached => shown' = [asked |-> Asked1, complete |-> complete, areas |-> Areas]
    BY DEF Draw
  <1>3. cached => shown' = shown
    BY DEF Draw
  <1>4. ~cached /\ Finished => complete
    BY FinishedView
  <1> HIDE DEF complete
  <1> QED
    BY <1>1, <1>2, <1>3, <1>4 DEF View, IInv, TypeOK

(* "previous page" is drawn only of pages after the first.                 *)
LEMMA DrawnPrev ==
  ASSUME IInv, Draw, "prev" \in shown'.areas
  PROVE  offset >= 0 /\ (cached \/ offset > 0) /\ (cached => offset > 0)
  <1>1. CASE cached
    BY <1>1, SMT DEF Draw, IInv, PrevHasPage
  <1>2. CASE ~cached
    <2>1. "prev" \in Areas
      BY <1>2, DrawnView
    <2>2. offset > 0
      BY <2>1, Zenon DEF Areas
    <2> QED
      BY <1>2, <2>2, SMT DEF IInv, TypeOK
  <1> QED
    BY <1>1, <1>2

(* refresh                                                                 *)
LEMMA RefreshStep ==
  ASSUME IInv, NEW a \in BOOLEAN, NEW o \in -1..MaxPage, Refresh(a, o),
         "prev" \in shown'.areas => o >= 0
  PROVE  IInv'
  <1>1. limbo' \in BOOLEAN /\ all' = a /\ offset' = o
    BY Built DEF Refresh
  <1>2. asked' = [limbo |-> limbo', all |-> all', offset |-> offset']
    BY <1>1 DEF Refresh
  <1>3. asked' \in Asked
    BY <1>1, <1>2 DEF Asked
  <1>4. TypeOK'
    BY <1>1, <1>3, Built, DrawnView DEF Refresh, IInv, TypeOK, Status
  <1>5. CachedIsComplete' /\ CachedIsCurrent' /\ TagEditorRefreshes' /\ TagsHaveEntity'
    BY DEF Refresh, CachedIsComplete, CachedIsCurrent, TagEditorRefreshes, TagsHaveEntity
  <1>6. AskedIsCurrent'
    BY <1>2 DEF AskedIsCurrent
  <1>7. OffsetBounded' /\ PrevHasPage'
    BY <1>1, SMT DEF Refresh, OffsetBounded, PrevHasPage
  <1>8. MissingIsInLimbo'
    BY Kinds DEF Refresh, Sent, MissingIsInLimbo
  <1> QED
    BY <1>4, <1>5, <1>6, <1>7, <1>8 DEF IInv

(* A tick whose input leaves the channels alone: the tags, and with them   *)
(* the cached view, may differ.                                            *)
LEMMA SettleStep ==
  ASSUME IInv, Settle, UNCHANGED <<all, offset>>,
         tagSig' \in BOOLEAN, tagReq' \in Status,
         cached' \in {cached \/ Finished, FALSE},
         tagSig' => \/ tagSig
                    \/ "entity" \in Channels /\ Chan1["entity"] = "ready" /\ entity = "found",
         tagSig' => tagSig \/ cached' = FALSE
  PROVE  IInv'
  <1>1. /\ limbo' = Limbo1 /\ asked' = Asked1 /\ chan' = Chan1 /\ items' = Items1
        /\ Draw /\ UNCHANGED <<posts, entity>>
    BY Zenon DEF Settle
  <1>a. animating' \in BOOLEAN
    BY DEF Settle, FallsBack, IInv, TypeOK
  <1>2. cached' \in BOOLEAN
    BY DEF IInv, TypeOK, Finished
  <1>3. TypeOK'
    BY <1>1, <1>a, <1>2, Built, DrawnView DEF IInv, TypeOK
  <1>4. cached => ~FallsBack /\ Limbo1 = limbo /\ Chan1 = chan
    BY DEF FallsBack, Limbo1, Chan1, IInv, TypeOK
  <1>5. CachedIsComplete'
    BY <1>1, DrawnView DEF IInv, CachedIsComplete
  <1>6. AskedIsCurrent'
    BY <1>1, Built DEF AskedIsCurrent
  <1>7. CachedIsCurrent'
    <2>1. CASE cached
      BY <1>1, <1>4, <2>1, DrawnView DEF IInv, CachedIsCurrent
    <2>2. CASE ~cached
      BY <1>1, <2>2, DrawnView, Built DEF CachedIsCurrent
    <2> QED
      BY <2>1, <2>2
  <1>8. tagSig => /\ "entity" \in Channels /\ Chan1["entity"] = "ready" /\ entity = "found"
                  /\ ~cached
    BY DEF IInv, TagsHaveEntity, TagEditorRefreshes, Chan1, FallsBack, Got
  <1>9. TagsHaveEntity'
    BY <1>1, <1>8 DEF TagsHaveEntity
  <1>10. TagEditorRefreshes'
    <2> SUFFICES ASSUME tagSig', cached' PROVE FALSE
      BY DEF TagEditorRefreshes
    <2>1. tagSig /\ ~cached /\ Finished
      BY <1>8
    <2>2. Tagging
      BY <1>8, <2>1 DEF Tagging
    <2> QED
      BY <2>1, <2>2, FinishedView
  <1>11. MissingIsInLimbo'
    <2> SUFFICES ASSUME Kind = "user", Chan1["entity"] = "ready", entity = "missing"
                 PROVE  Limbo1
      BY <1>1 DEF MissingIsInLimbo
    <2>1. CASE cached
      BY <2>1, <1>4 DEF IInv, MissingIsInLimbo
    <2>2. CASE ~cached /\ ~FallsBack
      BY <2>2, Kinds DEF Chan1, FallsBack, Limbo1
    <2>3. CASE FallsBack
      BY <2>3 DEF Limbo1
    <2> QED
      BY <2>1, <2>2, <2>3
  <1>12. OffsetBounded' /\ PrevHasPage'
    <2>1. "prev" \in shown'.areas => offset > 0
      BY <1>1, DrawnPrev
    <2> QED
      BY <2>1, SMT DEF IInv, OffsetBounded, PrevHasPage, TypeOK
  <1> QED
    BY <1>3, <1>5, <1>6, <1>7, <1>9, <1>10, <1>11, <1>12 DEF IInv

(* An answer, or time, only touches what no cached view depends on.        *)
LEMMA BackgroundStep ==
  ASSUME IInv, TypeOK',
         UNCHANGED <<limbo, all, offset, asked, tagSig, cached, shown>>,
         \/ UNCHANGED <<chan, entity>>
         \/ \E c \in Channels :
               /\ chan[c] = "sent" /\ chan' = [chan EXCEPT ![c] = "arrived"]
               /\ c # "entity" => entity' = entity
  PROVE  IInv'
  <1>1. /\ CachedIsComplete' /\ CachedIsCurrent' /\ TagEditorRefreshes'
        /\ OffsetBounded' /\ AskedIsCurrent' /\ PrevHasPage'
    BY DEF IInv, CachedIsComplete, CachedIsCurrent, TagEditorRefreshes,
           OffsetBounded, AskedIsCurrent, PrevHasPage
  <1>2. CASE UNCHANGED <<chan, entity>>
    BY <1>1, <1>2 DEF IInv, MissingIsInLimbo, TagsHaveEntity
  <1>3. ASSUME NEW c \in Channels, chan[c] = "sent",
               chan' = [chan EXCEPT ![c] = "arrived"],
               c # "entity" => entity' = entity
        PROVE  MissingIsInLimbo' /\ TagsHaveEntity'
    <2>1. CASE c = "entity"
      BY <1>3, <2>1, Kinds DEF IInv, TypeOK, MissingIsInLimbo, TagsHaveEntity
    <2>2. CASE c # "entity"
      BY <1>3, <2>2, Kinds DEF IInv, TypeOK, MissingIsInLimbo, TagsHaveEntity
    <2> QED
      BY <2>1, <2>2
  <1> QED
    BY <1>1, <1>2, <1>3 DEF IInv

LEMMA IInvStep == IInv /\ [Next]_vars => IInv'
  <1> SUFFICES ASSUME IInv, [Next]_vars PROVE IInv'
    OBVIOUS
  <1>0. /\ TagSig1 \in BOOLEAN /\ TagReq1 \in Status /\ "sent" \in Status
        /\ TagSig1 => tagSig
    BY Built DEF Status, TagSig1
  <1>t. /\ all \in BOOLEAN /\ offset \in -1..MaxPage /\ 0 \in -1..MaxPage
        /\ "prev" \in shown.areas => offset >= 0
    BY MaxPageAssumption, SMT DEF IInv, TypeOK, PrevHasPage
  <1>1. CASE RefreshPage
    <2>1. Refresh(all, offset) /\ Draw
      BY <1>1 DEF RefreshPage, Refresh
    <2> QED
      BY <1>t, <2>1, DrawnPrev, RefreshStep
  <1>2. CASE TogglePosts
    <2>1. Refresh(~all, 0)
      BY <1>2 DEF TogglePosts
    <2>3. (~all) \in BOOLEAN
      BY SMT
    <2>2. "prev" \in shown'.areas => 0 >= 0
      BY SMT
    <2> QED
      BY <1>t, <2>1, <2>2, <2>3, RefreshStep
  <1>3. CASE PreviousPage
    <2>1. Refresh(all, offset - 1) /\ Draw /\ offset >= 0
      BY <1>3, <1>t DEF PreviousPage, Refresh
    <2>2. offset - 1 \in -1..MaxPage
      BY <1>t, <2>1, MaxPageAssumption, SMT
    <2>3. "prev" \in shown'.areas => offset > 0
      <3> SUFFICES ASSUME "prev" \in shown'.areas PROVE offset > 0
        OBVIOUS
      <3>1. CASE cached
        BY <2>1, <3>1, DrawnPrev
      <3>2. CASE ~cached
        BY <2>1, <3>2, DrawnPrev
      <3> QED
        BY <3>1, <3>2
    <2>4. "prev" \in shown'.areas => offset - 1 >= 0
      BY <1>t, <2>3, SMT
    <2> QED
      BY <1>t, <2>1, <2>2, <2>4, RefreshStep
  <1>4. CASE NextPage
    <2>1. Refresh(all, offset + 1) /\ Draw /\ offset < MaxPage
      BY <1>4 DEF NextPage, Refresh
    <2>2. offset + 1 \in -1..MaxPage /\ offset + 1 >= 0
      BY <1>t, <2>1, MaxPageAssumption, SMT
    <2> QED
      BY <1>t, <2>1, <2>2, RefreshStep
  <1>5. CASE EditTags
    BY <1>0, <1>5, SettleStep DEF EditTags
  <1>6. CASE SubmitTags
    BY <1>0, <1>6, SettleStep DEF SubmitTags
  <1>7. CASE CancelTags
    BY <1>0, <1>7, SettleStep DEF CancelTags
  <1>8. CASE IdleTick
    BY <1>0, <1>8, SettleStep DEF IdleTick
  <1>9. ASSUME NEW c \in Channels, Answer(c)
        PROVE  IInv'
    <2>1. TypeOK'
      BY <1>9 DEF Answer, IInv, TypeOK, Status
    <2> QED
      BY <1>9, <2>1, BackgroundStep DEF Answer
  <1>10. CASE AnswerItems
    BY <1>10, BackgroundStep DEF AnswerItems, IInv, TypeOK, Status
  <1>11. CASE AnswerTags
    BY <1>11, BackgroundStep DEF AnswerTags, IInv, TypeOK, Status
  <1>12. CASE EndAnimation
    BY <1>12, BackgroundStep DEF EndAnimation, IInv, TypeOK
  <1>13. CASE UNCHANGED vars
    BY <1>13, BackgroundStep DEF vars, IInv, TypeOK
  <1> QED
    BY <1>1, <1>2, <1>3, <1>4, <1>5, <1>6, <1>7, <1>8, <1>9, <1>10, <1>11, <1>12, <1>13
    DEF Next, User

(* The properties of cached views, together with where they come from, are *)
(* inductive.                                                              *)
THEOREM Invariant == Spec => []IInv
  BY InitIInv, IInvStep, PTL DEF Spec

(* Every variable of a page of content stays in its type.                  *)
THEOREM TypeCorrect == Spec => []TypeOK
  <1>1. IInv => TypeOK
    BY DEF IInv
  <1> QED
    BY <1>1, Invariant, PTL

(* No view that still says "loading..." is ever cached.                    *)
THEOREM Complete == Spec => []CachedIsComplete
  <1>1. IInv => CachedIsComplete
    BY DEF IInv
  <1> QED
    BY <1>1, Invariant, PTL

(* A cached view shows the tab, the page and the limbo that are set.       *)
THEOREM Current == Spec => []CachedIsCurrent
  <1>1. IInv => CachedIsCurrent
    BY DEF IInv
  <1> QED
    BY <1>1, Invariant, PTL

(* No cached view hides the tag editor or the outcome of its request.      *)
THEOREM TagEditor == Spec => []TagEditorRefreshes
  <1>1. IInv => TagEditorRefreshes
    BY DEF IInv
  <1> QED
    BY <1>1, Invariant, PTL

(* Paging goes at most one page too far.                                   *)
THEOREM Paging == Spec => []OffsetBounded
  <1>1. IInv => OffsetBounded
    BY DEF IInv
  <1> QED
    BY <1>1, Invariant, PTL
=============================================================================

---------------------------- MODULE ContentPage ----------------------------
(***************************************************************************)
(* Loading and showing one page of content (ui.toNodes, ui.refresh) within *)
(* bbs.tick: the answers of the server come in any order, a view that is   *)
(* complete is cached, and the author pages through the posts, switches    *)
(* tabs, refreshes, and edits tags.                                        *)
(*                                                                         *)
(* A tick first builds the view (or takes the cached one), then handles the*)
(* input by the focus areas the tick before has left, then draws the view  *)
(* it built at first.  So an action here is one tick with one input, and   *)
(* the areas the next input meets are those of a view older than the       *)
(* change this input made.  The operators ending in 1 are what the state is*)
(* once the view was built.                                                *)
(***************************************************************************)
EXTENDS Integers

CONSTANTS
    Kind,       \* "user", "board" (the user page of the board) or "post"
    MaxPage     \* bound on the page of posts asked for

ASSUME KindAssumption == Kind \in {"user", "board", "post"}
ASSUME MaxPageAssumption == MaxPage \in Nat

(* postContent or userContent; replies or userPosts; post or user.         *)
Channels == IF Kind = "board" THEN {"content", "posts"}
                              ELSE {"content", "posts", "entity"}

Status == {"none", "sent", "arrived", "ready"}
Asked  == [limbo: BOOLEAN, all: BOOLEAN, offset: -1..MaxPage]
Area   == {"prev", "next", "toggle", "tags"}
View   == [asked: Asked, complete: BOOLEAN, areas: SUBSET Area]

VARIABLES
    limbo,      \* comp.limbo
    all,        \* comp.showAllPosts
    offset,     \* comp.offset, in pages
    asked,      \* what the channels were opened for
    chan,       \* the status of each channel; "arrived" is not yet read
    posts,      \* the list of posts that arrived
    entity,     \* the post or user that arrived
    items,      \* comp.cache: the contents of the posts listed
    animating,  \* the content has lines that move for a while
    tagSig,     \* editTags.sig or editExtraTags.sig is not empty
    tagReq,     \* and the status of the request
    cached,     \* page.view is not nil
    shown       \* the view drawn last; page.viewFocusAreas are its areas

vars == <<limbo, all, offset, asked, chan, posts, entity, items, animating,
          tagSig, tagReq, cached, shown>>

TypeOK ==
    /\ limbo \in BOOLEAN /\ all \in BOOLEAN /\ offset \in -1..MaxPage
    /\ asked \in Asked
    /\ chan \in [Channels -> Status \ {"none"}]
    /\ posts \in {"error", "empty", "part", "full"}
    /\ entity \in {"error", "missing", "found"}
    /\ items \in Status
    /\ animating \in BOOLEAN
    /\ tagSig \in BOOLEAN /\ tagReq \in Status
    /\ cached \in BOOLEAN
    /\ shown \in View

-----------------------------------------------------------------------------
Sent == [c \in Channels |-> "sent"]

(* insertPage with a component that initUser or initPost just refreshed; a *)
(* link on a limbo page leads to a limbo page.                             *)
Init ==
    /\ limbo \in BOOLEAN /\ all = FALSE /\ offset = 0
    /\ asked = [limbo |-> limbo, all |-> FALSE, offset |-> 0]
    /\ chan = Sent
    /\ posts = "empty" /\ entity = "missing"
    /\ items = "none" /\ animating = FALSE
    /\ tagSig = FALSE /\ tagReq = "none"
    /\ cached = FALSE
    /\ shown = [asked |-> asked, complete |-> FALSE, areas |-> {}]

(* client.get: an answer that has arrived is ready from now on.            *)
Got(status) == IF status = "arrived" THEN "ready" ELSE status

(* A user the board does not know may be in limbo: the component refreshes *)
(* itself while its view is built.                                         *)
FallsBack ==
    /\ ~cached /\ Kind = "user" /\ ~limbo
    /\ Got(chan["entity"]) = "ready" /\ entity = "missing"

Limbo1 == limbo \/ FallsBack
Asked1 == [asked EXCEPT !.limbo = Limbo1]
Chan1  == CASE cached    -> chan
            [] FallsBack -> Sent
            [] OTHER     -> [c \in Channels |-> Got(chan[c])]

(* The contents of the posts are asked for once their list is there.       *)
Listing == ~cached /\ Chan1["posts"] = "ready" /\ posts \in {"part", "full"}
Items1  == CASE FallsBack                  -> "none"
             [] Listing /\ items = "none"  -> "sent"
             [] Listing /\ items # "none"  -> Got(items)
             [] OTHER                      -> items

(* The tag editor, or what became of its request, is part of the view.     *)
Tagging ==
    /\ ~cached /\ tagSig /\ "entity" \in Channels
    /\ Chan1["entity"] = "ready" /\ entity = "found"
TagSig1 == tagSig /\ ~FallsBack
TagReq1 == CASE FallsBack -> "none"
             [] Tagging   -> Got(tagReq)
             [] OTHER     -> tagReq

(* What finishedLoading finds in the channels.  It is computed before the  *)
(* user is read, and before the refresh that reading it may cause: what the*)
(* tick read by then may be gone from the view it is about.                *)
Read == [c \in Channels |-> IF c = "entity" /\ Kind = "user" THEN chan[c]
                                                             ELSE Got(chan[c])]

(* Content that moves, or a post listed that is not there yet, takes it    *)
(* back; both are part of the view, so they are seen after the refresh.    *)
Moving == Chan1["content"] = "ready" /\ animating

(* mutant: the user is read before finishedLoading looks at it             *)
FinishedEager ==
    /\ \A c \in Channels : Got(chan[c]) = "ready"
    /\ ~Tagging
    /\ Listing => Items1 = "ready"
    /\ ~Moving

(* mutant: a post that failed to load is no reason to be done              *)
FinishedUnlessError ==
    /\ \A c \in Channels : Read[c] = "ready"
    /\ posts # "error"
    /\ ~Tagging
    /\ Listing => Items1 = "ready"
    /\ ~Moving

(* finishedLoading at the end of building the view.                        *)
Finished ==
    /\ \A c \in Channels : Read[c] = "ready"
    /\ ~Tagging
    /\ Listing => Items1 = "ready"
    /\ ~Moving

Areas ==
    (IF Kind = "user" THEN {"toggle"} ELSE {})
      \cup (IF Tagging /\ tagReq = "none" THEN {"tags"} ELSE {})
      \cup (IF Chan1["posts"] = "ready" /\ posts # "error"
            THEN (IF offset > 0 THEN {"prev"} ELSE {})
                   \cup (IF posts = "full" THEN {"next"} ELSE {})
            ELSE {})

(* The view of this tick, which is drawn at its end whatever the input did.*)
Draw ==
    shown' = IF cached THEN shown
             ELSE [asked    |-> Asked1,
                   complete |-> /\ \A c \in Channels : Chan1[c] = "ready"
                                /\ Listing => Items1 = "ready"
                                /\ ~animating,
                   areas    |-> Areas]

(* What building the view leaves of the component, if no input changes it. *)
Settle ==
    /\ limbo' = Limbo1 /\ asked' = Asked1
    /\ chan' = Chan1 /\ items' = Items1
    /\ animating' = (animating /\ ~FallsBack)
    /\ Draw
    /\ UNCHANGED <<posts, entity>>

(* mutant: the view survives a refresh                                     *)
RefreshKeepingView(a, o) ==
    /\ all' = a /\ offset' = o
    /\ limbo' = Limbo1
    /\ asked' = [limbo |-> Limbo1, all |-> a, offset |-> o]
    /\ chan' = Sent /\ items' = "none" /\ animating' = FALSE
    /\ tagSig' = FALSE /\ tagReq' = "none"
    /\ cached' = (cached \/ Finished)
    /\ Draw
    /\ UNCHANGED <<posts, entity>>

(* refresh, with what the input changed in the component before it.        *)
Refresh(a, o) ==
    /\ all' = a /\ offset' = o
    /\ limbo' = Limbo1
    /\ asked' = [limbo |-> Limbo1, all |-> a, offset |-> o]
    /\ chan' = Sent /\ items' = "none" /\ animating' = FALSE
    /\ tagSig' = FALSE /\ tagReq' = "none"
    /\ cached' = FALSE
    /\ Draw
    /\ UNCHANGED <<posts, entity>>

-----------------------------------------------------------------------------
(* A tick without input, or with one that does nothing to the component.   *)
IdleTick ==
    /\ Settle
    /\ cached' = (cached \/ Finished)
    /\ tagSig' = TagSig1 /\ tagReq' = TagReq1
    /\ UNCHANGED <<all, offset>>

(* Ctrl-R and the refresh button.                                          *)
RefreshPage == Refresh(all, offset)

(* toggle-user-posts                                                       *)
TogglePosts ==
    /\ "toggle" \in shown.areas
    /\ Refresh(~all, 0)

(* change-page                                                             *)
PreviousPage ==
    /\ "prev" \in shown.areas
    /\ Refresh(all, offset - 1)

NextPage ==
    /\ "next" \in shown.areas /\ offset < MaxPage
    /\ Refresh(all, offset + 1)

(* mutant: the cached view stays                                           *)
EditTagsBehindView ==
    /\ "entity" \in Channels /\ Chan1["entity"] = "ready" /\ entity # "error"
    /\ Settle
    /\ tagSig' = (entity = "found") /\ tagReq' = TagReq1
    /\ cached' = (cached \/ Finished)
    /\ UNCHANGED <<all, offset>>

(* Ctrl-X, once the post or user has been read.  A user found nowhere has  *)
(* no tags to edit; the view is built anew all the same.                   *)
EditTags ==
    /\ "entity" \in Channels /\ Chan1["entity"] = "ready" /\ entity # "error"
    /\ Settle
    /\ tagSig' = (entity = "found") /\ tagReq' = TagReq1
    /\ cached' = FALSE
    /\ UNCHANGED <<all, offset>>

(* Enter in the tag editor the author saw.                                 *)
SubmitTags ==
    /\ "tags" \in shown.areas
    /\ Settle
    /\ tagReq' = "sent" /\ tagSig' = TagSig1
    /\ cached' = (cached \/ Finished)
    /\ UNCHANGED <<all, offset>>

(* Escape in the tag editor the author saw.                                *)
CancelTags ==
    /\ "tags" \in shown.areas
    /\ Settle
    /\ tagSig' = FALSE /\ tagReq' = TagReq1
    /\ cached' = (cached \/ Finished)
    /\ UNCHANGED <<all, offset>>

(* The worker puts an answer into a channel.  A limbo page finds the user  *)
(* or not; what the board does not know is no post page.                   *)
Answer(c) ==
    /\ chan[c] = "sent"
    /\ chan' = [chan EXCEPT ![c] = "arrived"]
    /\ IF c = "posts" THEN posts' \in {"error", "empty", "part", "full"}
                      ELSE UNCHANGED posts
    /\ IF c = "entity" THEN entity' \in {"error", "found"} \cup
                                        (IF Kind = "user" THEN {"missing"} ELSE {})
                       ELSE UNCHANGED entity
    /\ IF c = "content" THEN animating' \in BOOLEAN ELSE UNCHANGED animating
    /\ UNCHANGED <<limbo, all, offset, asked, items, tagSig, tagReq, cached, shown>>

AnswerItems ==
    /\ items = "sent" /\ items' = "arrived"
    /\ UNCHANGED <<limbo, all, offset, asked, chan, posts, entity, animating,
                   tagSig, tagReq, cached, shown>>

AnswerTags ==
    /\ tagReq = "sent" /\ tagReq' = "arrived"
    /\ UNCHANGED <<limbo, all, offset, asked, chan, posts, entity, items,
                   animating, tagSig, cached, shown>>

(* The lines have come to rest.                                            *)
EndAnimation ==
    /\ animating /\ chan["content"] = "ready"
    /\ animating' = FALSE
    /\ UNCHANGED <<limbo, all, offset, asked, chan, posts, entity, items,
                   tagSig, tagReq, cached, shown>>

User ==
    \/ RefreshPage
    \/ TogglePosts
    \/ PreviousPage
    \/ NextPage
    \/ EditTags
    \/ SubmitTags
    \/ CancelTags

Next ==
    \/ User
    \/ IdleTick
    \/ \E c \in Channels : Answer(c)
    \/ AnswerItems
    \/ AnswerTags
    \/ EndAnimation

Spec == Init /\ [][Next]_vars

(* The main loop ticks at least every displaySecs, and the worker answers  *)
(* every request, with an error if need be.                                *)
FairSpec ==
    /\ Spec
    /\ WF_vars(IdleTick) /\ WF_vars(AnswerItems) /\ WF_vars(EndAnimation)
    /\ \A c \in Channels : WF_vars(Answer(c))

-----------------------------------------------------------------------------
(* A cached view lacks nothing: whatever order the answers came in, and    *)
(* although a user page may refresh itself while it is being built, no     *)
(* "loading..." is kept for good.                                          *)
CachedIsComplete == cached => shown.complete

(* ... and what it shows was asked for with the tab, the page and the limbo*)
(* the component is set to now.                                            *)
CachedIsCurrent ==
    cached => shown.asked = [limbo |-> limbo, all |-> all, offset |-> offset]

(* ui.nim: "so the editor will always refresh".  While tags are edited, and*)
(* while their request runs, no view is cached that would hide it.         *)
TagEditorRefreshes == tagSig => ~cached

(* The page of posts asked for lies at most one before the first: the      *)
(* button drawn by the last tick still works after it changed the page, but*)
(* only in the very next tick.                                             *)
OffsetBounded == offset >= -1 /\ ("prev" \in shown.areas => offset >= 0)

(* A page left alone ends up loaded and stays so, whatever was done to it  *)
(* before (refreshed, turned to another page or tab, sent to limbo), unless*)
(* its author stopped in the middle of editing tags.                       *)
Loads == <>[][~User]_vars => <>[](cached \/ tagSig)
=============================================================================

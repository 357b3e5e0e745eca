------------------------------ MODULE Composer ------------------------------
(***************************************************************************)
(* Writing and sending one post of the BBS client: the editor page of one  *)
(* draft file, its automatic saving, the request that submits the text,    *)
(* and what is left in the data directory.                                 *)
(*                                                                         *)
(* One action is one call of bbs.tick (or of the part of it a keypress     *)
(* reaches), so it also does what that tick does at its end: the draft is  *)
(* saved when it is due.  The worker that talks to the server runs between *)
(* ticks.  The page under the editor is of no interest here: "here" only   *)
(* says whether the editor is the page being ticked.                       *)
(*                                                                         *)
(* Time is kept only as far as the code compares it: "dirty" is            *)
(* lastEditTime > lastSaveTime, "settled" is now - lastEditTime > saveDelay.*)
(***************************************************************************)
CONSTANTS
    Texts,      \* the texts an author may write, the empty one left out
    Blank,      \* an editor with one empty line; as a file: missing or empty
    Initial,    \* what show-editor passes as "content": the post being edited
    Torn        \* what may be left of a text when writing it was cut off: the
                \* file is truncated first, so an empty file or a beginning

Text == Texts \cup {Blank}

ASSUME BlankAssumption == Blank \notin Texts
ASSUME InitialAssumption == Initial \in Text
ASSUME TornAssumption ==
    Torn \in [Text -> SUBSET Text] /\ \A text \in Text : Blank \in Torn[text]

VARIABLES
    page,        \* "none" or "open": whether the page has its ComponentData
    here,        \* the editor page is the selected one
    buffer,      \* the lines of the Editor buffer
    dirty,       \* lastEditTime > lastSaveTime
    settled,     \* more than saveDelay since lastEditTime
    editable,    \* the buffer's Editable fact
    req,         \* the component's request, as its channel would answer now
    reqText,     \* requestBody: the text that was signed
    draft,       \* storage: the file named by the page's sig
    sent,        \* storage: the .ansiwave file of the post
    accepted,    \* the texts the server has taken
    orphans,     \* texts on the wire whose answer nobody will read
    writeFailed, \* history: the last write of the draft file failed
    storeFailed  \* history: the last write of the .ansiwave file failed

vars == <<page, here, buffer, dirty, settled, editable, req, reqText, draft,
          sent, accepted, orphans, writeFailed, storeFailed>>

TypeOK ==
    /\ page \in {"none", "open"}
    /\ here \in BOOLEAN
    /\ buffer \in Text
    /\ dirty \in BOOLEAN /\ settled \in BOOLEAN /\ editable \in BOOLEAN
    /\ req \in {"none", "sending", "valid", "error"}
    /\ reqText \in Text
    /\ draft \in Text /\ sent \in Text
    /\ accepted \subseteq Text /\ orphans \subseteq Text
    /\ writeFailed \in BOOLEAN /\ storeFailed \in BOOLEAN

Init ==
    /\ page = "none" /\ here = FALSE
    /\ buffer = Blank /\ dirty = FALSE /\ settled = FALSE /\ editable = FALSE
    /\ req = "none" /\ reqText = Blank
    /\ draft \in Text /\ sent = Blank
    /\ accepted = {} /\ orphans = {}
    /\ writeFailed = FALSE /\ storeFailed = FALSE

-----------------------------------------------------------------------------
(* The request that is dropped when its component goes away.               *)
Unanswered == IF req = "sending" THEN {reqText} ELSE {}

(* storage.set of the draft: it may fail before the file is touched, or    *)
(* after writeFile has truncated it.                                       *)
WriteDraft(text) ==
    \/ draft' = text /\ writeFailed' = FALSE
    \/ draft' \in {draft} \cup Torn[text] /\ writeFailed' = TRUE

(* The same of the .ansiwave file, over an earlier copy if there is one.   *)
StorePost(text) ==
    \/ sent' = text /\ storeFailed' = FALSE
    \/ sent' \in {sent} \cup Torn[text] /\ storeFailed' = TRUE

(* mutant: the two sides of the saveDelay comparison swapped               *)
SaveDueEarly(e) == e /\ dirty /\ ~settled

(* saveToStorage at the end of a tick, e being the Editable fact by then:  *)
(* an empty text removes the file, and a failed write is not tried again.  *)
SaveDue(e) == e /\ dirty /\ settled

SaveToStorage(e) ==
    IF SaveDue(e)
    THEN /\ dirty' = FALSE
         /\ IF buffer = Blank
            THEN draft' = Blank /\ writeFailed' = FALSE
            ELSE WriteDraft(buffer)
    ELSE UNCHANGED <<dirty, draft, writeFailed>>

(* A tick of the editor page that is not spent on a finished request.      *)
Ticking == page = "open" /\ here /\ req # "valid"

(* initEditor: a new component whose buffer is loaded from the draft file; *)
(* inserting its lines counts as an edit.                                  *)
InitEditor(file) ==
    /\ page' = "open"
    /\ buffer' = file /\ dirty' = TRUE /\ settled' = FALSE
    /\ editable' = TRUE
    /\ req' = "none" /\ reqText' = Blank
    /\ orphans' = orphans \cup Unanswered

-----------------------------------------------------------------------------
(* show-editor, when the page exists with something in its buffer.         *)
ReturnToEditor ==
    /\ ~here /\ page = "open" /\ buffer # Blank
    /\ here' = TRUE
    /\ UNCHANGED <<page, buffer, dirty, settled, editable, req, reqText,
                   draft, sent, storeFailed, accepted, orphans, writeFailed>>

(* show-editor otherwise: start again from the file, which first gets the  *)
(* text to be edited when there is no draft of it yet.                     *)
OpenEditor ==
    /\ ~here /\ (page = "none" \/ buffer = Blank)
    /\ here' = TRUE
    /\ IF draft = Blank /\ Initial # Blank
       THEN WriteDraft(Initial)
       ELSE UNCHANGED <<draft, writeFailed>>
    /\ InitEditor(draft')
    /\ UNCHANGED <<sent, storeFailed, accepted>>

(* Escape or the back button: the component stays, nothing is saved.       *)
LeaveEditor ==
    /\ here /\ page = "open"
    /\ here' = FALSE
    /\ UNCHANGED <<page, buffer, dirty, settled, editable, req, reqText,
                   draft, sent, storeFailed, accepted, orphans, writeFailed>>

(* mutant: a change of the lines does not stamp lastEditTime               *)
ChangeBufferUnstamped(text) ==
    /\ buffer' = text /\ settled' = FALSE
    /\ UNCHANGED <<page, here, dirty, editable, req, reqText, draft, sent,
                   storeFailed, accepted, orphans, writeFailed>>

ChangeBuffer(text) ==
    /\ buffer' = text /\ dirty' = TRUE /\ settled' = FALSE
    /\ UNCHANGED <<page, here, editable, req, reqText, draft, sent,
                   storeFailed, accepted, orphans, writeFailed>>

(* Any key or button that changes the lines, undo and redo included.       *)
Type(text) ==
    /\ Ticking /\ editable /\ text # buffer
    /\ ChangeBuffer(text)

(* Two inputs change the lines without looking at Editable: a click in draw*)
(* mode, and Tab on a delete-line prompt left over from before.            *)
LockedEdit(text) ==
    /\ Ticking /\ ~editable /\ text # buffer
    /\ ChangeBuffer(text)

Elapse ==
    /\ page = "open" /\ ~settled
    /\ settled' = TRUE
    /\ UNCHANGED <<page, here, buffer, dirty, editable, req, reqText, draft,
                   sent, storeFailed, accepted, orphans, writeFailed>>

(* A tick without input.                                                   *)
IdleTick ==
    /\ Ticking /\ SaveDue(editable)
    /\ SaveToStorage(editable)
    /\ UNCHANGED <<page, here, buffer, settled, editable, req, reqText, sent,
                   storeFailed, accepted, orphans>>

(* mutant: the draft is removed when the text is submitted                 *)
SendRemovesDraft ==
    /\ Ticking /\ req = "none"
    /\ editable' = FALSE
    /\ req' = "sending" /\ reqText' = buffer
    /\ draft' = Blank
    /\ UNCHANGED <<page, here, buffer, dirty, settled, sent, storeFailed,
                   accepted, orphans, writeFailed>>

(* The send button.  The buffer is already locked when this tick comes to  *)
(* saving, so an edit that was not saved before stays unsaved.             *)
Send ==
    /\ Ticking /\ req = "none"
    /\ editable' = FALSE
    /\ req' = "sending" /\ reqText' = buffer
    /\ SaveToStorage(FALSE)
    /\ UNCHANGED <<page, here, buffer, settled, sent, storeFailed, accepted,
                   orphans>>

(* The worker posts the text; an answer that is lost is an error here,     *)
(* whether or not the server took the text.                                *)
Answer ==
    /\ req = "sending"
    /\ \/ req' = "valid" /\ accepted' = accepted \cup {reqText}
       \/ req' = "error" /\ accepted' \in {accepted, accepted \cup {reqText}}
    /\ UNCHANGED <<page, here, buffer, dirty, settled, editable, reqText,
                   draft, sent, storeFailed, orphans, writeFailed>>

(* A dropped request still reaches the server.                             *)
OrphanArrives(text) ==
    /\ text \in orphans
    /\ orphans' = orphans \ {text}
    /\ accepted' = accepted \cup {text}
    /\ UNCHANGED <<page, here, buffer, dirty, settled, editable, req, reqText,
                   draft, sent, storeFailed, writeFailed>>

(* mutant: the buffer is not unlocked                                      *)
ContinueLocked ==
    /\ Ticking /\ req = "error"
    /\ req' = "none"
    /\ UNCHANGED <<page, here, buffer, dirty, settled, editable, reqText,
                   draft, sent, storeFailed, accepted, orphans, writeFailed>>

(* The "continue editing" button under an error.                           *)
ContinueEditing ==
    /\ Ticking /\ req = "error"
    /\ req' = "none"
    /\ editable' = TRUE
    /\ SaveToStorage(TRUE)
    /\ UNCHANGED <<page, here, buffer, settled, reqText, sent, storeFailed,
                   accepted, orphans>>

(* The memory of the program is gone; a request may still be on the wire.  *)
ForgetPage ==
    /\ page' = "none" /\ here' = FALSE
    /\ buffer' = Blank /\ dirty' = FALSE /\ settled' = FALSE
    /\ editable' = FALSE
    /\ req' = "none" /\ reqText' = Blank

(* mutant: any finished request files the post                             *)
DeliverAny ==
    /\ page = "open" /\ here /\ req \in {"valid", "error"}
    /\ ForgetPage
    /\ draft' = Blank /\ writeFailed' = FALSE
    /\ StorePost(reqText)
    /\ UNCHANGED <<accepted, orphans>>

(* mutant: the post is filed only once its last edit was saved             *)
DeliverWhenSaved ==
    /\ page = "open" /\ here /\ req = "valid" /\ ~dirty
    /\ ForgetPage
    /\ draft' = Blank /\ writeFailed' = FALSE
    /\ StorePost(reqText)
    /\ UNCHANGED <<accepted, orphans>>

(* The tick that finds a valid answer: drop the page, remove the draft,    *)
(* store the post, which may fail.                                         *)
Deliver ==
    /\ page = "open" /\ here /\ req = "valid"
    /\ ForgetPage
    /\ draft' = Blank /\ writeFailed' = FALSE
    /\ StorePost(reqText)
    /\ UNCHANGED <<accepted, orphans>>

(* The program ends, possibly inside the tick that writes: while the draft *)
(* file is being written, or once it is removed and before the post is     *)
(* stored, or while it is.                                                 *)
Crash ==
    /\ page = "open"
    /\ ForgetPage
    /\ orphans' = orphans \cup Unanswered
    /\ \/ UNCHANGED <<draft, writeFailed, sent, storeFailed>>
       \/ /\ Ticking /\ SaveDue(editable)
          /\ draft' \in Torn[buffer] /\ writeFailed' = TRUE
          /\ UNCHANGED <<sent, storeFailed>>
       \/ /\ here /\ req = "valid"
          /\ draft' = Blank /\ writeFailed' = FALSE
          /\ UNCHANGED <<sent, storeFailed>> \/ StorePost(reqText)
    /\ UNCHANGED accepted

-----------------------------------------------------------------------------
User ==
    \/ ReturnToEditor
    \/ OpenEditor
    \/ LeaveEditor
    \/ \E text \in Text : Type(text)
    \/ \E text \in Text : LockedEdit(text)
    \/ Send
    \/ ContinueEditing

Next ==
    \/ User
    \/ Elapse
    \/ IdleTick
    \/ Answer
    \/ \E text \in Text : OrphanArrives(text)
    \/ Deliver
    \/ Crash

Spec == Init /\ [][Next]_vars

(* The main loop ticks for ever, the clock runs, and the worker answers    *)
(* every request, with an error if need be.  Nothing is asked of the       *)
(* author.                                                                 *)
Fairness ==
    /\ WF_vars(IdleTick)
    /\ WF_vars(Deliver)
    /\ WF_vars(Elapse)
    /\ WF_vars(Answer)

FairSpec == Spec /\ Fairness

-----------------------------------------------------------------------------
(* The buffer is locked exactly while a request of this component is       *)
(* unresolved, so a page never has two requests and never stays locked     *)
(* with nothing to wait for.                                               *)
LockedIffRequested ==
    page = "open" => (editable <=> req = "none")

(* What the editor counts as saved is what the file holds, unless the write*)
(* failed: an edit is never taken for saved, whatever was opened, left,    *)
(* sent, refused or reopened in between.                                   *)
SavedMeansStored ==
    page = "open" /\ ~dirty /\ ~writeFailed => draft = buffer

(* The local copy of a sent post holds a text the server took, or what a   *)
(* failed write left of one: never a text that was refused or that changed *)
(* under the request, however often the post was sent again.               *)
SentWasAccepted ==
    sent # Blank =>
        \/ sent \in accepted
        \/ storeFailed /\ \E text \in accepted : sent \in Torn[text]

(* A draft file disappears only because its author emptied it, because a   *)
(* text sent from this page was taken, or because a write went wrong.      *)
DraftKept ==
    [][draft # Blank /\ draft' = Blank =>
          \/ buffer = Blank
          \/ req = "valid" /\ reqText \in accepted
          \/ writeFailed']_vars

(* An author who stays on the page after sending is told the outcome: the  *)
(* page ends with the post filed, or an error offers to continue.          *)
SendingResolves ==
    (page = "open" /\ here /\ req = "sending")
        ~> \/ page = "none"
           \/ ~here
           \/ req = "error"

(* An edit reaches the file without any key being pressed: once the author *)
(* pauses for good, on the page and without sending, it is saved.          *)
EditsGetSaved ==
    <>[][~User]_vars =>
        ((page = "open" /\ here /\ dirty /\ editable)
            ~> (~dirty \/ ~here \/ ~editable))

(* Seen from the data directory and the server, the page is an Outbox.     *)
Abstract == INSTANCE Outbox WITH posting <- orphans \cup Unanswered
ImplementsOutbox == Abstract!Spec

(* bbs.nim tells the author "error (don't worry, a draft is saved)" when a *)
(* request failed.  Yet there may be no draft file at all: an edit is not  *)
(* saved by the tick that sends it, and no later tick saves a locked buffer*)
ErrorMeansDraftSaved ==
    page = "open" /\ here /\ req = "error" /\ buffer # Blank /\ ~writeFailed
        => draft # Blank
=============================================================================

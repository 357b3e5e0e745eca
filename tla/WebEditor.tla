----------------------------- MODULE WebEditor -----------------------------
(***************************************************************************)
(* The editor in the browser.  In write mode the text is edited in an      *)
(* element of the page ("#editor"), over the terminal the client draws;    *)
(* the buffer of the editor is a copy.  The main loop calls a frame again  *)
(* and again: it gives the keys of a queue to bbs.tick and then compares   *)
(* the two copies.  When write mode is entered the element gets the text   *)
(* of the buffer; otherwise, at most every 0.25 s, the buffer gets the     *)
(* text of the element if that has changed.                                *)
(*                                                                         *)
(* There are several drafts and one element.  A text is the set of pieces  *)
(* that were put into it.                                                  *)
(***************************************************************************)
EXTENDS Integers

CONSTANTS
    Editors,    \* the editor pages
    None,       \* any other page
    Pieces,     \* what is typed, drawn, pasted or read from a file
    MaxKeys     \* bound on the keys of one frame

ASSUME NoneAssumption == None \notin Editors \cup Nat
ASSUME MaxKeysAssumption == MaxKeys \in Nat \ {0}

VARIABLES
    sel,        \* SelectedPage
    going,      \* the page of the breadcrumbs: it is selected by the next tick
    view,       \* of each editor: "write", "draw" or (write mode) another "tab"
    buffer,     \* of each editor: Lines, which every tick saves as the draft
    field,      \* the text of the element
    seen,       \* lastEditorContent
    wasEditing, \* lastIsEditing; the element is displayed
    due,        \* 0.25 s have passed since lastSaveCheck
    keys,       \* how many keys the frame may still handle, None between frames
    home,       \* history: the editor a piece was put into
    last,       \* history: the page at the end of the last frame
    pasted,     \* history: the buffer got what the displayed element has not
    hasty       \* history: an editor was left with its last words not taken
                \* over, or left for another one within a frame

page    == <<sel, going, view>>
texts   == <<field, seen, wasEditing>>
history == <<last, pasted, hasty>>
vars == <<page, buffer, texts, due, keys, home, history>>

(* bbs.isEditing; with isEditor, which is asked first.                     *)
IsEditing(e) == e \in Editors /\ view[e] = "write"

Between == keys = None

-----------------------------------------------------------------------------
(* Between two frames: what the browser does on its own.                   *)

New(p, e) == home[p] = None /\ home' = [home EXCEPT ![p] = e]

Type(p) ==
    /\ Between /\ wasEditing /\ sel \in Editors
    /\ New(p, sel)
    /\ field' = field \cup {p}
    /\ UNCHANGED <<page, buffer, seen, wasEditing, due, keys, history>>

(* mutant: a file is put into the buffer only                              *)
InsertFileUnseen(p) ==
    /\ Between /\ sel \in Editors
    /\ New(p, sel)
    /\ buffer' = [buffer EXCEPT ![sel] = @ \cup {p}]
    /\ UNCHANGED <<page, texts, due, keys, history>>

(* insertFile: a file that was chosen in a dialog is put into the editor   *)
(* that is there by now, behind the text of its buffer.                    *)
InsertFile(p) ==
    /\ Between /\ sel \in Editors
    /\ New(p, sel)
    /\ buffer' = [buffer EXCEPT ![sel] = @ \cup {p}]
    /\ field' = IF view[sel] # "draw" THEN buffer'[sel] ELSE field
    /\ pasted' = (pasted /\ view[sel] = "draw")
    /\ UNCHANGED <<page, seen, wasEditing, due, keys, last, hasty>>

Clock ==
    /\ ~due /\ due' = TRUE
    /\ UNCHANGED <<page, buffer, texts, keys, home, history>>

BeginFrame ==
    /\ Between
    /\ keys' = MaxKeys
    /\ UNCHANGED <<page, buffer, texts, due, home, history>>

-----------------------------------------------------------------------------
(* One call of bbs.tick.  It begins with the rules, so it is about the     *)
(* page that the breadcrumbs have come to.                                 *)
Leave(to) ==
    /\ sel' = to
    /\ hasty' = (hasty \/ (sel \in Editors /\ to # sel /\ field # seen))

Tick ==
    /\ keys \in 1..MaxKeys
    /\ keys' = keys - 1
    /\ UNCHANGED <<texts, due, last>>

(* No key, or one that changes nothing here.                               *)
TickOnly ==
    /\ Tick /\ Leave(going)
    /\ UNCHANGED <<going, view, buffer, home, pasted>>

(* Escape goes back at once, the button of the navigation bar at the next  *)
(* tick.                                                                   *)
Escape ==
    /\ Tick /\ going \in Editors
    /\ Leave(None)
    /\ going' = None
    /\ UNCHANGED <<view, buffer, home, pasted>>

Back ==
    /\ Tick /\ going \in Editors
    /\ Leave(going)
    /\ going' = None
    /\ UNCHANGED <<view, buffer, home, pasted>>

(* "show-editor": an editor that has text is shown as it was left, an      *)
(* empty one starts anew.                                                  *)
Open(e) ==
    /\ Tick /\ going = None
    /\ Leave(None)
    /\ going' = e
    /\ view' = IF buffer[e] = {} THEN [view EXCEPT ![e] = "write"] ELSE view
    /\ UNCHANGED <<buffer, home, pasted>>

(* Ctrl-E, Ctrl-N or the mouse change the mode or the tab.                 *)
Switch(v) ==
    /\ Tick /\ going \in Editors /\ v # view[going]
    /\ Leave(going)
    /\ view' = [view EXCEPT ![going] = v]
    /\ UNCHANGED <<going, buffer, home, pasted>>

(* Ctrl-V and Ctrl-L paste into the buffer in write mode, where the line   *)
(* with the cursor is taken to be blank; in draw mode the mouse draws.     *)
Put(p) ==
    /\ Tick /\ going \in Editors /\ view[going] # "tab"
    /\ Leave(going)
    /\ New(p, going)
    /\ buffer' = [buffer EXCEPT ![going] = @ \cup {p}]
    /\ pasted' = (pasted \/ wasEditing)
    /\ UNCHANGED <<going, view>>

-----------------------------------------------------------------------------
(* The end of a frame, after at least one tick.                            *)
Ending ==
    /\ keys \in 0..MaxKeys - 1
    /\ keys' = None
    /\ wasEditing' = IsEditing(sel)
    /\ last' = sel
    /\ hasty' = (hasty \/ (IsEditing(sel) /\ wasEditing /\ last # sel))
    /\ UNCHANGED <<page, home>>

Enter ==
    /\ Ending /\ IsEditing(sel) /\ ~wasEditing
    /\ field' = buffer[sel] /\ seen' = buffer[sel]
    /\ pasted' = FALSE
    /\ UNCHANGED <<buffer, due>>

(* mutant: the check is made, but takes nothing over                       *)
CompareOnce ==
    /\ Ending /\ sel \in Editors /\ ~(IsEditing(sel) /\ ~wasEditing)
    /\ due /\ due' = FALSE
    /\ UNCHANGED <<buffer, pasted, seen, field>>

(* mutant: the text of the element is taken over even if it is unchanged   *)
CompareAlways ==
    /\ Ending /\ sel \in Editors /\ ~(IsEditing(sel) /\ ~wasEditing)
    /\ due /\ due' = FALSE
    /\ buffer' = [buffer EXCEPT ![sel] = field]
    /\ pasted' = FALSE
    /\ seen' = field
    /\ UNCHANGED field

(* The text of the element is compared with the one seen last, whatever    *)
(* the editor shows by now.                                                *)
Compare ==
    /\ Ending /\ sel \in Editors /\ ~(IsEditing(sel) /\ ~wasEditing)
    /\ due /\ due' = FALSE
    /\ buffer' = IF field # seen THEN [buffer EXCEPT ![sel] = field] ELSE buffer
    /\ pasted' = (pasted /\ field = seen)
    /\ seen' = field
    /\ UNCHANGED field

LeaveAlone ==
    /\ Ending
    /\ sel \in Editors => ~due /\ ~(IsEditing(sel) /\ ~wasEditing)
    /\ UNCHANGED <<buffer, field, seen, due, pasted>>

EndFrame == Enter \/ Compare \/ LeaveAlone

-----------------------------------------------------------------------------
Init ==
    /\ sel = None /\ going = None
    /\ view = [e \in Editors |-> "write"]
    /\ buffer = [e \in Editors |-> {}]
    /\ field = {} /\ seen = {} /\ wasEditing = FALSE
    /\ due = TRUE
    /\ keys = None
    /\ home = [p \in Pieces |-> None]
    /\ last = None /\ pasted = FALSE /\ hasty = FALSE

Next ==
    \/ \E p \in Pieces : Type(p) \/ InsertFile(p) \/ Put(p)
    \/ Clock \/ BeginFrame
    \/ TickOnly \/ Escape \/ Back
    \/ \E e \in Editors : Open(e)
    \/ \E v \in {"write", "draw", "tab"} : Switch(v)
    \/ Enter \/ Compare \/ LeaveAlone

(* The browser calls the main loop again and again and time passes; a      *)
(* frame ends because its queue does.                                      *)
Fairness == WF_vars(BeginFrame) /\ WF_vars(TickOnly) /\ WF_vars(EndFrame) /\ WF_vars(Clock)

Spec == Init /\ [][Next]_vars /\ Fairness

-----------------------------------------------------------------------------
TypeOK ==
    /\ sel \in Editors \cup {None} /\ going \in Editors \cup {None}
    /\ view \in [Editors -> {"write", "draw", "tab"}]
    /\ buffer \in [Editors -> SUBSET Pieces]
    /\ field \subseteq Pieces /\ seen \subseteq Pieces
    /\ wasEditing \in BOOLEAN /\ due \in BOOLEAN
    /\ keys \in 0..MaxKeys \cup {None}
    /\ home \in [Pieces -> Editors \cup {None}]
    /\ last \in Editors \cup {None} /\ pasted \in BOOLEAN /\ hasty \in BOOLEAN

(* What the author sees is what would be sent: once the last words are     *)
(* taken over, the element shows the buffer of the editor it stands for.   *)
(* A paste by the client's own keys goes past the element until something  *)
(* is typed (and is lost then).                                            *)
FieldShowsBuffer ==
    Between /\ wasEditing /\ sel \in Editors /\ field = seen /\ ~pasted /\ ~hasty =>
        buffer[sel] = field

(* Nothing that was put into one draft gets into another, although all of  *)
(* them are edited in one element: unless its last words were not taken    *)
(* over when an editor was left, or another was entered in the same frame. *)
DraftsStayApart ==
    ~hasty => \A e \in Editors : \A p \in buffer[e] : home[p] = e

(* What is typed gets into the buffer, or the author leaves.               *)
TypedGetsIn == (sel \in Editors /\ field # seen) ~> (field = seen \/ sel = None)
=============================================================================

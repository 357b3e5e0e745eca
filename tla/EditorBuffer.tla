---------------------------- MODULE EditorBuffer ----------------------------
(***************************************************************************)
(* The text of the editor with its two followers: the history that undo    *)
(* and redo move in (UndoHistory), and the commands, errors and links that *)
(* are parsed from it (Commands).  Whatever changes the lines, typing as   *)
(* well as undo, has them parsed again, and forgets the errors that only   *)
(* came up when a command was played.                                      *)
(***************************************************************************)
EXTENDS UndoHistory

CONSTANTS
    Content,    \* the kinds of the lines of each text
    MaxErrors   \* bound on the errors listed

VARIABLES cmds, errs, links, tab, moved

C == INSTANCE Commands WITH text <- Content[lines]

ASSUME ContentAssumption == Content \in [Texts -> Seq(C!Kinds) \ {<<>>}]
ASSUME MaxErrorsAssumption == MaxErrors \in Nat

cvars == <<cmds, errs, links, tab, moved>>
bvars == <<vars, cvars>>

-----------------------------------------------------------------------------
(* parseCommands is triggered by new lines.                                *)
ParseLines ==
    /\ IF lines' # lines THEN C!Parse(Content[lines'])
                         ELSE UNCHANGED <<cmds, errs, links, moved>>
    /\ UNCHANGED tab

(* Input of the editor tab.  In the browser the text may also change while *)
(* the errors are shown: a file arrives, or the last words of the element. *)
Type == (\E t \in Texts, c \in Cursors : Change(t, c)) /\ ParseLines
Move == tab = "editor" /\ (\E c \in Cursors : MoveCursor(c)) /\ UNCHANGED cvars
UndoOrRedo == tab = "editor" /\ (Undo \/ Redo) /\ ParseLines
TimePasses == Elapse /\ UNCHANGED cvars

(* The commands are played, and their errors looked at, where they are.    *)
PlayOrSee ==
    /\ UNCHANGED vars
    /\ \/ C!PlayAll \/ C!SelectTab
       \/ \E row \in DOMAIN links : C!PlayLine(row) \/ C!SeeError(row)
       \/ \E i \in DOMAIN errs : C!GoToLine(i)

BufferInit ==
    /\ Init
    /\ cmds = C!Commands(Content[lines])
    /\ errs = C!Mistakes(Content[lines])
    /\ links = C!LinksOf(Content[lines])
    /\ tab = "editor" /\ moved = FALSE

BufferNext == Type \/ Move \/ UndoOrRedo \/ TimePasses \/ PlayOrSee

BufferSpec == BufferInit /\ [][BufferNext]_bvars

-----------------------------------------------------------------------------
(* The properties of the commands, for the text that is there after any    *)
(* typing, undo and redo.                                                  *)
NoCommandForgotten == C!NoCommandForgotten
LinksLeadToErrors == C!LinksLeadToErrors
=============================================================================

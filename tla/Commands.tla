------------------------------ MODULE Commands ------------------------------
(***************************************************************************)
(* The music commands in the text of the editor (editor.nim): the commands *)
(* that parse, the errors, the links in the gutter that play a line or lead*)
(* to its error, and the errors tab with its links back.                   *)
(*                                                                         *)
(* A command is known by the row it is on, an error by the row it is about.*)
(* Rows, lines and errors are counted from 1.  What a command plays and    *)
(* what a message says is left out.  How the text changes is said by       *)
(* EditorBuffer.                                                           *)
(***************************************************************************)
EXTENDS Integers, Sequences, SequencesExt

CONSTANT MaxErrors   \* bound on the errors listed

(* Plain text of one row and of two; commands that can be compiled and that*)
(* cannot; a command that cannot be parsed.                                *)
Kinds == {"text", "long", "plays", "fails", "wrong"}

VARIABLES
    text,       \* Lines of the editor
    cmds,       \* ValidCommands
    errs,       \* InvalidCommands
    links,      \* Links of the editor, for each row
    tab,        \* SelectedBuffer
    moved       \* history: an error before others was put at the end of them

NoLink == [icon |-> "none", error |-> 0]
PlayLink == [icon |-> "play", error |-> 0]
ErrorLink(i) == [icon |-> "error", error |-> i]

-----------------------------------------------------------------------------
(* removeWrappedLines: a row that goes on with a line has no command.      *)
RowsOfLine(kind) == IF kind = "long" THEN <<"text", "text">> ELSE <<kind>>
RowsOf(t) == FlattenSeq([n \in 1..Len(t) |-> RowsOfLine(t[n])])

(* The rows of some kinds, from top to bottom.                             *)
RowsWith(t, kinds) ==
    LET rows == RowsOf(t)
        among[n \in 0..Len(rows)] ==
            IF n = 0 THEN <<>>
            ELSE IF rows[n] \in kinds THEN Append(among[n - 1], n) ELSE among[n - 1]
    IN  among[Len(rows)]

Commands(t) == RowsWith(t, {"plays", "fails"})
Mistakes(t) == RowsWith(t, {"wrong"})

LinksOf(t) ==
    LET IndexOf(r) == CHOOSE i \in 1..Len(Mistakes(t)) : Mistakes(t)[i] = r
    IN  [r \in 1..Len(RowsOf(t)) |->
            IF RowsOf(t)[r] = "text"       THEN NoLink
            ELSE IF RowsOf(t)[r] = "wrong" THEN ErrorLink(IndexOf(r))
            ELSE PlayLink]

(* parseCommands                                                           *)
Parse(t) ==
    /\ cmds' = Commands(t) /\ errs' = Mistakes(t) /\ links' = LinksOf(t)
    /\ moved' = FALSE

-----------------------------------------------------------------------------
(* mutant: the first is taken out whatever it is                           *)
WithoutFirst(s, row) == IF s = <<>> THEN s ELSE Tail(s)

(* setRuntimeError looks for what is to be taken out by the row of the     *)
(* first element, in every turn of its loop.                               *)
Without(s, row) == IF s # <<>> /\ Head(s) = row THEN Tail(s) ELSE s

(* mutant: the link counts the error that was taken out                    *)
LinkBefore(row) == [links EXCEPT ![row] = ErrorLink(Len(errs) + 1)]

LinkToError(row) == [links EXCEPT ![row] = ErrorLink(Len(Without(errs, row)) + 1)]

(* The command that could not be compiled becomes the last error.  If it   *)
(* was the first, those after it move up under the links that lead to them.*)
SetRuntimeError(row) ==
    /\ Len(errs) < MaxErrors
    /\ cmds' = Without(cmds, row)
    /\ errs' = Append(Without(errs, row), row)
    /\ links' = LinkToError(row)
    /\ moved' = (moved \/ (Len(errs) > 1 /\ Head(errs) = row))

(* The link beside a line: it plays, or the link becomes one to the error. *)
PlayLine(row) ==
    /\ tab = "editor" /\ links[row] = PlayLink
    /\ IF RowsOf(text)[row] = "fails" THEN SetRuntimeError(row)
                                      ELSE UNCHANGED <<cmds, errs, links, moved>>
    /\ UNCHANGED <<text, tab>>

(* compileAndPlayAll stops at the first command that cannot be compiled,   *)
(* and shows the errors.  The cursor there is put at the error by the link,*)
(* and at the top by updateErrors; it is left out.                         *)
Failing == {i \in DOMAIN cmds : RowsOf(text)[cmds[i]] = "fails"}

PlayAll ==
    /\ tab = "editor" /\ cmds # <<>>
    /\ IF Failing # {}
       THEN SetRuntimeError(cmds[Min(Failing)]) /\ tab' = "errors"
       ELSE UNCHANGED <<cmds, errs, links, moved, tab>>
    /\ UNCHANGED text

(* The link beside a line with an error                                    *)
SeeError(row) ==
    /\ tab = "editor" /\ links[row].icon = "error"
    /\ tab' = "errors"
    /\ UNCHANGED <<text, cmds, errs, links, moved>>

(* The link beside an error makes its row the line of the cursor; the      *)
(* cursors of both tabs are left out.                                      *)
GoToLine(i) ==
    /\ tab = "errors"
    /\ tab' = "editor"
    /\ UNCHANGED <<text, cmds, errs, links, moved>>

SelectTab ==
    /\ tab' \in {"editor", "errors"} \ {tab}
    /\ UNCHANGED <<text, cmds, errs, links, moved>>

-----------------------------------------------------------------------------
(* Every command of the text is played with the others unless an error is  *)
(* listed for its line: taking commands out never takes out another one.   *)
NoCommandForgotten ==
    \A row \in DOMAIN links :
        RowsOf(text)[row] \in {"plays", "fails"} =>
            row \in Range(cmds) \cup Range(errs)

(* A link to an error leads to one that is listed, however often errors    *)
(* were taken out and put back: the list never gets shorter under a link.  *)
(* "hint: see the error with tab": it is the error of the link's own line, *)
(* in a text with any number of commands that fail, as long as none that   *)
(* was listed before other errors failed again; and that takes a text with *)
(* two that fail.  The errors are about lines that are there and are wrong *)
(* or fail, never about a text that was replaced, and such a line has a    *)
(* link to an error, not one that plays it.                                *)
LinksLeadToErrors ==
    /\ \A row \in DOMAIN links :
          links[row].icon = "error" =>
              /\ links[row].error \in DOMAIN errs
              /\ ~moved => errs[links[row].error] = row
    /\ moved => Len(RowsWith(text, {"fails"})) > 1
    /\ \A i \in DOMAIN errs :
          /\ errs[i] \in DOMAIN links
          /\ RowsOf(text)[errs[i]] \in {"wrong", "fails"}
          /\ links[errs[i]].icon = "error"
=============================================================================

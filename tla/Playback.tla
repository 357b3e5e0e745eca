------------------------------ MODULE Playback ------------------------------
(***************************************************************************)
(* Music on the pages of the native program: a post that can be played     *)
(* (ContentNavBar of bbs.nim), an editor that plays what is written        *)
(* (TopBarView of editor.nim) and any other page.  A page asks for music   *)
(* by its MidiProgress, which later ticks on the page carry through: a     *)
(* message is shown, the sound is started, and when it is over or a key    *)
(* asks for it, it is stopped.  Time and the sound go on on other pages.   *)
(***************************************************************************)
EXTENDS Integers, Sequences

CONSTANTS
    Tunes,      \* sounds that can exist at a time, a bound
    NoTune

ASSUME TunesAssumption == NoTune \notin Tunes

Players == {"post", "editor"}
Parts == {"engine", "decoder", "sound"}
Keys == {"none", "esc", "tab", "up", "down", "click"}
Tabs == {"editor", "errors", "tutorial"}

Idle == [phase |-> "idle", tune |-> NoTune]
At(phase) == [phase |-> phase, tune |-> NoTune]
Playing(t) == [phase |-> "playing", tune |-> t]

VARIABLES
    shown,      \* the selected page
    midi,       \* MidiProgress of the two pages; a tune if it has addrs
    held,       \* parts of miniaudio that are initialised, as <<tune, part>>
    over,       \* tunes whose time.stop has passed
    lost,       \* history: tunes whose MidiProgress was dropped while playing
    focused,    \* focusIndex of the editor page is 0, not -1 (the bar)
    tab,        \* SelectedBuffer
    prompts,    \* buffers whose Prompt is StopPlaying
    request     \* the request of the editor page

sounds == <<held, over, lost>>
page == <<focused, tab, prompts, request>>
vars == <<shown, midi, sounds, page>>

TypeOK ==
    /\ shown \in Players \cup {"other"}
    /\ midi \in [Players -> {Idle, At("asked"), At("displayed"), At("error")}
                              \cup {Playing(t) : t \in Tunes \cup {NoTune}}]
    /\ held \subseteq Tunes \X Parts
    /\ over \subseteq Tunes /\ lost \subseteq Tunes
    /\ focused \in BOOLEAN /\ tab \in Tabs /\ prompts \subseteq Tabs
    /\ request \in {"none", "waiting", "valid", "failed"}

Init ==
    /\ shown = "post"
    /\ midi = [p \in Players |-> Idle]
    /\ held = {} /\ over = {} /\ lost = {}
    /\ focused = TRUE /\ tab = "editor" /\ prompts = {}
    /\ request = "none"

-----------------------------------------------------------------------------
PartsOf(t) == {t} \X Parts
Unused == {t \in Tunes : /\ PartsOf(t) \cap held = {}
                         /\ \A p \in Players : midi[p].tune # t}

(* sound.play makes the parts in this order and then starts the sound; if  *)
(* step n fails, the handler of that step gives parts back.                *)
Order == <<"engine", "decoder", "sound">>

GivenBack(n) ==
    CASE n = 1 -> {}
      [] n = 2 -> {"engine"}
      [] n = 3 -> {"decoder", "engine"}
      [] n = 4 -> {"sound", "decoder", "engine"}

HeldAfter(t) ==
    {PartsOf(t)} \cup
    {{t} \X ({Order[i] : i \in 1..(n - 1)} \ GivenBack(n)) : n \in 1..4}

(* midi.play with what follows from its result: a tune, none (there was    *)
(* nothing to play), or an error, which the editor passes over.  The bound *)
(* on the tunes is met as an error.                                        *)
Failed(p) == IF p = "post" THEN At("error") ELSE Idle

Start(p) ==
    \/ \E t \in Unused : \E new \in HeldAfter(t) :
          /\ held' = held \cup new
          /\ over' = over \ {t} /\ UNCHANGED lost
          /\ midi' = [midi EXCEPT ![p] = IF new = PartsOf(t) THEN Playing(t)
                                                           ELSE Failed(p)]
    \/ Unused = {} /\ midi' = [midi EXCEPT ![p] = Failed(p)] /\ UNCHANGED sounds
    \/ midi' = [midi EXCEPT ![p] = Playing(NoTune)] /\ UNCHANGED sounds

(* mutants: the sound goes on, and a MidiProgress that keeps its addrs     *)
StopSilently(p) ==
    /\ midi' = [midi EXCEPT ![p] = Idle]
    /\ UNCHANGED sounds

StopOnly(p) ==
    /\ held' = held \ PartsOf(midi[p].tune)
    /\ UNCHANGED <<midi, over, lost>>

(* midi.stop, and no more MidiProgress                                     *)
Stop(p) ==
    /\ midi' = [midi EXCEPT ![p] = Idle]
    /\ held' = held \ PartsOf(midi[p].tune)
    /\ UNCHANGED <<over, lost>>

(* mutant: the time is not looked at                                       *)
WantsStopByKey(p, k) == k \in {"esc", "tab"}

WantsStop(p, k) ==
    \/ midi[p].tune = NoTune \/ midi[p].tune \in over
    \/ k \in {"esc", "tab"}

(* What one tick does to the MidiProgress of the page shown.               *)
Progress(p, k) ==
    CASE midi[p].phase = "asked" ->
            midi' = [midi EXCEPT ![p] = At("displayed")] /\ UNCHANGED sounds
      [] midi[p].phase = "displayed" -> Start(p)
      [] midi[p].phase = "playing" /\ WantsStop(p, k) -> Stop(p)
      [] OTHER -> UNCHANGED <<midi, sounds>>

Play(p) ==
    /\ midi[p].phase = "idle"
    /\ midi' = [midi EXCEPT ![p] = At("asked")]
    /\ UNCHANGED sounds

(* A MidiProgress that is dropped leaves its sound as it is.               *)
Drop(ps) ==
    /\ midi' = [p \in Players |-> IF p \in ps THEN Idle ELSE midi[p]]
    /\ lost' = lost \cup ({midi[p].tune : p \in ps} \ {NoTune})
    /\ UNCHANGED <<held, over>>

-----------------------------------------------------------------------------
(* A tick on the post.  Esc goes back unless there is a MidiProgress; a    *)
(* link is followed when the tick is over; "continue" is the only button   *)
(* at an error.                                                            *)
PostTick(k) ==
    /\ shown = "post"
    /\ UNCHANGED page
    /\ \/ k = "esc" /\ midi["post"].phase = "idle"
          /\ shown' \in {"editor", "other"} /\ UNCHANGED <<midi, sounds>>
       \/ ~(k = "esc" /\ midi["post"].phase = "idle")
          /\ Progress("post", k)
          /\ shown' \in (IF k = "click" THEN {"post", "editor", "other"} ELSE {"post"})
       \/ k = "click" /\ Play("post") /\ UNCHANGED shown
       \/ k = "click" /\ midi["post"].phase = "error" /\ Drop({"post"}) /\ UNCHANGED shown

-----------------------------------------------------------------------------
(* While the bar has the focus, keys do not reach the editor.              *)
Delivered(k) == IF focused \/ k = "click" THEN k ELSE "none"

(* Up leaves the editor when its cursor is on the first row.               *)
FocusAfter(k) == CASE k = "up"                -> {FALSE, focused}
                   [] k = "down"              -> {TRUE}
                   [] k = "click"             -> {TRUE, focused}
                   [] OTHER                   -> {focused}

PromptsAfter(k) ==
    CASE midi["editor"].phase # "playing" -> prompts
      [] WantsStop("editor", k)           -> prompts \ {tab}
      [] OTHER                            -> prompts \cup {tab}

(* The views of the editor, with the key that reaches them: without a      *)
(* MidiProgress, links and buttons play, switch tabs, send and go on after *)
(* a failed request.                                                       *)
Views(k) ==
    \/ /\ Progress("editor", Delivered(k))
       /\ prompts' = PromptsAfter(Delivered(k))
       /\ UNCHANGED <<tab, request>>
    \/ /\ Delivered(k) \in {"tab", "click"} /\ tab \notin prompts
       /\ Play("editor")
       /\ UNCHANGED <<tab, prompts, request>>
    \/ /\ midi["editor"].phase = "idle" /\ tab \notin prompts
       /\ Delivered(k) = "click" /\ tab' \in Tabs
       /\ UNCHANGED <<midi, sounds, prompts, request>>
    \/ /\ midi["editor"].phase = "idle" /\ k = "click"
       /\ \/ request = "none" /\ request' = "waiting"
          \/ request = "failed" /\ request' = "none"
       /\ UNCHANGED <<midi, sounds, tab, prompts>>

NewEditor ==
    focused' = TRUE /\ tab' = "editor" /\ prompts' = {} /\ request' = "none"

(* The request was answered: the editor is dropped whatever it is doing,   *)
(* and the page of the post is made anew if the post could be stored.      *)
Deliver ==
    /\ NewEditor
    /\ \/ Drop({"editor", "post"}) /\ shown' = "post"
       \/ Drop({"editor"}) /\ shown' \in {"post", "other"}

(* A tick on the editor: Esc goes back, a valid answer is delivered, and   *)
(* otherwise the bar and the views see to the key.                         *)
EditorTick(k) ==
    /\ shown = "editor"
    /\ LET leaves == k = "esc" /\ midi["editor"].phase = "idle" IN
       \/ /\ leaves /\ shown' \in {"post", "other"}
          /\ UNCHANGED <<midi, sounds, page>>
       \/ ~leaves /\ request = "valid" /\ Deliver
       \/ /\ ~leaves /\ request # "valid"
          /\ Views(k)
          /\ focused' \in FocusAfter(k)
          /\ UNCHANGED shown

-----------------------------------------------------------------------------
(* On any other page: back to where the user was, or by a link, which      *)
(* makes the page anew (the editor only if it is empty).                   *)
OtherTick ==
    /\ shown = "other"
    /\ \/ shown' \in Players /\ UNCHANGED <<midi, sounds, page>>
       \/ shown' = "post" /\ Drop({"post"}) /\ UNCHANGED page
       \/ shown' = "editor" /\ Drop({"editor"}) /\ NewEditor

(* External: time passes, and the server answers.                          *)
Elapse(t) ==
    /\ t \notin over /\ PartsOf(t) \cap held # {}
    /\ over' = over \cup {t}
    /\ UNCHANGED <<shown, midi, held, lost, page>>

Answer ==
    /\ request = "waiting" /\ request' \in {"valid", "failed"}
    /\ UNCHANGED <<shown, midi, sounds, focused, tab, prompts>>

Next ==
    \/ \E k \in Keys : PostTick(k) \/ EditorTick(k)
    \/ OtherTick \/ Answer
    \/ \E t \in Tunes : Elapse(t)

(* The front ends tick all the time, key or none, and time passes.         *)
Fairness ==
    /\ WF_vars(PostTick("none")) /\ WF_vars(EditorTick("none"))
    /\ \A t \in Tunes : WF_vars(Elapse(t))

Spec == Init /\ [][Next]_vars
FairSpec == Spec /\ Fairness

-----------------------------------------------------------------------------
(* A MidiProgress that says it plays holds every part of its sound: none   *)
(* was given back by another page, by an earlier stop or by a failure, so  *)
(* midi.stop never gives back a part that is not there.                    *)
PlayingIsHeld ==
    \A p \in Players : midi[p].tune # NoTune => PartsOf(midi[p].tune) \subseteq held

(* sound.play leaves either a whole sound behind or nothing, whichever of  *)
(* its steps failed; and every sound there is can still be stopped by the  *)
(* one page that plays it, unless that page was dropped or made anew.      *)
HeldIsOwnedOrLost ==
    \A part \in held :
        /\ PartsOf(part[1]) \subseteq held
        /\ part[1] \in lost \/ \E p \in Players : midi[p].tune = part[1]

(* The prompt to stop playing, which takes the cursor, the tabs and the    *)
(* gutter away, is there only while the editor plays, on the buffer that   *)
(* is selected.                                                            *)
PromptGoesWithMusic ==
    /\ prompts # {} => midi["editor"].phase = "playing"
    /\ prompts \subseteq {tab}

(* While its page is shown, a tune that is over is stopped without a key.  *)
ShownTuneEnds ==
    \A p \in Players :
        (midi[p].phase = "playing" /\ shown = p)
            ~> (midi[p].phase # "playing" \/ shown # p)
=============================================================================

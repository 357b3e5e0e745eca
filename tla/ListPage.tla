------------------------------ MODULE ListPage ------------------------------
(***************************************************************************)
(* A page that lists posts: the sent posts, the replies to the author, or  *)
(* the results of a search.  It shows Limit posts from an offset on, with  *)
(* buttons to the previous and the next ones; the search page also has a   *)
(* one-line text field and tabs.                                           *)
(*                                                                         *)
(* One action is one call of bbs.tick.  A tick makes the view first, then  *)
(* handles the key by the areas of the view that was drawn LAST, and then  *)
(* draws: so what a key did to the page can be seen one tick later, and    *)
(* keys that come faster than that act on an older page than is there.     *)
(***************************************************************************)
EXTENDS FocusScroll, SequencesExt

CONSTANTS
    Kinds,          \* the list pages there are: "sent", "replies", "search"
    Limit,          \* entities.limit, the posts of one page
    MaxPosts,       \* bound on the posts the author has sent
    Heights,        \* the rows that the posts of a page take
    TabCount,       \* the kinds of search
    NavButtons,     \* buttons of the navigation bar; the second refreshes
    MaxText,        \* bound on the length of the text field
    Offsets         \* bound: the offsets a remote list is looked at with

ASSUME KindsAssumption == Kinds \subseteq {"sent", "replies", "search"}
ASSUME LimitAssumption == Limit \in Nat \ {0}
ASSUME MaxPostsAssumption == MaxPosts \in Nat
ASSUME HeightsAssumption == Heights \in [1..Limit -> Nat \ {0}]
ASSUME TabCountAssumption == TabCount \in Nat \ {0}

VARIABLES
    kind,       \* comp.kind
    offset,     \* comp.offset
    posts,      \* how many posts storage has for the sent page
    term, tab,  \* searchTerm, searchKind
    channel,    \* userReplies, searchResults: the request and its answer
    earlier,    \* an earlier request that is not answered yet, if any: its offset
    focus,      \* page.focusIndex
    scroll,     \* page.scrollY
    drawn,      \* page.viewFocusAreas, viewHeight and the text of the field in it
    field,      \* the text of the search field and its cursor
    crashed,    \* a tick has raised an exception
    stale       \* history: what changed last is not drawn yet

page == <<kind, offset, posts, term, tab>>
vars == <<page, channel, earlier, focus, scroll, drawn, field, crashed, stale>>

Remote == kind # "sent"

Request(t, b, o)  == [term |-> t, tab |-> b, offset |-> o]
Channel(r, s, ps) == [to |-> r, state |-> s, posts |-> ps]

(* showResults: the search page asks for nothing before its first search.  *)
Asked == channel.state # "none"

-----------------------------------------------------------------------------
(* The view: its parts from top to bottom.  A part that can have the focus *)
(* is an area.                                                             *)
Part(a, h) == [act |-> a, height |-> h]
Text(h)    == Part("text", h)
Button(a)  == Part(a, 3)

(* toNode of a list: what fits on one page, and the buttons beside it.     *)
(* A post is TRUE once its content is loaded: until then it takes no rows, *)
(* and a line at the end says so.                                          *)
AllLoaded(ps) == ps # <<>> /\ \A i \in DOMAIN ps : ps[i]

Posts(ps) ==
    [i \in DOMAIN ps |-> IF ps[i] THEN Part("post", Heights[i]) ELSE Text(0)]
    \o (IF AllLoaded(ps) THEN <<>> ELSE <<Text(1)>>)

(* mutant: a next page is offered whenever the list has a post             *)
ListedBeyond(ps) ==
    (IF offset > 0 THEN <<Button("previous")>> ELSE <<>>)
    \o Posts(ps)
    \o (IF ps # <<>> THEN <<Button("next")>> ELSE <<>>)

Listed(ps) ==
    (IF offset > 0 THEN <<Button("previous")>> ELSE <<>>)
    \o Posts(ps)
    \o (IF Len(ps) = Limit THEN <<Button("next")>> ELSE <<>>)

(* recents[offset ..< min(offset + limit, len)]: the slice of a sequence   *)
(* raises when it starts outside it.                                       *)
SliceInRange == offset \in 0..posts
Slice == [i \in 1..Lesser(Limit, posts - offset) |-> TRUE]

Answered ==
    IF channel.state = "none"       THEN <<>>
    ELSE IF channel.state = "ready" THEN Listed(channel.posts)
    ELSE <<Text(1)>>

Heading ==
    [sent    |-> <<Text(3)>>,
     replies |-> <<Text(2)>>,
     search  |-> <<Part("field", 3), Part("tabs", 3)>>]

View == Heading[kind] \o IF Remote THEN Answered ELSE Listed(Slice)

(* The areas of a view drawn at a scroll position, part by part, and the   *)
(* rows it takes.                                                          *)
Placed(v, s) ==
    LET first[n \in 0..Len(v)] ==
            IF n = 0 THEN [areas |-> <<>>, height |-> NavHeight]
            ELSE LET above == first[n - 1]
                     area  == [act |-> v[n].act, height |-> v[n].height, y |-> above.height + s]
                 IN  [areas  |-> IF v[n].act = "text" THEN above.areas
                                                      ELSE Append(above.areas, area),
                      height |-> above.height + v[n].height]
    IN  first[Len(v)]

Drawing(placed, t) == [areas |-> placed.areas, height |-> placed.height, term |-> t]

(* mutant: the area of the field has the text it was made with             *)
DrawInitial(v, s) == Drawing(Placed(v, s), <<>>)

(* The area of the field takes with it the text the field has at that time.*)
Draw(v, s) == Drawing(Placed(v, s), field.text)

-----------------------------------------------------------------------------
(* The text field: onInput of the simple editor.                           *)
Insert(t) ==
    [text |-> SubSeq(t.text, 1, t.at) \o <<"a">> \o SubSeq(t.text, t.at + 1, Len(t.text)),
     at   |-> t.at + 1]

FieldKeys == {"char", "backspace", "delete", "left", "right", "home", "end"}

(* What each key makes of the field, if it does anything.                  *)
Edits(t) ==
    [char      |-> IF Len(t.text) < MaxText THEN Insert(t) ELSE t,
     backspace |-> IF t.at > 0 THEN [text |-> RemoveAt(t.text, t.at), at |-> t.at - 1] ELSE t,
     delete    |-> IF t.at < Len(t.text)
                   THEN [text |-> RemoveAt(t.text, t.at + 1), at |-> t.at] ELSE t,
     left      |-> [text |-> t.text, at |-> Greater(0, t.at - 1)],
     right     |-> [text |-> t.text, at |-> Lesser(Len(t.text), t.at + 1)],
     home      |-> [text |-> t.text, at |-> 0],
     end       |-> [text |-> t.text, at |-> Len(t.text)]]

Edited(t, k) == IF k \in FieldKeys THEN Edits(t)[k] ELSE t

(* The field of the view that is drawn NOW gets the key if it has the      *)
(* focus.                                                                  *)
InField(f) == kind = "search" /\ f = 0

-----------------------------------------------------------------------------
(* ui.refresh, once the page has its new offset, term and tab: another     *)
(* request with a channel of its own.  The one before goes on if it has    *)
(* not been answered; only the last such request is kept, by its offset.   *)
Ask ==
    /\ channel' = Channel(Request(term', tab', offset'), "waiting", <<>>)
    /\ earlier' = IF channel.state = "waiting" THEN {channel.to.offset} ELSE earlier

Reload(asks) == IF Remote /\ asks THEN Ask ELSE UNCHANGED <<channel, earlier>>

(* The end of a tick with key k: the view made at its start is drawn, with *)
(* the scroll position s that the key left; a refresh has set ScrollY to   *)
(* 0, which is not drawn yet.                                              *)
Finish(f, s, k, refreshed) ==
    /\ drawn' = Draw(View, s)
    /\ focus' = f
    /\ scroll' = IF refreshed THEN 0 ELSE s
    /\ field' = IF InField(f) THEN Edited(field, k) ELSE field
    /\ stale' = (refreshed \/ field' # field)
    /\ UNCHANGED crashed

Ticking == ~crashed /\ (kind = "sent" => SliceInRange)

Act(i) == IF i \in 0..Count(drawn) - 1 THEN drawn.areas[i + 1].act ELSE "nothing"

(* The areas a press may be about: a click picks one of those drawn, and   *)
(* it gets the focus; a key is for the area that has it.                   *)
Pressed(k) == IF k = "click" THEN 0..Count(drawn) - 1 ELSE {focus}

-----------------------------------------------------------------------------
(* "change-page"                                                           *)
ChangePage(k, i) ==
    /\ Ticking /\ k \in {"click", "enter"} /\ Act(i) \in {"previous", "next"}
    /\ offset' = IF Act(i) = "next" THEN offset + Limit ELSE offset - Limit
    /\ Remote => offset' \in Offsets
    /\ UNCHANGED <<kind, posts, term, tab>>
    /\ Reload(TRUE)
    /\ Finish(i, scroll, k, TRUE)

(* "change-search-type": left goes back a tab, anything else goes on.      *)
ChangeTab(k, i) ==
    /\ Ticking /\ k \in {"click", "enter", "left", "right"} /\ Act(i) = "tabs"
    /\ tab' = IF k = "left" THEN (tab + TabCount - 1) % TabCount ELSE (tab + 1) % TabCount
    /\ offset' = 0
    /\ UNCHANGED <<kind, posts, term>>
    /\ Reload(Asked)
    /\ Finish(i, scroll, k, TRUE)

(* "search" takes every key but Escape, Up and Down.  Enter searches for   *)
(* the text that was drawn.                                                *)
Search ==
    /\ Ticking /\ Act(focus) = "field"
    /\ term' = drawn.term
    /\ offset' = 0
    /\ UNCHANGED <<kind, posts, tab>>
    /\ Reload(TRUE)
    /\ Finish(focus, scroll, "enter", TRUE)

TypeInField(k) ==
    /\ Ticking /\ k \in FieldKeys /\ Act(focus) = "field"
    /\ UNCHANGED <<page, channel, earlier>>
    /\ Finish(focus, scroll, k, FALSE)

(* "show-post" goes to another page; this one stays as it is until the     *)
(* user comes back.  A click on the field or a post gives it the focus.    *)
Open(k, i) ==
    /\ Ticking
    /\ \/ k \in {"click", "enter"} /\ Act(i) = "post"
       \/ k = "click" /\ Act(i) = "field"
    /\ UNCHANGED <<page, channel, earlier>>
    /\ Finish(i, scroll, k, FALSE)

(* A key nothing was done with: Up and Down move, the others only bring    *)
(* the focus within the areas.  On the navigation bar Left and Right go to *)
(* the next button.                                                        *)
Along(k, f) ==
    IF k = "right" /\ f < 0 /\ -f < NavButtons THEN f - 1
    ELSE IF k = "left" /\ f < -1               THEN f + 1
    ELSE f

Unhandled(k) ==
    /\ Act(focus) = "field" => k \in {"none", "up", "down"}
    /\ Act(focus) = "tabs" => k \notin {"enter", "left", "right"}
    /\ Act(focus) \in {"previous", "next", "post"} => k # "enter"

Move(k) ==
    LET to == After(k, drawn, focus, scroll) IN
    /\ Ticking /\ Unhandled(k)
    /\ k = "enter" => to.focus # -2
    /\ UNCHANGED <<page, channel, earlier>>
    /\ Finish(Along(k, to.focus), to.scroll, k, FALSE)

Idle == Move("none")

(* The refresh button by Enter, by a click (which leaves the focus where   *)
(* it is), or Ctrl-R.                                                      *)
Refresh(k) ==
    LET to == After(k, drawn, focus, scroll) IN
    /\ Ticking /\ k \in {"enter", "click", "ctrl-r"}
    /\ k = "enter" => to.focus = -2 /\ Act(focus) = "nothing"
    /\ k = "ctrl-r" => Act(focus) # "field"
    /\ UNCHANGED page
    /\ Reload(Asked)
    /\ Finish(to.focus, to.scroll, k, TRUE)

(* Making the view of the sent page fails.                                 *)
Raise ==
    /\ ~crashed /\ kind = "sent" /\ ~SliceInRange
    /\ crashed' = TRUE
    /\ UNCHANGED <<page, channel, earlier, focus, scroll, drawn, field, stale>>

-----------------------------------------------------------------------------
(* The client answers the request of the page.                             *)
Results == {<<"error", <<>>>>} \cup {<<"ready", [i \in 1..n |-> FALSE]>> : n \in 0..Limit}

Reply(a) ==
    /\ channel.state = "waiting"
    /\ channel' = Channel(channel.to, a[1], a[2])
    /\ UNCHANGED <<page, earlier, focus, scroll, drawn, field, crashed, stale>>

(* mutant: all requests of a page share one channel                        *)
ReplyLateShared(o) ==
    /\ earlier' = earlier \ {o}
    /\ \E a \in Results : channel' = Channel([channel.to EXCEPT !.offset = o], a[1], a[2])
    /\ UNCHANGED <<page, focus, scroll, drawn, field, crashed, stale>>

(* The client answers the request before it, late: in a channel of its own *)
(* that the page does not look at any more.                                *)
ReplyLate(o) ==
    /\ earlier' = earlier \ {o}
    /\ UNCHANGED <<page, channel, focus, scroll, drawn, field, crashed, stale>>

(* The content of a post arrives.                                          *)
Load(i) ==
    /\ ~channel.posts[i]
    /\ channel' = [channel EXCEPT !.posts[i] = TRUE]
    /\ UNCHANGED <<page, earlier, focus, scroll, drawn, field, crashed, stale>>

(* On other pages: a post is sent, and stored among the sent ones.  An     *)
(* edited post is there already: writing it again leaves the list as it is *)
(* or, when the write is torn, takes out of it what cannot be read.        *)
Send ==
    /\ kind = "sent"
    /\ posts' \in {posts, posts - 1, posts + 1} \cap 0..MaxPosts
    /\ stale' = (stale \/ posts' < posts)
    /\ UNCHANGED <<kind, offset, term, tab, channel, earlier, focus, scroll, drawn, field, crashed>>

(* On another page (browser): the account changes.  The banner of the      *)
(* account is not among the sent posts (post.recents), so a login takes it *)
(* out of them and a logout puts it there.                                 *)
SwitchAccount ==
    /\ kind = "sent"
    /\ posts' \in {posts - 1, posts + 1} \cap 0..MaxPosts
    /\ stale' = TRUE
    /\ UNCHANGED <<kind, offset, term, tab, channel, earlier, focus, scroll, drawn, field, crashed>>

Init ==
    /\ kind \in Kinds
    /\ offset = 0 /\ term = <<>> /\ tab = 0
    /\ posts \in IF kind = "sent" THEN 0..MaxPosts ELSE {0}
    /\ channel = Channel(Request(<<>>, 0, 0), IF kind = "replies" THEN "waiting" ELSE "none", <<>>)
    /\ earlier = {}
    /\ focus = 0 /\ scroll = 0
    /\ drawn = [areas |-> <<>>, height |-> 0, term |-> <<>>]
    /\ field = [text |-> <<>>, at |-> 0]
    /\ crashed = FALSE /\ stale = FALSE

Next ==
    \/ \E k \in {"click", "enter"} : \E i \in Pressed(k) : ChangePage(k, i)
    \/ \E k \in {"click", "enter", "left", "right"} : \E i \in Pressed(k) : ChangeTab(k, i)
    \/ Search
    \/ \E k \in FieldKeys : TypeInField(k)
    \/ \E k \in {"click", "enter"} : \E i \in Pressed(k) : Open(k, i)
    \/ \E k \in FieldKeys \cup {"none", "up", "down", "enter"} : Move(k)
    \/ \E k \in {"enter", "click", "ctrl-r"} : Refresh(k)
    \/ Raise
    \/ \E a \in Results : Reply(a)
    \/ \E o \in earlier : ReplyLate(o)
    \/ \E i \in DOMAIN channel.posts : Load(i)
    \/ Send
    \/ SwitchAccount

Spec == Init /\ [][Next]_vars

-----------------------------------------------------------------------------
Acts == {"text", "field", "tabs", "post", "previous", "next"}
Areas == [act: Acts, height: Nat, y: Int]

TypeOK ==
    /\ kind \in Kinds
    /\ offset \in Int /\ posts \in 0..MaxPosts
    /\ term \in Seq({"a"}) /\ tab \in 0..TabCount - 1
    /\ channel \in [to: [term: Seq({"a"}), tab: 0..TabCount - 1, offset: Int],
                    state: {"none", "waiting", "error", "ready"}, posts: Seq(BOOLEAN)]
    /\ Len(channel.posts) <= Limit
    /\ earlier \subseteq Int
    /\ focus \in Int /\ scroll \in Int
    /\ drawn \in [areas: Seq(Areas), height: Nat, term: Seq({"a"})]
    /\ field \in [text: Seq({"a"}), at: Nat] /\ field.at <= Len(field.text)
    /\ crashed \in BOOLEAN /\ stale \in BOOLEAN

(* No key is pressed in vain: on what was drawn last, Down scrolls on, or  *)
(* moves the focus on without scrolling back, until the last area has the  *)
(* focus and the end of the page can be seen; Up likewise, until the       *)
(* navigation bar has the focus and nothing is hidden above.  The reader   *)
(* gets to everything with these two keys (bbs.tick, the adjustment of     *)
(* focusIndex and scrollY).                                                *)
KeysMakeProgress ==
    LET down == After("down", drawn, focus, scroll)
        up   == After("up", drawn, focus, scroll)
        n    == Count(drawn)
    IN  scroll <= 0 /\ focus < n =>
            /\ \/ down.scroll < scroll
               \/ down.scroll = scroll /\ down.focus > focus
               \/ focus = n - 1 /\ drawn.height + scroll <= Height
            /\ \/ up.scroll > scroll
               \/ up.scroll = scroll /\ up.focus < focus
               \/ focus < 0 /\ scroll = 0

(* The top of a page is never pulled away from the navigation bar, except  *)
(* by an Up that comes before the tick which draws a refreshed page.       *)
NoGapAbove == [][scroll <= 0 /\ scroll' > 0 => stale]_vars

(* The sent page keeps its offset among the sent posts, so that making its *)
(* view does not raise: "previous" and "next" are only there when they     *)
(* lead somewhere.  Three things can break it: a button pressed again      *)
(* before the tick that draws the new page, a login that hides a banner,   *)
(* and a sent post that is torn when it is written again.                  *)
SentStaysInRange ==
    [][kind = "sent" /\ SliceInRange /\ ~SliceInRange' => stale \/ posts' < posts]_vars

(* What is searched for is what the field shows, although Enter takes it   *)
(* from the area that was drawn and not from the editor: they differ only  *)
(* until the tick after the last letter.                                   *)
SearchesTheField == [][Search /\ ~stale => term' = field.text]_vars

(* The page shows what it is set to, also when the answer of an earlier,   *)
(* slower request comes after it was set to something else, or after the   *)
(* answer of a later one: each request has a channel of its own, and term, *)
(* tab and offset never change without a request.                          *)
ShownIsAsked == Asked => channel.to = Request(term, tab, offset)
=============================================================================

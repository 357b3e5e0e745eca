# A verification of the ANSIWAVE BBS client

ANSIWAVE is a bulletin board read and written in a terminal, in a desktop
window or in a browser. The program under `src/src/` is its client: it moves
between pages, loads and caches content, lets an author write posts in an
editor with drafts and undo, signs and sends them, and keeps local copies until
the server has published them. These modules model the parts of it that decide
something, check them with TLC, and prove the most important properties for
every value of the constants with TLAPS.

## The system

One thread runs `bbs.tick` for every key and at least once per `displaySecs`
(`bbs.nim:1041-1064`; the browser calls it per frame). A worker of the `client`
package, outside this repository, talks to the server; a request is a
`ChannelValue` whose answer a later tick picks up with `client.get`. The state
of the session is a set of facts with rules that react to insertions
(`pararules`); `session.fireRules` runs them to the end. The data directory (or
the browser's localStorage) survives restarts.

| Component | State | Operations | Talks to |
|---|---|---|---|
| Editor page (`bbs.nim`, `ui.nim`, `ui/editor.nim`) | lines, `Editable`, last edit and save time, `request`, `requestBody` | open, type, save, send, continue, deliver, leave | storage, client, navigation |
| Navigation (`bbs.nim:107-282`) | breadcrumbs and index, table of pages, `Hash`, `HasDrafts`, `HasSent`, the account key | open a page, follow a link, go back, log in and out, change the hash | every page, storage, browser |
| Copies of a post (`post.nim:228-298`) | file `<sig>.ansiwave`, answer of the server | choose by time, store on delivery, clean up after a week | storage, client |
| Undo (`ui/editor.nim:420-470`) | `UndoHistory`, `UndoIndex` | change, move the cursor, undo, redo | the buffer's rules |
| Content page (`ui.nim:93-646`, `bbs.nim:737-1003`) | channels, `cache`, `limbo`, `offset`, `showAllPosts`, tag editor, cached `View`, focus areas | build, cache, refresh, page, switch tab, edit tags | client, the tick's input |
| List pages (`ui.nim:250-295`, `667-806`) | channels, search term and kind, `offset` | search, page, switch tab | client, storage |
| Editor buffer | lines, wrapped lines, two cursors, scroll | keys, mouse, paste, draw | rules, wrapping |
| Commands and errors | `ValidCommands`, `InvalidCommands`, `Links` | parse, run, report | wave script package |
| Focus and scrolling (`bbs.nim:780-901`) | `focusIndex`, `scrollY`, areas | up, down, click | the view drawn last |
| Search field (`ui/simpleeditor.nim`) | line, cursor | keys, Enter | the area drawn last |
| Playback (`midi.nim`, `sound.nim`) | `MidiProgress`, audio handles | play, progress, stop | soundfont, audio device |
| Account (`user.nim`) | key pair, key files | create, load, remove | storage, the login image |
| Browser editor (`web/src/core.nim`) | text element, content seen last, key queue | type, insert a file, compare | `bbs.tick`, the buffer |
| Desktop front end (`gui/`) | key queue | events | `bbs.tick` |

What is hard about it: the server's answers come in any order relative to
keys, to navigation and to each other; a key is interpreted by the view drawn
*before* the last change; files are written without atomicity and failures are
ignored; rules trigger each other; the browser changes the address by itself
and delivers a chosen file late; and a page may change its own request while it
is being built.

What makes each component correct:

* **Editor page**: a text is never lost silently. What counts as saved is in
  the file; a locked buffer has a request that will resolve; what is filed as
  sent was taken by the server; a draft goes away only for a reason.
* **Navigation**: there is always a page to show and to go back to, the
  address is that of the page, and no link changes the account.
* **Copies**: the newest text there is, is shown, and one's own first of all.
* **Undo**: nothing settled is lost, nothing replaced comes back.
* **Content page**: what is cached is complete and current, and everything
  loads.
* **Editor buffer**: wrapping loses nothing, and whatever key comes, both
  cursors come to rest at one place of the text that is on the screen.
* **Commands and errors**: no command drops out unreported; errors, links and
  text fit each other.
* **List pages**: an answer is shown only for what the page is set to, the
  search is for what the field shows, and the offset stays in the list.
* **Focus and scrolling**: two keys reach every area and every line.
* **Browser editor**: the text that is seen is the text that will be sent, and
  several drafts share one element without mixing.
* **Playback**: what is set up for a sound is given back once, and music that
  is shown ends.

## Modules

Every module begins with what one of its actions stands for. `PROJECT.json`
lists for each definition the lines it models. Operators under a comment
`mutant:` are mistakes the code could have made; each property is shown to
notice one of them when it replaces the definition it is modelled on.

### Composer, an editor page, and Outbox, what it promises

`Composer` has one editor page and the file of its draft. `buffer` are the
lines; `dirty` is `lastEditTime > lastSaveTime` and `settled` is
`now - lastEditTime > saveDelay`, the two comparisons `saveToStorage` makes.
`req` and `reqText` are `request` and `requestBody`; `orphans` are texts whose
component was replaced while their request ran; `accepted` is what the server
took. `draft` and `sent` are files and survive `Crash`.

An action is what one tick does with one input. `Send` locks the buffer and only
then comes to saving; `OpenEditor` builds the editor anew only if its buffer is
blank; `Deliver` drops the page, removes the draft and stores the post, which
may fail; `Crash` may strike inside the writes. `LockedEdit` is there because a
click in draw mode, and Tab on an old prompt, do change a locked buffer
(`editor.nim:1013`, `869`). Both files are written by `storage.set`, which
truncates first: a write that fails, or a crash in it, leaves the old file or
what is torn of the new text (`WriteDraft`, `StorePost`). The constant `Torn`
says what may be left of a text, an empty file among it. `writeFailed` and
`storeFailed` are history variables for the two files.

`Outbox` is the specification seen from outside: texts are written as a draft,
put on the wire, taken or refused, and one that was taken replaces the draft. A
file of a sent post may come out torn (`File`): the code does not look at the
result of a write.
`Composer` implements it with `posting <- orphans \cup Unanswered`.

### Navigation

`crumbs`, `idx` (one more than in the code) and `selected` are the breadcrumbs;
`editors` are the editor pages that have data, every other page stays in the
table for good. A page is a kind and an id. `Fire(h)` is what the rules make
of the breadcrumbs and of the fact `Hash`: select the page, look the two flags
up, impose the address of a page that exists. `FireSeeing` names the files the
flags are looked up in: delivery fires the rules before it writes the sent post,
and a write that fails may leave an empty file all the same. `unseen` is a
history variable for such a file, which `ButtonsAgree` excepts. `Visit` is `insertPage` or
`goToPage` with the rules, `RouteHash` is `routeHash`.

`HashChanged`, `ChooseKeyFile`, `KeyFileChosen` and `LogOut` happen only when
`web` says that the browser build runs; both builds are initial states of one
specification. The callback of the file dialog meets whatever page is shown by
then.

Left out: other boards, the limbo list, ids of editor pages in an address that
a reader typed by hand, the failure of a login link at start-up, and a signature
that is used for two kinds of page (the page table has one entry for it).

### PostCopies

One post of the author. `pending`, `accepted` and `published` are versions here,
at the server, and at the server's public address; `local` is the file; `body`
is the answer of the channel and `view` what the page shows and keeps.
`GetFromLocalOrRemote` is the choice of the code: the later one by time, the
remote one on a tie, the one there is otherwise. `Deliver` may leave the file
torn (`Cut`, still with its headers; `Junk`, not). `EditElsewhere` is the same
author on another computer, which is why the file is not always the newest.

### UndoHistory

`history` and `undoIndex` (one more than in the code) are those of a buffer;
`old` says how many snapshots are older than `undoDelay`. Lines are compared by
reference in the code, so a text stands for one state of the lines: a word typed
again makes a new one, while a line that is drawn below the others and deleted
again gives the one before, and two moments may have the same lines. `Change` is
an input followed by `updateHistory`, `Restore` by `undoIndexChanged`, which
does nothing (the cursor included) if the moment has the lines that are shown
already. A buffer starts with one snapshot, or with two when a draft is loaded
into a blank one.

### ContentPage

One page of a user, of the board, or of a post. `chan` are its channels,
`posts` and `entity` what came of two of them, `items` the contents of the posts
listed (`comp.cache`, as one). `asked` is a record of what the channels were
opened for. `cached` is whether `page.view` is kept, `shown` the view drawn
last, whose areas interpret the next key.

An action is one tick with one input. The tick first builds a view (the
operators ending in `1` are the state after that: channels that answered
become ready, and a user who was not found sends the page to limbo, all
channels asking again), then handles the input, then draws the view built at
first. `Finished` is `finishedLoading`. It goes by `Read`, what the channels gave
*before* the page may refresh itself; of a user page that is what the tick before
knew of the user, of a post page all three are read by then. `CachedIsComplete`
compares it with the view (`complete`), which is about the channels as they are
at the end. `EditTags` (Ctrl-X) is also taken on a user found nowhere, where
there is nothing to edit and the view is built anew.

### FocusScroll, what Up and Down do

A drawing is a sequence of areas with the rows they take, and the height of it
all. `NextArea` is the `case key` that chooses the next area, `Shown` the block
that scrolls so that its edge can be seen, by `MaxScroll` rows at most, and
`After` both with the clamps. Everything is a function of the drawing made
*last*, of `focusIndex` and of `scrollY`.

### ListPage

One page of sent posts, of replies or of a search (`kind`). `offset`, `term` and
`tab` are what it is set to, `channel` the request that was made last with what
it was made for (`to`) and its answer, `earlier` an earlier request that is still
to be answered (the last one, by its offset), `posts` how many posts the storage has,
`field` the line of the search field with its cursor. `View` is the view made
at the start of a tick, `drawn` the areas of the one drawn last, with the text
the field's area took along.

An action is one tick with one input: the key is interpreted by `drawn`, the
page changes, and the view from *before* the change is drawn (`Finish`). Enter
in the field thus searches for `drawn.term`. The page of sent posts slices its
list by the offset, and the tick raises when the slice starts outside
(`Raise`); the program is over then. `Send` and `SwitchAccount` happen while
another page is shown; an edited post that is sent is written over its older
copy, and when that write is torn it is no post any more (`ui.nim:673`).
`ReplyLate` answers an earlier request after the page has made another one, or
after that was answered. The heights of the posts and of the screen are constants;
a post takes no room before its content is loaded.

Left out: the list of drafts, which has no offset and no request; the limbo
address a search may be sent to; the navigation bar's buttons other than
"refresh".

### LineWrap, functions on lines

A line is a sequence of letters and blanks, which is all that `wrapLine` looks
at; a line that starts with a blank stands for those and for commands, none of
which is wrapped. `Breaks` is a recursive function over the positions of a line
that starts a row at each word that does not fit, `Wrap` makes rows that carry
their entry of `toUnwrapped`, and `Unwrap` is `unwrapLines` with a
table that may be older than the rows, as it is when something is drawn.
The operators ending in `In` state what wrapping promises of a text, without
using how it is done; `TypedText` is a text typed letter by letter, so that
its runs meet every short text and its theorems speak of every text.

### EditorCursor, a buffer with its rules

`at` are the facts of the two cursors and of the window; `wrapped` are the wrapped
lines with their table, those of older lines until the rule `wrapLines` ran;
`cursor` and `wrappedCursor` are the pairs the rules are triggered by. An input
(`Input`) is one tick with one key or click on a buffer at rest: it changes the
lines, writes a cursor, or both. Then `Round` after `Round` runs until `queue`,
the triggered rules, is empty. The rule engine is a package of its own; it is
modelled as running all triggered rules on the facts before the round, with the
writes of the two cursor rules in either order, and as giving up after
`RecursionLimit` rounds. The package gives up after 16; the model asks for six at
least (`LimitAssumption`), which is proved to be enough for every input that asks
for a row of the text, and runs with six.

Which mode and insert mode the buffer is in is chosen anew for each key. `moved`
and `outside` are history variables: properties are about inputs that write a
cursor (`moved`), and `ComesToRest` about those that ask for a row of the text
(`outside` says the last one did not). An `Up` from a longer row may come to
rest at the start of the row after the one asked for; this is what the
rules do, and no property speaks against it.

Left out: colours and double width characters, what the browser's element does
to the cursor, and Insert and Copy, which change neither lines nor cursors.

### Commands, and EditorBuffer, which joins it with the history

`text` is a sequence of kinds of lines. `cmds` and `errs` are `ValidCommands`
and `InvalidCommands` as rows, and `links` the gutter of the editor. `Parse` is
what `parseCommands` makes of a text. `SetRuntimeError` moves a command that
cannot be compiled from one list to the other, the way the code does it: both of
its loops compare the first element only (`Without`). `moved` is a history
variable: it becomes true when the first of several errors failed again and so
moved to their end, under the links that were set before. Whether a command compiles
is a matter of its text. The cursors of both tabs are left out: after `PlayAll`
that of the errors is set by the link of the failure and by `updateErrors`, and
which is last depends on the rule engine.

`EditorBuffer` composes `UndoHistory` with `Commands`, whose `text` is that of
the lines shown: typing, undo and redo change the lines, and `parseCommands`
follows whenever they do. Texts are typed, played, undone, played again and
redone in any order.

### WebEditor

In write mode the browser shows an element (`field`) over the terminal, and the
buffer is a copy of it. One step is one call of `bbs.tick` within a frame
(`BeginFrame`, up to `MaxKeys` ticks, `EndFrame`), or what the browser does
between frames: the author types, a chosen file arrives (`InsertFile`), time
passes (`Clock`). At the end of a frame `tick` of `web/src/core.nim` fills the
element when write mode was entered (`Enter`), or else compares it with the
content seen last, at most every quarter of a second (`Compare`), whatever the
editor shows by then. A text is the set of pieces put into it, and `home` the
editor a piece was meant for. Escape changes the page at once, the back button
and `show-editor` change the breadcrumbs and the page follows in the next tick
(`going`).

`pasted` and `hasty` are history variables for two things the code does not
promise: Ctrl-V pastes into the buffer and past the element, and an editor may be
left, or exchanged for another, before its last words were taken over.

### Playback

`midi` is the `MidiProgress` of a post and of an editor; `held` the parts of
the audio library that are initialised, and `over` the sounds whose time has
passed. `HeldAfter` follows the four steps of `sound.play` with the handler of
each. A tick on a page first handles keys and deliveries and then lets the
`MidiProgress` of this page take one step (`Progress`); other pages stand still
while their music goes on. A page may be left, made anew (`Drop`: its
`MidiProgress` is gone, its sound is not), or be delivered while it plays.
`lost` remembers sounds nobody can stop any more. Such sounds do happen: a post
that plays and is opened anew, an editor whose request is answered.

## What is checked

| Run | Module, configuration | Shows | States |
|---|---|---|---|
| `composer` | `MCComposer`, two texts and the blank one, a text to edit, `FairSpec` | lock, saving, drafts, refinement; sending resolves, edits get saved | 233,360 |
| `composer_error` | two texts | finding 1 | |
| `navigation` | `MCNavigation`, both builds; two keys (symmetric), drafts, trails of three | first page, trail, going back, address, buttons, account | 782,234 |
| `post_copies` | four times, a week of two | newest, available, healing, own writes | 518,160 |
| `content_page` | a user page, three pages of posts, `FairSpec` | complete, current, tag editor; everything loads | 83,182 |
| `list_page` | `MCListPage`; three kinds of page, up to five posts, two to a page of three and of nine rows, a screen of fourteen, one earlier request | Up and Down get on, no gap, offset, search, late answers | 308,285 |
| `line_wrap` | `TypedText`; rows of three, up to two lines and eight characters | rows fit, are full, cover each column once, join again | 4,608 |
| `editor_cursor` | `MCEditorCursor`; two lines of three, rows of two, a window of 3 x 2, six rounds | cursors rest, agree, are visible | 242,005 |
| `editor_cursor_line` | the same buffer | finding 2 | |
| `editor_buffer` | `MCEditorBuffer`; four texts, two positions, three snapshots, four errors | settled and replaced texts; nothing forgotten, links and errors fit | 38,456 |
| `web_editor` | two drafts, two pieces, three keys per frame, fair | element and buffer agree, drafts stay apart; what is typed gets in | 556,768 |
| `playback` | `MCPlayback`; three sounds, `FairSpec` | held, whole, owned or lost; a tune that is shown ends | 75,264 |

The page of a post and that of the board are a user page with fewer inputs and
channels: what `content_page` finds safe is proved for all three kinds (below).

The properties, each with a comment at its definition:

* `LockedIffRequested`, `SavedMeansStored`, `DraftKept` and
  `ImplementsOutbox` relate the buffer, the request, two files and the server
  over any sequence of actions, crashes included. `SavedMeansStored` and
  `DraftKept` except writes that failed: the code discards the result of
  `storage.set`, and the history variable `writeFailed` keeps that case apart.
  `ImplementsOutbox` has no such exception: what is filed under a signature is
  the text that was taken, what a failed write left of it, or what was there.
  Where both files are lost (the draft removed, the post not stored), neither
  property speaks against it: the server has the text by then.
* `SendingResolves` and `EditsGetSaved` are the promises to an author who
  waits.
* `FirstPageStays` is what makes the unguarded step back of `create-user`
  safe; `BackMoves`, `TrailExists`, `HashAgrees`, `ButtonsAgree`
  and `LinksKeepAccount` follow the rules and callbacks through every order.
* `NeverOlder`, `ShowsWhatThereIs`, `CutHeals` and
  `ReadYourWrites` say what the choice between two copies is for.
* `SettledTextStays` and `ChangeEndsRedo` say what merging and truncating
  snapshots may not do.
* `CachedIsComplete`, `CachedIsCurrent`, `TagEditorRefreshes`
  and `Loads` say when a view may be kept. `Loads` is a promise for good: on a
  page that is left alone, from some time on, the view is cached or the tag
  editor is open, however often it was refreshed before.
* `KeysMakeProgress` says that Up and Down are never pressed in vain, and so that
  everything on a page can be read; `NoGapAbove` that the page is not pulled off
  the navigation bar. `SentStaysInRange`, `SearchesTheField` and `ShownIsAsked`
  relate the page to storage, field and request. `NoGapAbove`, `SentStaysInRange`
  and `SearchesTheField` except a key pressed before the tick that draws the last
  change (`stale`), because of which they can fail, and `SentStaysInRange` a list
  that gets shorter (*Other places* below). `ShownIsAsked` has no exception: the
  answer of an earlier request may come at any time after the page has asked for
  something else.
* `RowsCoverLines` and `UnwrapRestores` say what wrapping is, apart from how it
  is done.
* `ComesToRest`, `MovedCursorsAgree` and `MovedCursorVisible` are what the six
  rules on cursors and window must achieve together, in either order.
* `NoCommandForgotten` and `LinksLeadToErrors` relate text, two lists and the
  gutter. The first holds although `setRuntimeError` looks at first elements only.
  The second says that a link to an error always leads to a listed one, and to
  that of its own line until an error listed before others failed again
  (`moved`), which takes a text with two commands that fail.
* `FieldShowsBuffer` and `DraftsStayApart` follow texts through two copies and
  several editors; `TypedGetsIn` is the promise to an author who stays.
* `PlayingIsHeld` and `HeldIsOwnedOrLost` follow sounds over two pages;
  `ShownTuneEnds` is the promise to a listener.

Properties that only a theorem states, and no run: `SentWasAccepted`,
`ShownWasAccepted`, `CurrentIsSnapshot`, `FirstTextStays`, `OffsetBounded` and
`PromptGoesWithMusic`. Each is a part of the inductive invariant of its
component, or follows from it. That `EditorBuffer` implements `UndoHistory` is
a theorem as well (`BufferHasHistory`).

**Bounds.** Two texts besides the blank one let the text typed, sent, stored and
being edited differ pairwise. Trails of three hold a page, an editor on it and a
page reached from there, which is what delivery, stepping back and appending
tell apart; longer trails repeat positions that no action looks at together. Two
keys are the account and the one that replaces it. A week of two in a clock of
three has copies younger, exactly as old and older than a week. Three snapshots
and four texts let the index be at the first, in the middle and at the end, with
neighbours that have the same lines and others; the texts have two commands that
fail, one after a wrapped line, and one beside a mistake before or after it.
Three pages of posts have a first, a middle and a last one. Lines of three in
rows of two have one row, two rows, and a row with blanks at its end; two lines
have a first and a last; a window of three by two is smaller than the rows of
two such lines. A wheel step of one (`linesPerScroll` is four) leaves two lines
at either end, as four does longer texts. `RecursionLimit` of six is
the least that is enough for inputs in the text (with five, `ComesToRest` fails);
a chain that goes on for ever passes any limit. A
list of five has a full first, a full middle and a short last page of two; a
page with both posts is longer than the screen of fourteen rows, the larger post
alone is longer than `MaxScroll` (two rows), and the loading of either makes
the page grow or shrink under the focus. One letter in the field makes it differ
from the term and back. A remote list has two pages (`Offsets`); below 0, where a
burst of two "previous page" leads, it has the buttons of the first page. One
earlier request is answered before and after the
later one; another would have a channel of its own like it. Two drafts and two pieces let a piece be taken for that
of another draft, with one more under way; three keys per frame are enough to
leave an editor and enter another within a frame. Three sounds are one on each
page and one that was lost.

**Fairness.** The main loop never stops, so a tick is taken (`IdleTick`,
`Deliver`); clocks advance (`Elapse`, `EndAnimation`); the worker answers each
request, with an error if it must (`Answer...`). Nothing is asked of the author
or of the server beyond that: `SendingResolves` excepts leaving the page, for
`Deliver` is only taken on it, `ShownTuneEnds` likewise, and `EditsGetSaved` and
`Loads` speak of an author who leaves the page alone from some time on. In the
browser the main loop is called again and again and a frame ends with its queue
(`BeginFrame`, `TickOnly`, `EndFrame`), and a quarter of a second passes
(`Clock`).

**Deadlock** is checked in every run but those of `TypedText`,
`MCEditorCursor` and `MCListPage`: the typing of the first ends at its bound, the
rule engine of the second gives up when its limit is reached, by raising an
exception, and a page of sent posts that is sliced out of range ends the program.

## Findings

Two runs each look for the violation of one sentence of the source.

1. *The error after a failed request says "don't worry, a draft is saved"*
   (`bbs.nim:534`), but there may be none. The tick that sends locks the buffer
   (`bbs.nim:540`) before it comes to `saveToStorage`, which skips locked
   buffers and edits younger than `saveDelay` (`editor.nim:664-666`). A text
   sent at once after typing is in memory only, until "continue editing" is
   pressed. `composer_error` shows the steps.
2. *"force cursor to refresh in case it is out of bounds"* (`editor.nim:745`)
   is done by `pasteLines`, which replaces a line, and not when Tab deletes one
   (`editor.nim:869-879`). With the prompt opened at the start of a wrapped
   line and the wheel turned to a later row, the cursor ends up beyond the line
   that takes the place of the deleted one, and Backspace would index out of
   range. `editor_cursor_line` shows the steps.

Other places where reading for the models found the code and its words apart;
they have no run of their own:

* Delete and a click in draw mode insert `Lines` only, and no change of lines
  triggers `wrappedCursorChanged` (`editor.nim:519-526`), so a cursor in a row
  that becomes shorter is shown outside of it until the next key. This is why
  `MovedCursorsAgree` is about inputs that write a cursor.
* "at the very end of the line, there is an extra spot so the cursor can append
  to the end" (`post.nim:107`), and only there, by `toWrapped`; but
  `wrappedCursorChanged` allows the spot behind every row (`editor.nim:527`).
  For a row above the text (wheel, PageUp, a click on the border) and such a
  column, the two rules write to each other until the engine gives up, which is
  why `ComesToRest` excepts inputs `outside` of the text.
* "hint: see where the error happened with tab" (`editor.nim:985`): errors are
  kept by row (`editor.nim:344-346`) and the link sets the line
  (`editor.nim:413`), so after a wrapped line it leads too far down.
* "hint: see the error with tab" (`editor.nim:983`): when a command fails again
  whose error is the first of several, the error moves to the end of the list,
  and the links of the others then lead to the wrong ones
  (`editor.nim:176-182`). `LinksLeadToErrors` says that this is the only way.
* "You must log out of your existing account before logging in to a new one."
  (`bbs.nim:254`) is true of login links only. A login page that stayed in the
  breadcrumbs still offers `create-user`, which overwrites the key of the
  account (`bbs.nim:393-398`, `user.nim:190-198`). `LinksKeepAccount` excepts
  login pages for this reason.
* A burst of keys acts on the view drawn last. Enter twice on "next page" or
  "previous page" of the sent posts leads to an offset outside of the list, and
  `recents[comp.offset ..< ...]` (`ui.nim:682`) raises an exception that
  `bbs.tick` does not catch. A login that takes the banner out of the list
  (`post.nim:178`) while its last page is open does the same, and so does an
  edited post that is torn when it is sent again (`ui.nim:673`).
  `SentStaysInRange` says that there is no other way.
* Enter in the same burst as the last letter of a search searches without this
  letter (`simpleeditor.nim:121`): the text goes with the area that was drawn
  before. `SearchesTheField` says how far.
* Up in the same burst as a refresh takes the new `scrollY`, 0, with areas drawn
  at the old one, and pulls the page below the navigation bar until the next
  Up or Down; `NoGapAbove` excepts it.
* While a list loads it has no area, and a focus that was on "next page" goes to
  -1, the navigation bar (`bbs.nim:900`); in the terminal the next Enter presses
  the back button.
* In the browser, leaving an editor within a quarter of a second of the last
  letter and opening another one puts the element's content into that one, if it
  is shown in draw mode or behind another tab (`core.nim:297-304` compares
  whatever the editor shows). `DraftsStayApart` excepts it by `hasty`.
* In the browser a paste with Ctrl-V or Ctrl-L goes into the buffer and not into
  the element that covers it, and is lost with the next letter
  (`editor.nim:736-746`, `core.nim:302-303`). `insertFile` shows the buffer in
  the element, without the last words that were not taken over yet
  (`core.nim:150-153`).
* A file that is no login key is stored over the login key all the same and the
  page goes back (`user.nim:112-125`, `bbs.nim:410-419`); the account stays
  until a restart.
* "press esc to stop playing" (`editor.nim:1074`): after Up on the first row the
  navigation bar has the focus, and keys no longer reach the editor
  (`bbs.nim:361-364`, `946-958`); Escape does nothing.

## What is proved

Eight modules hold proofs, each for every value of the constants of its
component. All that is assumed of the constants are the named assumptions of the
modules, and TLC evaluates each of them in a run:

* "no key", "no page", "no sound" and "blank" differ from everything else, keys
  are not signatures, and the text or cursor to start from is one there is;
* what a torn write leaves of a text are texts, the empty one among them
  (`TornAssumption`);
* a week, a history, a queue, a list, a page, a row, a screen and a window have
  natural sizes, not zero where the code cannot have zero;
* kinds of pages and lines are those the code knows, and no text is without a
  line: a buffer is made of the lines of a string, and of an empty string there
  is one (`TextsAssumption`, `ContentAssumption`);
* the wheel moves by at least one line (`StepAssumption`; it is four), and the
  rules may run for six rounds (`LimitAssumption`; it is 16).

Each component has an inductive invariant, a step or lemma per action for it, and
a theorem per property. Some components compute with sequences: which areas of a
view are on the screen, which rows a line is wrapped into, which rows of a text
hold commands. Their proofs rest on three lemmas that take sets and functions
instead of operators: a set of numbers has a least one (`LeastNumber`), a set
with 0 and the successors of its members has all numbers (`SetInduction`), and
what is defined step by step exists and is what its definition says
(`Recursion`, `Recursive`).

* `NavigationProofs`, for both builds and trails of any length: the trail needs
  that no editor is under another page (`EditorsOnTop`) for `TrailExists`, since
  a delivery takes its editor out of the table of pages, and that the page
  selected is that of the index for `BackMoves` and `HashAgrees`. In the
  browser `EditorsOnTop` is false, and `TrailExists` with it. That a file dialog
  is open only in the browser makes `ButtonsAgree` inductive.
* `WebEditorProofs`, for any number of drafts, pieces and keys per frame:
  `FieldShowsBuffer` holds between frames only, so the invariant says what the
  element has *during* a frame: the pieces of the editor it was displayed for
  (`FieldIsOfLast`), which are those of the page selected as long as some are not
  taken over (`UnseenIsOfSelected`), or else are all in its buffer
  (`BufferHasField`).
* `ListPageProofs`: `Progress` is about *every* focus and scroll position on
  *every* drawing, by cases of the clamps of `FocusScroll`; that the places of a
  drawing are numbers is part of `TypeOK`, which needs to know what `SelectSeq`
  and the sum of heights make of a view (`ViewParts`). The other invariants are
  in `ListInv`. `DrawnFits`: unless the page is `stale`, what was drawn are areas
  of the page as it is, at the scroll position it has; then a click hits the
  button of the page that is shown, and a key cannot pull the page off the
  navigation bar (`NoGap`). `StartsWhole`: a page of sent posts starts at a
  multiple of its limit. Without it "previous page" could lead below 0, for it is
  offered at every offset but 0 (`SentInRange`). `AnswersFit` and
  `SearchedIsTyped` rest on one invariant each (`ChannelAgrees`,
  `FieldIsDrawn`).
* `ComposerProofs`: `IInv` is the type invariant with `LockedIffRequested`,
  `SavedMeansStored`, `SentWasAccepted` and `ValidWasAccepted`: a valid answer
  is about a text that was accepted, without which `SentWasAccepted` is not
  inductive. It says that a text filed as sent was accepted, or, once a write has
  failed (`storeFailed`), is torn of one that was. `DraftKept` follows from it step by step. `Refinement` maps every
  step to a step or a stutter of `Outbox`; the one with content is `Deliver`,
  which may file a text, or a torn one, only because the answer was valid.
* `PostCopiesProofs`: to the five properties `IInv` adds that a page shows
  something only after an answer (`ShownAfterAnswer`), that whole copies
  anywhere were accepted (`CopiesWereAccepted`), and that a version filed for
  good is in the file (`FiledIsStored`). The properties speak of the page
  and the file together, and hold because delivering a file reopens the page.
* `EditorBufferProofs`, for any texts with any commands and mistakes in them: of
  the history, `IInv` is the type invariant (the index and the age mark lie in the
  history) with `CurrentIsSnapshot`; `Truncated` says what a change leaves of the
  history and `OtherSteps` that nothing else replaces a moment. Of the commands,
  `CommandsInv` says that commands and errors are rows of the text of their kind,
  that each row that parses is in one of the two lists (`Remembered`), that the
  rows of errors and the links with an error belong to each other (`Linked`), and
  that they are each other's until one has `moved` (`LinkedToOwn`). The last is
  where the code is weak: an error that came up when a command was played is
  taken out at the top of its list only, and the others move up then. With one
  command that can fail it is alone there when it is found, so `moved` stays
  false (its second conjunct). `BufferHasHistory` shows that
  typing, undoing and playing are steps or stutters of `UndoHistory`, so that
  `BufferUndo` has what was proved of a history.
* `ContentPageProofs`: the point is `FinishedView`. `Finished` looks at the
  channels as they were read before the page may refresh itself, so it does not
  say by itself that the view is complete. If a view may be cached,
  the tick that built it did not send the page to limbo: a user page needs its
  user read by an *earlier* tick, and then the page went to limbo back then, if
  it had to (`MissingIsInLimbo`). Without that a refreshed page could hide under
  a finished view.
* `EditorProofs`, three parts. *Wrapping*, for texts of any length: the rows of
  a line follow each other from its first to its last character, and the rows of
  a text through its lines. So each column is in one row (`TextIsCovered`) and
  joining the rows gives the lines back (`TextIsRestored`). That a row is too wide
  only when it has to be, and broken only at a word that does not fit, comes from
  the recursive definition of `Breaks`.
  *Cursors*, for lines and windows of any size: the two cursors agree at rest
  because `CursorInv` says what holds while rules wait. The rows are those of the
  lines unless `wrapLines` waits, and it never waits together with a rule that
  reads them (`RowsAreWrapped`); the pairs are those of the facts unless the
  rules that make them wait (`CursorsAreUpdated`); and the cursors disagree only
  as long as a rule that compares them waits (`CursorsSettle`), since each of the
  two rules triggers the other when it writes. `WindowFollows` is the same for
  the window. That the rules end is a matter of phases (`InPhase`): the first
  rounds put the cursor on a line that exists, the next on a column of it, and
  the last two may take it from the end of a row to the start of the next. A place
  chosen by the rule of the lines is one both rules keep, so six rounds are
  enough (`RulesComeToRest`).
  *Playback*: `SoundsDiffer`, that the post and the editor never play the same
  sound, makes `PlayingIsHeld` and `HeldIsOwnedOrLost` inductive: without it a
  stop on one page could take the parts of the other's sound. `AllOrNothing` reads
  the handlers of `sound.play`: every step that fails gives back all that was made
  before it.

Model-checked only is liveness under fairness, which is out of the prover's reach:
`SendingResolves`, `EditsGetSaved`, `Loads`, `TypedGetsIn`, `ShownTuneEnds`. Every
safety invariant, action property and refinement that a passing run checks is
stated by a theorem. The two findings are counterexamples of TLC, and need no
proof.

## What is not modelled

The program is written in Nim, in `src/src/ansiwavepkg/*.nim`, `ui/`, `src/web/`
and `src/gui/`: some 6,000 lines, and the modules are about these. The C and
header files beside them (`chafa/`, with a copy of glib, and `qrcodegen/`),
which are most of the lines of the repository, are third-party libraries; none
of them is modelled.

* Rendering, colours and layout; the wave script language and the compilation of
  music, which are packages of their own; the pararules engine, beyond what
  `EditorCursor` says of it; image conversion and QR codes.
* The desktop front end, which only passes keys on, and the command line, which
  converts a file and exits.
* Hiding the login key in the bits of an image (`user.nim:11-62`) and key
  generation: computations on bytes without a state. Signatures are taken to be
  what they are for.
* Other boards, the limbo list and its address; the list of drafts as a page
  (the files are in `Composer` and `Navigation`); the tag fields as editors
  (what they submit is in `ContentPage`).
* Views that outlive an account: `ContentPage` has one account, `Navigation` has
  no views. What a play button plays on a page that was refreshed.
* The cursor and the scroll position of the browser's element, and what
  `html.nim` makes of colours.

The hazards of these parts that touch the state of the session are in
`PROJECT.json`, with the reason why no property covers them.

## Plan

What would come next, by what it would show:

1. `Session`: `Navigation` composed with a `ContentPage` per page and with
   `Composer`, for views that outlive an account or a delivery.
2. An abstract player for `Playback` (each sound started once, stopped at most
   once) that both pages implement, as `Outbox` is for `Composer`.
3. `LoginImage`: hiding a key in an image and reading it back, on small images.
4. `EditedText`: `EditorCursor` composed with `EditorBuffer`. The moments that
   undo puts back are constants of the first (`Snapshots`); they would be those of
   the history, and that each of them has its cursor on a row of its text, which
   `ComesToRest` asks of an input, a theorem.

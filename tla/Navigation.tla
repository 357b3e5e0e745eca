----------------------------- MODULE Navigation -----------------------------
(***************************************************************************)
(* How the BBS client moves between pages: the breadcrumbs and the index   *)
(* into them, the table of pages, the address ("hash") of the selected     *)
(* page, the account, and the two navigation-bar flags that tell whether   *)
(* there are drafts and sent posts.                                        *)
(*                                                                         *)
(* bbs.nim inserts facts and lets its rules react.  Every tick begins with *)
(* session.fireRules, so an action here is what one input or callback      *)
(* inserts together with what the rules then make of it ("Fire").          *)
(*                                                                         *)
(* A page is its kind and the signature or key it is about.  web says      *)
(* which build runs: a browser changes the hash on its own and delivers a  *)
(* chosen login file later.                                                *)
(***************************************************************************)
EXTENDS Integers, Sequences

CONSTANTS
    Board,      \* the key of the board
    Mine,       \* the keys of accounts the author may have
    Posts,      \* signatures of posts
    None,       \* no key, no signature
    Lists,      \* the kinds of list pages
    Builds,     \* TRUE for the browser build, FALSE for the terminal
    MaxCrumbs   \* bound on the length of the breadcrumbs

Users == Mine \cup {Board}
Ids   == Posts \cup Users

ASSUME IdsAssumption == None \notin Ids /\ Users \cap Posts = {}
ASSUME ListsAssumption == Lists \subseteq {"drafts", "sent", "replies", "search"}
ASSUME BuildsAssumption == Builds \subseteq BOOLEAN
ASSUME MaxCrumbsAssumption == MaxCrumbs \in Nat \ {0}

PageOf(k, i) == [kind |-> k, id |-> i]

UserPages   == {PageOf("user", i) : i \in Users}
PostPages   == {PageOf("post", i) : i \in Posts}
EditorPages == {PageOf("editor", i) : i \in Ids}
ListPages   == {PageOf(k, None) : k \in Lists}
Login       == PageOf("login", None)
Logout      == PageOf("logout", None)
Message     == PageOf("message", None)

Addressed == UserPages \cup PostPages \cup ListPages
Page      == Addressed \cup EditorPages \cup {Login, Logout, Message}

(* A hash names a page, or nothing, or is a login link with a private key. *)
NoHash  == PageOf("none", None)
KeyHash == PageOf("key", None)
Hash    == Addressed \cup {NoHash, KeyHash}

VARIABLES
    web,        \* the build that is running
    crumbs,     \* PageBreadcrumbs
    idx,        \* PageBreadcrumbsIndex + 1, so crumbs[idx] is the page
    selected,   \* SelectedPage
    editors,    \* the editor pages that have their ComponentData
    hash,       \* Hash
    key,        \* user.pubKey, None when logged out
    drafts,     \* the editor pages that have a draft file
    sent,       \* the signatures that have a local copy in storage
    hasDrafts,  \* HasDrafts
    hasSent,    \* HasSent
    dialog,     \* a file dialog for the login key is open
    unseen      \* history: a file came up after the flags were looked up

vars == <<web, crumbs, idx, selected, editors, hash, key, drafts, sent, hasDrafts,
          hasSent, dialog, unseen>>

TypeOK ==
    /\ web \in Builds
    /\ crumbs \in Seq(Page)
    /\ idx \in 1..Len(crumbs)
    /\ selected \in Page
    /\ editors \subseteq EditorPages
    /\ hash \in Hash
    /\ key \in Mine \cup {None}
    /\ drafts \subseteq EditorPages
    /\ sent \subseteq Ids
    /\ hasDrafts \in BOOLEAN /\ hasSent \in BOOLEAN
    /\ dialog \in BOOLEAN /\ unseen \in BOOLEAN

-----------------------------------------------------------------------------
(* ui.toHash: editors, login, logout and messages have no address.         *)
HashOf(p) == IF p \in Addressed THEN p ELSE NoHash

(* The author's own id opens as a user page, any other as a post.          *)
ContentPage(i) == IF i \in Users THEN PageOf("user", i) ELSE PageOf("post", i)

(* post.recents leaves out the author's own banner.                        *)
Recents(files, k) == files \ {k}

(* Whether a page is in the table of pages.  Only an editor is ever taken  *)
(* out of it; any other page that has a breadcrumb is there.               *)
Exists(p, es) == p \in EditorPages => p \in es

(* mutant: the flags are looked up only when the program starts            *)
FireKeepingFlags(h) ==
    /\ selected' = crumbs'[idx']
    /\ UNCHANGED <<hasDrafts, hasSent, unseen>>
    /\ hash' = IF Exists(selected', editors') THEN HashOf(selected') ELSE h

(* mutant: an existing page does not impose its address                    *)
FireKeepingHash(h) ==
    /\ selected' = crumbs'[idx']
    /\ hasDrafts' = (drafts' # {})
    /\ hasSent' = (Recents(sent', key') # {}) /\ unseen' = FALSE
    /\ hash' = h

(* The rules, once nothing is left to fire: the page at the index is the   *)
(* selected one, the flags are looked up again, and a page that exists     *)
(* imposes its address; h is the Hash fact they start from, and files are  *)
(* the local copies there are by then.                                     *)
FireSeeing(files, h) ==
    /\ selected' = crumbs'[idx']
    /\ hasDrafts' = (drafts' # {})
    /\ hasSent' = (Recents(files, key') # {}) /\ unseen' = (files # sent')
    /\ hash' = IF Exists(selected', editors') THEN HashOf(selected') ELSE h

Fire(h) == FireSeeing(sent', h)

(* mutant: the page is appended even if it is the current one              *)
GoToPageAgain(i, p) ==
    crumbs' = Append(SubSeq(crumbs, 1, i), p) /\ idx' = i + 1 /\ idx' <= MaxCrumbs

(* mutant: the new page replaces the current one                           *)
GoToPageReplacing(i, p) ==
    LET kept == SubSeq(crumbs, 1, i - 1) IN
    crumbs' = Append(kept, p) /\ idx' = Len(kept) + 1

(* goToPage from index i: forget the pages beyond it, append p unless it is*)
(* the page there already.                                                 *)
GoToPage(i, p) ==
    LET kept == SubSeq(crumbs, 1, i) IN
    IF i > 0 /\ kept[i] = p
    THEN crumbs' = kept /\ idx' = i
    ELSE crumbs' = Append(kept, p) /\ idx' = i + 1 /\ idx' <= MaxCrumbs

(* insertPage, and the rules.                                              *)
Visit(p, h) ==
    /\ GoToPage(idx, p)
    /\ editors' = editors \cup ({p} \cap EditorPages)
    /\ Fire(h)

(* A login link logs its account in; an unusable one does nothing.         *)
LogInByLink(fact) ==
    \/ key' \in Mine /\ Visit(PageOf("user", key'), fact)
    \/ /\ hash' = fact
       /\ UNCHANGED <<crumbs, idx, selected, editors, key, hasDrafts, hasSent,
                      unseen>>

(* mutant: a login link is followed with an account at hand                *)
RouteHashAnyKey(h, fact) ==
    \/ h = KeyHash /\ LogInByLink(fact)
    \/ h = NoHash /\ UNCHANGED key /\ Visit(Message, fact)
    \/ h \in Addressed /\ UNCHANGED key /\ Visit(h, fact)

(* routeHash, h being the hash routed and fact the Hash fact meanwhile.    *)
RouteHash(h, fact) ==
    \/ h = KeyHash /\ key = None /\ LogInByLink(fact)
    \/ (h = NoHash \/ (h = KeyHash /\ key # None)) /\ UNCHANGED key /\ Visit(Message, fact)
    \/ h \in Addressed /\ UNCHANGED key /\ Visit(h, fact)

(* The session as initBbsSession leaves it: one page, the one the hash of  *)
(* the command line or the browser names.                                  *)
Init ==
    /\ web \in Builds
    /\ key \in Mine \cup {None}
    /\ \E p \in Addressed \cup {Message} :
          /\ crumbs = <<p>>
          /\ selected = p
          /\ hash = HashOf(p)
    /\ idx = 1 /\ editors = {}
    /\ drafts \in {{}, {PageOf("editor", Board)}} /\ sent \in {{}, Mine}
    /\ hasDrafts = (drafts # {})
    /\ hasSent = (Recents(sent, key) # {})
    /\ dialog = FALSE /\ unseen = FALSE

-----------------------------------------------------------------------------
Reading == selected \notin EditorPages
Writing == selected \in editors

(* The buttons and links that open a page by building it anew: show-post,  *)
(* home, up, my page, and the lists.                                       *)
OpenPage(p) ==
    /\ Reading
    /\ \/ p \in UserPages \cup PostPages
       \/ p = PageOf("search", None) /\ selected # p
       \/ /\ p \in ListPages \ {selected, PageOf("search", None)} /\ key # None
          /\ selected \notin {Login, Logout, PageOf("user", key)}
          /\ p.kind = "drafts" => hasDrafts
          /\ p.kind = "sent" => hasSent
       \/ p = Login /\ key = None /\ selected \notin {Login, Logout}
       \/ p = Logout /\ key # None /\ selected = PageOf("user", key)
    /\ UNCHANGED <<key, drafts, sent, dialog>>
    /\ Visit(p, hash)

(* go-to-url with a link into this board, in the content of a page.        *)
FollowLink(h) ==
    /\ selected \in UserPages \cup PostPages
    /\ UNCHANGED <<drafts, sent, dialog>>
    /\ RouteHash(h, hash)

(* show-editor on a page of content or in the list of drafts.  A page whose*)
(* editor is not empty is kept; otherwise the editor is built anew, after  *)
(* the text to be edited was stored as its draft, if there is such a text. *)
ShowEditor(e) ==
    /\ Reading /\ key # None
    /\ \/ selected \in UserPages \cup PostPages /\ e.id = selected.id
       \/ selected.kind = "drafts" /\ e \in drafts
    /\ drafts' \in {drafts, drafts \cup {e}}
    /\ UNCHANGED <<key, sent, dialog>>
    /\ Visit(e, hash)

(* The editor saves its text, or removes the file of an empty one.         *)
SaveDraft ==
    /\ Writing
    /\ drafts' \in {drafts \cup {selected}, drafts \ {selected}}
    /\ drafts' # drafts
    /\ UNCHANGED <<crumbs, idx, selected, editors, hash, key, sent, hasDrafts,
                   hasSent, dialog, unseen>>

(* Escape, the back button, and "cancel" on the logout page.               *)
GoBack ==
    /\ Exists(selected, editors) /\ idx > 1
    /\ idx' = idx - 1
    /\ UNCHANGED <<crumbs, editors, key, drafts, sent, dialog>>
    /\ Fire(hash)

(* mutant: the post is opened without going back first                     *)
DeliverForward(i) ==
    /\ Writing /\ idx > 1
    /\ drafts' = drafts \ {selected}
    /\ sent' = sent \cup {i}
    /\ GoToPage(idx, ContentPage(i))
    /\ editors' = editors \ {selected}
    /\ UNCHANGED <<key, dialog>>
    /\ Fire(hash)

(* The editor's request was answered: drop the page, remove the draft, go  *)
(* back and fire the rules, then store the post under its signature and, if*)
(* that succeeds, open its page.  If it fails a torn file may be left,     *)
(* which is listed with the others but has come too late for the rules.    *)
Deliver(i) ==
    /\ Writing /\ idx > 1
    /\ drafts' = drafts \ {selected}
    /\ editors' = editors \ {selected}
    /\ \/ /\ sent' = sent \cup {i}
          /\ GoToPage(idx - 1, ContentPage(i))
          /\ UNCHANGED <<key, dialog>>
          /\ Fire(hash)
       \/ /\ sent' \in {sent, sent \cup {i}}
          /\ crumbs' = crumbs /\ idx' = idx - 1
          /\ UNCHANGED <<key, dialog>>
          /\ FireSeeing(sent, hash)

(* create-user: a new key, then back from the login page, unguarded.       *)
CreateUser ==
    /\ selected = Login
    /\ key' \in Mine
    /\ idx' = idx - 1
    /\ UNCHANGED <<crumbs, editors, drafts, sent, dialog>>
    /\ Fire(hash)

(* logout, a button of the browser build.                                  *)
LogOut ==
    /\ web /\ selected = Logout
    /\ key' = None
    /\ IF idx > 1
       THEN /\ idx' = idx - 1
            /\ UNCHANGED <<crumbs, editors, drafts, sent, dialog>>
            /\ Fire(hash)
       ELSE UNCHANGED <<crumbs, idx, selected, editors, hash, drafts, sent,
                        hasDrafts, hasSent, dialog, unseen>>

(* login: the browser lets the author choose a file ...                    *)
ChooseKeyFile ==
    /\ web /\ selected = Login /\ ~dialog
    /\ dialog' = TRUE
    /\ UNCHANGED <<crumbs, idx, selected, editors, hash, key, drafts, sent,
                   hasDrafts, hasSent, unseen>>

(* ... and calls back, on whatever page is selected by then; a file that is*)
(* no login key changes no key but goes back all the same.                 *)
KeyFileChosen ==
    /\ dialog
    /\ dialog' = FALSE
    /\ key' \in Mine \cup {key}
    /\ IF idx > 1
       THEN /\ idx' = idx - 1
            /\ UNCHANGED <<crumbs, editors, drafts, sent>>
            /\ Fire(hash)
       ELSE UNCHANGED <<crumbs, idx, selected, editors, hash, drafts, sent,
                        hasDrafts, hasSent, unseen>>

(* The browser's back, forward and address bar: insertHash, and the rule   *)
(* that routes a hash other than the selected page's.                      *)
HashChanged(h) ==
    /\ web
    /\ UNCHANGED <<drafts, sent, dialog>>
    /\ IF Exists(selected, editors) /\ h # HashOf(selected)
       THEN RouteHash(h, h)
       ELSE /\ hash' = h
            /\ UNCHANGED <<crumbs, idx, selected, editors, key, hasDrafts,
                           hasSent, unseen>>

Move ==
    \/ \E p \in Page : OpenPage(p)
    \/ \E h \in Hash : FollowLink(h)
    \/ \E e \in EditorPages : ShowEditor(e)
    \/ SaveDraft
    \/ GoBack
    \/ \E i \in Ids : Deliver(i)
    \/ CreateUser
    \/ LogOut
    \/ ChooseKeyFile
    \/ KeyFileChosen
    \/ \E h \in Hash : HashChanged(h)

(* The build does not change.                                              *)
Next == Move /\ UNCHANGED web

Spec == Init /\ [][Next]_vars

-----------------------------------------------------------------------------
(* The first page is one that can be addressed: the login page, whose      *)
(* create-user goes back without looking at the index, always has a page   *)
(* under it, and so has every editor.                                      *)
FirstPageStays ==
    crumbs[1] \in Addressed \cup {Message}

(* Going back always shows another page: no page is its own predecessor.   *)
BackMoves ==
    \A i \in 1..(Len(crumbs) - 1) : crumbs[i] # crumbs[i + 1]

(* Without a browser every page that can be gone back to still exists, so  *)
(* a tick never looks up a page that is not in the table.  (The browser can*)
(* bury an editor under other pages; once its post is delivered, the page  *)
(* is gone but its breadcrumb stays.)                                      *)
TrailExists ==
    ~web => \A i \in 1..idx : Exists(crumbs[i], editors)

(* The hash is the address of the page shown, except that a login link with*)
(* an unusable key stays in the address bar.                               *)
HashAgrees ==
    Exists(selected, editors) => hash = HashOf(selected) \/ (web /\ hash = KeyHash)

(* On a page that shows the buttons, "drafts" is offered exactly if there  *)
(* is a draft file, however it came or went while its editor was open, and *)
(* likewise "sent", which does not count the author's own banner.  Two     *)
(* things come too late for the flag of "sent": what a failed write leaves *)
(* of a post, until another page is opened; and, in the browser, a key file*)
(* when there is no page to go back to.                                    *)
ButtonsAgree ==
    Reading =>
        /\ hasDrafts = (drafts # {})
        /\ ~web /\ ~unseen => hasSent = (Recents(sent, key) # {})

(* No link, hash or page replaces an account with another; only the login  *)
(* and logout pages and a key file that was asked for can.                 *)
LinksKeepAccount ==
    [][key' # key => \/ key = None
                     \/ selected \in {Login, Logout}
                     \/ dialog]_vars
=============================================================================

-------------------------- MODULE NavigationProofs --------------------------
(***************************************************************************)
(* Proofs about Navigation, for any board, accounts, posts and lists, both *)
(* builds, and trails of any length.                                       *)
(***************************************************************************)
EXTENDS Navigation, SequenceTheorems, TLAPS

(* An editor is left before anything else is opened, so that it is never   *)
(* under another page; the address bar of a browser can do it.             *)
EditorsOnTop == ~web => \A i \in 1..(idx - 1) : crumbs[i] \notin EditorPages

SelectedIsShown == selected = crumbs[idx]

Trail ==
    /\ crumbs \in Seq(Page) /\ idx \in 1..Len(crumbs)
    /\ editors \subseteq EditorPages
    /\ SelectedIsShown
    /\ FirstPageStays
    /\ BackMoves
    /\ EditorsOnTop
    /\ TrailExists

(* What the rules compute, and what they compute it from.                  *)
Facts ==
    /\ web \in BOOLEAN
    /\ hash \in Hash
    /\ key \in Mine \cup {None} /\ drafts \subseteq EditorPages /\ sent \subseteq Ids
    /\ hasDrafts \in BOOLEAN /\ hasSent \in BOOLEAN
    /\ dialog \in BOOLEAN /\ unseen \in BOOLEAN
    /\ dialog => web
    /\ HashAgrees
    /\ ButtonsAgree

IInv == web \in Builds /\ Trail /\ Facts

-----------------------------------------------------------------------------
LEMMA PageKinds ==
  /\ Addressed \cup {Message} \subseteq Page
  /\ EditorPages \subseteq Page /\ Login \in Page /\ Logout \in Page
  /\ \A p \in Addressed \cup {Message} : p # Login /\ p # Logout
  /\ \A p \in Addressed \cup {Message, Login, Logout} : p \notin EditorPages
  /\ Addressed \subseteq Hash /\ NoHash \in Hash /\ KeyHash \in Hash
  /\ \A h \in Hash : h # NoHash /\ h # KeyHash => h \in Addressed
  /\ \A p \in Page : HashOf(p) \in Hash
  <1>1. \A p \in ListPages : p.kind \in {"drafts", "sent", "replies", "search"}
    BY ListsAssumption DEF ListPages, PageOf
  <1>2. \A p \in UserPages : p.kind = "user"
    BY DEF UserPages, PageOf
  <1>3. \A p \in PostPages : p.kind = "post"
    BY DEF PostPages, PageOf
  <1>4. \A p \in EditorPages : p.kind = "editor"
    BY DEF EditorPages, PageOf
  <1>5. Login.kind = "login" /\ Logout.kind = "logout" /\ Message.kind = "message"
    BY DEF Login, Logout, Message, PageOf
  <1>6. \A p \in Addressed \cup {Message} :
            p.kind \in {"drafts", "sent", "replies", "search", "user", "post", "message"}
    BY <1>1, <1>2, <1>3, <1>5 DEF Addressed
  <1>7. \A p \in Addressed \cup {Message} : p # Login /\ p # Logout
    BY <1>5, <1>6
  <1>8. \A p \in Addressed \cup {Message, Login, Logout} : p \notin EditorPages
    BY <1>4, <1>5, <1>6
  <1> QED
    BY <1>7, <1>8 DEF Page, Hash, HashOf

(* A page of content is never an editor.                                   *)
LEMMA ContentPages == \A i \in Ids : ContentPage(i) \in Addressed
  BY DEF ContentPage, Addressed, UserPages, PostPages, Ids

-----------------------------------------------------------------------------
(* goToPage keeps the pages up to index i and ends in p, once.             *)
LEMMA Going ==
  ASSUME crumbs \in Seq(Page), NEW i \in 1..Len(crumbs), NEW p \in Page, GoToPage(i, p)
  PROVE  /\ crumbs' \in Seq(Page) /\ idx' = Len(crumbs') /\ idx' \in {i, i + 1}
         /\ \A j \in 1..i : crumbs'[j] = crumbs[j]
         /\ crumbs'[idx'] = p
         /\ idx' = i + 1 => crumbs[i] # p
  <1> DEFINE kept == SubSeq(crumbs, 1, i)
  <1>1. \A j \in 1..i : crumbs[j] \in Page
    BY ElementOfSeq, SMT
  <1>2. /\ kept \in Seq(Page) /\ Len(kept) = i
        /\ \A j \in 1..i : kept[j] = crumbs[j]
    BY <1>1, SubSeqProperties, SMT
  <1>3. CASE kept[i] = p
    <2>1. crumbs' = kept /\ idx' = i
      BY <1>3 DEF GoToPage
    <2> QED
      BY <1>2, <1>3, <2>1
  <1>4. CASE kept[i] # p
    <2>1. crumbs' = Append(kept, p) /\ idx' = i + 1
      BY <1>4 DEF GoToPage
    <2> HIDE DEF kept
    <2>2. /\ crumbs' \in Seq(Page) /\ Len(crumbs') = i + 1
          /\ \A j \in 1..i : crumbs'[j] = kept[j]
          /\ crumbs'[i + 1] = p
      BY <1>2, <2>1, AppendProperties
    <2> QED
      BY <1>2, <1>4, <2>1, <2>2
  <1> QED
    BY <1>3, <1>4

LEMMA GoingTrail ==
  ASSUME Trail, NEW i \in 1..idx, NEW p \in Page, GoToPage(i, p), web' = web,
         editors' \subseteq EditorPages, selected' = crumbs'[idx'],
         web \/ /\ \A j \in 1..i : crumbs[j] \notin EditorPages
                /\ Exists(p, editors')
  PROVE  Trail'
  <1>1. i \in 1..Len(crumbs) /\ crumbs \in Seq(Page)
    BY DEF Trail
  <1>2. /\ crumbs' \in Seq(Page) /\ idx' = Len(crumbs') /\ idx' \in {i, i + 1}
        /\ \A j \in 1..i : crumbs'[j] = crumbs[j]
        /\ crumbs'[idx'] = p
        /\ idx' = i + 1 => crumbs[i] # p
    BY <1>1, Going
  <1>3. FirstPageStays'
    BY <1>1, <1>2 DEF Trail, FirstPageStays
  <1>4. BackMoves'
    BY <1>1, <1>2 DEF Trail, BackMoves
  <1>5. EditorsOnTop'
    BY <1>1, <1>2 DEF EditorsOnTop
  <1>6. TrailExists'
    BY <1>1, <1>2 DEF TrailExists, Exists
  <1> QED
    BY <1>1, <1>2, <1>3, <1>4, <1>5, <1>6 DEF Trail, SelectedIsShown

(* Stepping back, with the editor that was left in the table or not.       *)
LEMMA BackTrail ==
  ASSUME Trail, idx > 1, idx' = idx - 1, crumbs' = crumbs, web' = web,
         editors' \subseteq editors, selected' = crumbs'[idx']
  PROVE  Trail'
  <1>1. TrailExists' /\ EditorsOnTop'
    BY DEF Trail, TrailExists, EditorsOnTop, Exists
  <1> QED
    BY <1>1 DEF Trail, FirstPageStays, BackMoves, SelectedIsShown

LEMMA QuietTrail ==
  ASSUME Trail, UNCHANGED <<crumbs, idx, selected, editors, web>>
  PROVE  Trail'
  BY DEF Trail, FirstPageStays, BackMoves, SelectedIsShown, TrailExists, EditorsOnTop, Exists

(* The rules leave facts that agree, whatever files they have seen.        *)
LEMMA Fired ==
  ASSUME Facts, web' = web, Trail', NEW h, NEW files, FireSeeing(files, h),
         h \in Hash, key' \in Mine \cup {None}, drafts' \subseteq EditorPages,
         sent' \subseteq Ids, dialog' \in BOOLEAN, dialog' => web
  PROVE  Facts'
  <1>1. selected' \in Page
    BY ElementOfSeq DEF Trail, SelectedIsShown
  <1>2. hash' \in Hash
    BY <1>1, PageKinds DEF FireSeeing
  <1>3. HashAgrees'
    BY DEF FireSeeing, HashAgrees
  <1>4. /\ hasDrafts' \in BOOLEAN /\ hasSent' \in BOOLEAN /\ unseen' \in BOOLEAN
        /\ hasDrafts' = (drafts' # {})
        /\ ~unseen' => hasSent' = (Recents(sent', key') # {})
    BY Zenon DEF FireSeeing
  <1>5. ButtonsAgree'
    BY <1>4, Zenon DEF ButtonsAgree
  <1> QED
    BY <1>2, <1>3, <1>4, <1>5 DEF Facts

LEMMA InitIInv == Init => IInv
  <1> SUFFICES ASSUME Init PROVE IInv
    OBVIOUS
  <1>1. PICK p \in Addressed \cup {Message} : crumbs = <<p>> /\ selected = p /\ hash = HashOf(p)
    BY DEF Init
  <1>2. p \in Page /\ p \notin EditorPages
    BY <1>1, PageKinds
  <1>3. crumbs \in Seq(Page) /\ Len(crumbs) = 1 /\ crumbs[1] = p /\ idx = 1
    BY <1>1, <1>2 DEF Init
  <1>4. FirstPageStays /\ BackMoves /\ EditorsOnTop /\ TrailExists
    BY <1>2, <1>3 DEF FirstPageStays, BackMoves, EditorsOnTop, TrailExists, Exists
  <1>5. Trail
    BY <1>1, <1>3, <1>4 DEF Trail, SelectedIsShown, Init
  <1>6. hash \in Hash
    BY <1>1, <1>2, PageKinds
  <1>7. drafts \subseteq EditorPages /\ sent \subseteq Ids
    BY DEF Init, EditorPages, Ids, Users
  <1>8. HashAgrees
    BY <1>1 DEF HashAgrees
  <1>9. ButtonsAgree /\ hasDrafts \in BOOLEAN /\ hasSent \in BOOLEAN
    BY Zenon DEF Init, ButtonsAgree
  <1> QED
    BY <1>5, <1>6, <1>7, <1>8, <1>9, BuildsAssumption DEF IInv, Facts, Init

-----------------------------------------------------------------------------
LEMMA VisitStep ==
  ASSUME IInv, NEW p \in Page, NEW h \in Hash, Visit(p, h), web' = web, web \/ Reading,
         key' \in Mine \cup {None}, drafts' \subseteq EditorPages,
         UNCHANGED <<sent, dialog>>
  PROVE  IInv'
  <1>1. /\ Trail /\ idx \in 1..idx /\ idx \in Nat
        /\ GoToPage(idx, p) /\ selected' = crumbs'[idx'] /\ FireSeeing(sent', h)
    BY DEF IInv, Trail, Visit, Fire, FireSeeing
  <1>2. editors' \subseteq EditorPages
    BY DEF IInv, Trail, Visit
  <1>3. Exists(p, editors')
    BY DEF Visit, Exists
  <1>4. ASSUME ~web PROVE \A j \in 1..idx : crumbs[j] \notin EditorPages
    <2>1. \A j \in 1..(idx - 1) : crumbs[j] \notin EditorPages
      BY <1>4 DEF IInv, Trail, EditorsOnTop
    <2>2. crumbs[idx] \notin EditorPages
      BY <1>4 DEF IInv, Trail, SelectedIsShown, Reading
    <2> QED
      BY <1>1, <2>1, <2>2
  <1>5. Trail'
    BY <1>1, <1>2, <1>3, <1>4, GoingTrail
  <1>6. Facts'
    BY <1>1, <1>5, Fired DEF IInv, Facts
  <1> QED
    BY <1>5, <1>6 DEF IInv

(* A step back, from wherever and with whatever account.                   *)
LEMMA BackStep ==
  ASSUME IInv, idx > 1, idx' = idx - 1, crumbs' = crumbs, editors' \subseteq editors,
         NEW files, FireSeeing(files, hash), web' = web,
         key' \in Mine \cup {None}, drafts' \subseteq EditorPages, sent' \subseteq Ids,
         dialog' \in BOOLEAN, dialog' => web
  PROVE  IInv'
  <1>1. Trail'
    BY BackTrail DEF IInv, FireSeeing
  <1>2. Facts'
    BY <1>1, Fired DEF IInv, Facts
  <1> QED
    BY <1>1, <1>2 DEF IInv

(* A step that goes nowhere.                                               *)
LEMMA QuietStep ==
  ASSUME IInv, UNCHANGED <<crumbs, idx, selected, editors, web, hasDrafts, hasSent, unseen, sent>>,
         key' \in Mine \cup {None}, drafts' \subseteq EditorPages,
         hash' \in Hash, Exists(selected, editors) => hash' = hash \/ hash' = HashOf(selected)
                                                     \/ (web /\ hash' = KeyHash),
         dialog' \in BOOLEAN, dialog' => web,
         Writing \/ (drafts' = drafts /\ (web \/ key' = key))
  PROVE  IInv'
  <1>1. Trail'
    BY QuietTrail DEF IInv
  <1>2. HashAgrees'
    BY DEF IInv, Facts, HashAgrees, Exists
  <1>3. CASE Writing
    <2>1. ~Reading'
      BY <1>3 DEF IInv, Trail, Writing, Reading
    <2> QED
      BY <1>1, <1>2, <2>1 DEF IInv, Facts, ButtonsAgree
  <1>4. CASE drafts' = drafts /\ (web \/ key' = key)
    <2>1. ButtonsAgree'
      BY <1>4, Zenon DEF IInv, Facts, ButtonsAgree, Reading
    <2> QED
      BY <1>1, <1>2, <2>1 DEF IInv, Facts
  <1> QED
    BY <1>3, <1>4

LEMMA RouteStep ==
  ASSUME IInv, NEW h \in Hash, NEW fact \in Hash, RouteHash(h, fact), web' = web,
         web \/ Reading, fact = hash \/ (web /\ fact = h),
         UNCHANGED <<drafts, sent, dialog>>
  PROVE  IInv'
  <1>1. key \in Mine \cup {None} /\ drafts \subseteq EditorPages
    BY DEF IInv, Facts
  <1>2. CASE UNCHANGED key /\ Visit(Message, fact)
    BY <1>1, <1>2, VisitStep, PageKinds
  <1>3. CASE h = KeyHash /\ LogInByLink(fact)
    <2>1. CASE key' \in Mine /\ Visit(PageOf("user", key'), fact)
      <3>1. PageOf("user", key') \in Page
        BY <2>1 DEF Page, Addressed, UserPages, Users
      <3> QED
        BY <1>1, <2>1, <3>1, VisitStep
    <2>2. CASE hash' = fact /\ UNCHANGED <<crumbs, idx, selected, editors, key, hasDrafts, hasSent, unseen>>
      <3>1. dialog' \in BOOLEAN /\ (dialog' => web)
        BY DEF IInv, Facts
      <3> QED
        BY <1>1, <1>3, <2>2, <3>1, QuietStep
    <2> QED
      BY <1>3, <2>1, <2>2 DEF LogInByLink
  <1>4. CASE h \in Addressed /\ UNCHANGED key /\ Visit(h, fact)
    BY <1>1, <1>4, VisitStep, PageKinds
  <1> QED
    BY <1>2, <1>3, <1>4 DEF RouteHash

LEMMA IInvStep == IInv /\ [Next]_vars => IInv'
  <1> SUFFICES ASSUME IInv, [Next]_vars PROVE IInv'
    OBVIOUS
  <1>0. /\ web \in BOOLEAN /\ hash \in Hash /\ dialog \in BOOLEAN /\ (dialog => web)
        /\ key \in Mine \cup {None} /\ drafts \subseteq EditorPages /\ sent \subseteq Ids
        /\ idx \in Nat
    BY DEF IInv, Facts, Trail
  <1>1. ASSUME NEW p \in Page, OpenPage(p), web' = web PROVE IInv'
    BY <1>0, <1>1, VisitStep DEF OpenPage
  <1>2. ASSUME NEW h \in Hash, FollowLink(h), web' = web PROVE IInv'
    <2>1. Reading
      <3>1. selected \in Addressed
        BY <1>2 DEF FollowLink, Addressed
      <3> QED
        BY <3>1, PageKinds DEF Reading
    <2> QED
      BY <1>0, <1>2, <2>1, RouteStep DEF FollowLink
  <1>3. ASSUME NEW e \in EditorPages, ShowEditor(e), web' = web PROVE IInv'
    <2>1. drafts' \subseteq EditorPages /\ e \in Page
      BY <1>0, <1>3, PageKinds DEF ShowEditor
    <2> QED
      BY <1>0, <1>3, <2>1, VisitStep DEF ShowEditor
  <1>4. CASE SaveDraft /\ web' = web
    <2>1. drafts' \subseteq EditorPages
      BY <1>0, <1>4 DEF SaveDraft, Writing, IInv, Trail
    <2> QED
      BY <1>0, <1>4, <2>1, QuietStep DEF SaveDraft
  <1>5. CASE GoBack /\ web' = web
    BY <1>0, <1>5, BackStep DEF GoBack, Fire
  <1>6. ASSUME NEW i \in Ids, Deliver(i), web' = web PROVE IInv'
    <2>1. /\ Trail /\ idx > 1 /\ drafts' \subseteq EditorPages
          /\ editors' = editors \ {selected} /\ editors' \subseteq EditorPages
          /\ sent' \subseteq Ids
      BY <1>6 DEF Deliver, IInv, Trail, Facts
    <2>2. ASSUME GoToPage(idx - 1, ContentPage(i)), Fire(hash), UNCHANGED <<key, dialog>>
          PROVE  IInv'
      <3>1. idx - 1 \in 1..idx
        BY <1>0, <2>1
      <3>2. ContentPage(i) \in Page /\ Exists(ContentPage(i), editors')
        BY ContentPages, PageKinds DEF Exists
      <3>3. web \/ \A j \in 1..(idx - 1) : crumbs[j] \notin EditorPages
        BY <2>1 DEF Trail, EditorsOnTop
      <3>4. Trail'
        BY <1>6, <2>1, <2>2, <3>1, <3>2, <3>3, GoingTrail DEF Fire, FireSeeing
      <3>5. Facts'
        BY <1>0, <1>6, <2>1, <2>2, <3>4, Fired DEF IInv, Fire
      <3> QED
        BY <1>6, <3>4, <3>5 DEF IInv
    <2>3. ASSUME crumbs' = crumbs, idx' = idx - 1, FireSeeing(sent, hash),
                 UNCHANGED <<key, dialog>>
          PROVE  IInv'
      BY <1>0, <1>6, <2>1, <2>3, BackStep
    <2> QED
      BY <1>6, <2>2, <2>3 DEF Deliver
  <1>7. CASE CreateUser /\ web' = web
    <2>1. crumbs[idx] = Login /\ idx \in 1..Len(crumbs)
      BY <1>7 DEF CreateUser, IInv, Trail, SelectedIsShown
    <2>2. idx > 1
      BY <2>1, PageKinds DEF IInv, Trail, FirstPageStays
    <2> QED
      BY <1>0, <1>7, <2>2, BackStep DEF CreateUser, Fire
  <1>8. CASE LogOut /\ web' = web
    <2>1. CASE idx > 1
      BY <1>0, <1>8, <2>1, BackStep DEF LogOut, Fire
    <2>2. CASE ~(idx > 1)
      BY <1>0, <1>8, <2>2, QuietStep DEF LogOut
    <2> QED
      BY <2>1, <2>2
  <1>9. CASE ChooseKeyFile /\ web' = web
    BY <1>0, <1>9, QuietStep DEF ChooseKeyFile
  <1>10. CASE KeyFileChosen /\ web' = web
    <2>1. web /\ dialog' = FALSE /\ key' \in Mine \cup {None}
      BY <1>0, <1>10 DEF KeyFileChosen
    <2>2. CASE idx > 1
      BY <1>0, <1>10, <2>1, <2>2, BackStep DEF KeyFileChosen, Fire
    <2>3. CASE ~(idx > 1)
      BY <1>0, <1>10, <2>1, <2>3, QuietStep DEF KeyFileChosen
    <2> QED
      BY <2>2, <2>3
  <1>11. ASSUME NEW h \in Hash, HashChanged(h), web' = web PROVE IInv'
    <2>1. CASE Exists(selected, editors) /\ h # HashOf(selected)
      BY <1>0, <1>11, <2>1, RouteStep DEF HashChanged
    <2>2. CASE ~(Exists(selected, editors) /\ h # HashOf(selected))
      BY <1>0, <1>11, <2>2, QuietStep DEF HashChanged
    <2> QED
      BY <2>1, <2>2
  <1>12. CASE UNCHANGED vars
    BY <1>0, <1>12, QuietStep DEF vars
  <1> QED
    BY <1>1, <1>2, <1>3, <1>4, <1>5, <1>6, <1>7, <1>8, <1>9, <1>10, <1>11, <1>12
    DEF Next, Move

LEMMA Invariance == Spec => []IInv
  BY InitIInv, IInvStep, PTL DEF Spec

-----------------------------------------------------------------------------
(* The session keeps its types: in particular the index into the           *)
(* breadcrumbs never leaves them, whichever of the five ways back is taken.*)
THEOREM TypeCorrect == Spec => []TypeOK
  <1>1. IInv => TypeOK
    <2> SUFFICES ASSUME IInv PROVE TypeOK
      OBVIOUS
    <2>1. selected \in Page
      BY ElementOfSeq DEF IInv, Trail, SelectedIsShown
    <2> QED
      BY <2>1 DEF IInv, Trail, Facts, TypeOK
  <1> QED
    BY Invariance, <1>1, PTL

(* The first breadcrumb is always a page that can be addressed.            *)
THEOREM FirstPage == Spec => []FirstPageStays
  <1>1. IInv => FirstPageStays
    BY DEF IInv, Trail
  <1> QED
    BY Invariance, <1>1, PTL

(* No page is its own predecessor in the breadcrumbs.                      *)
THEOREM GoingBackMoves == Spec => []BackMoves
  <1>1. IInv => BackMoves
    BY DEF IInv, Trail
  <1> QED
    BY Invariance, <1>1, PTL

(* In the terminal every page that can be gone back to is in the table.    *)
THEOREM PagesExist == Spec => []TrailExists
  <1>1. IInv => TrailExists
    BY DEF IInv, Trail
  <1> QED
    BY Invariance, <1>1, PTL

(* The two rules about the address converge.                               *)
THEOREM AddressAgrees == Spec => []HashAgrees
  <1>1. IInv => HashAgrees
    BY DEF IInv, Facts
  <1> QED
    BY Invariance, <1>1, PTL

(* The buttons of the navigation bar tell what there is.                   *)
THEOREM FlagsAgree == Spec => []ButtonsAgree
  <1>1. IInv => ButtonsAgree
    BY DEF IInv, Facts
  <1> QED
    BY Invariance, <1>1, PTL

(* Only the login and logout pages and a file that was asked for change the*)
(* account to another one.                                                 *)
THEOREM AccountKept == Spec => LinksKeepAccount
  <1> DEFINE Keeps == key' # key => key = None \/ selected \in {Login, Logout} \/ dialog
  <1>1. [Next]_vars => Keeps
    BY DEF Next, Move, OpenPage, FollowLink, ShowEditor, SaveDraft, GoBack, Deliver, CreateUser,
           LogOut, ChooseKeyFile, KeyFileChosen, HashChanged, RouteHash, LogInByLink, vars
  <1>2. [Next]_vars => [Keeps]_vars
    BY <1>1
  <1> QED
    BY <1>2, PTL DEF Spec, LinksKeepAccount
=============================================================================

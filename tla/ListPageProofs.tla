--------------------------- MODULE ListPageProofs ---------------------------
(***************************************************************************)
(* Proofs about FocusScroll and ListPage, for any screen, drawing and list.*)
(***************************************************************************)
EXTENDS ListPage, WellFoundedInduction, TLAPS

(* What the proofs need to know of a drawing: places and sizes are numbers.*)
IsDrawing(d) ==
    /\ Count(d) \in Nat /\ d.height \in Int
    /\ \A f \in 0..(Count(d) - 1) : Y(d, f) \in Int /\ Bottom(d, f) \in Int

LEMMA MaxScrollIsPositive == MaxScroll \in Nat \ {0}
  BY HeightAssumption DEF MaxScroll, Greater

-----------------------------------------------------------------------------
(* Down scrolls on, or moves the focus on without scrolling back, until the*)
(* last area has the focus and the end of the page can be seen.            *)
LEMMA DownGetsOn ==
  ASSUME NEW d, IsDrawing(d), NEW f \in Int, NEW s \in Int, f < Count(d),
         NEW to, to = After("down", d, f, s)
  PROVE  \/ to.scroll < s
         \/ to.scroll = s /\ to.focus > f
         \/ f = Count(d) - 1 /\ d.height + s <= Height
  <1> DEFINE next == NextArea("down", d, f, s)
             shown == Shown("down", d, next, s)
  <1>1. /\ next \in Int /\ next >= 0
        /\ next > f \/ (next = f /\ f = Count(d) - 1)
        /\ Count(d) > 0 => next \in 0..(Count(d) - 1)
    BY DEF NextArea, Below, IsDrawing
  <1>2. to.scroll = shown.scroll
    BY DEF After, At
  <1>3. CASE Count(d) > 0
    <2>1. shown = ShowBottom(d, next, s)
      BY <1>1, <1>3 DEF Shown, Lesser, IsDrawing
    <2> DEFINE bottom == Height - Bottom(d, next) + s
    <2>2. bottom \in Int /\ Height \in Int /\ d.height \in Int
      BY <1>1, <1>3, HeightAssumption DEF IsDrawing
    <2> HIDE DEF bottom, next
    <2>3. CASE s > bottom
      BY <1>2, <2>1, <2>2, <2>3, MaxScrollIsPositive DEF ShowBottom, At, bottom
    <2>4. CASE ~(s > bottom) /\ next = Count(d) - 1 /\ d.height + s > Height
      BY <1>2, <2>1, <2>2, <2>4, MaxScrollIsPositive DEF ShowBottom, At, Greater, bottom
    <2>5. CASE ~(s > bottom) /\ ~(next = Count(d) - 1 /\ d.height + s > Height)
      <3>1. shown = At(next, s)
        BY <2>1, <2>5 DEF ShowBottom, bottom
      <3>2. to = At(next, s)
        BY <1>1, <1>3, <3>1 DEF After, At, Lesser, IsDrawing, next
      <3> QED
        BY <1>1, <2>2, <2>5, <3>2 DEF At
    <2> QED
      BY <2>3, <2>4, <2>5
  <1>4. CASE ~(Count(d) > 0)
    <2>1. shown = At(next, s) /\ next = 0 /\ f < 0
      BY <1>1, <1>4 DEF Shown, IsDrawing, NextArea, Below
    <2> QED
      BY <2>1 DEF After, At
  <1> QED
    BY <1>3, <1>4

(* Up scrolls back, or moves the focus back without scrolling on, until the*)
(* navigation bar has the focus and nothing is hidden above.               *)
LEMMA UpGetsBack ==
  ASSUME NEW d, IsDrawing(d), NEW f \in Int, NEW s \in Int, f < Count(d), s <= 0,
         NEW to, to = After("up", d, f, s)
  PROVE  \/ to.scroll > s
         \/ to.scroll = s /\ to.focus < f
         \/ f < 0 /\ s = 0
  <1> DEFINE next == NextArea("up", d, f, s)
             shown == Shown("up", d, next, s)
  <1>1. /\ next \in Int /\ next <= f
        /\ next < f \/ next < 0 \/ (next = 0 /\ f = 0 /\ s < 0)
    BY DEF NextArea, Above
  <1>2. to.scroll = shown.scroll
    BY DEF After, At
  <1>3. CASE next >= 0 /\ Count(d) > 0
    <2>1. shown = ShowTop(d, next, s) /\ next \in 0..(Count(d) - 1)
      BY <1>1, <1>3 DEF Shown, Lesser, IsDrawing
    <2> DEFINE top == NavHeight - Y(d, next) + s
    <2>2. top \in Int
      BY <2>1, NavHeightAssumption DEF IsDrawing
    <2> HIDE DEF top, next
    <2>3. CASE s < top
      BY <1>2, <2>1, <2>2, <2>3, MaxScrollIsPositive DEF ShowTop, At, top
    <2>4. CASE ~(s < top) /\ next = 0 /\ s < 0
      BY <1>2, <2>1, <2>2, <2>4, MaxScrollIsPositive DEF ShowTop, At, Lesser, top
    <2>5. CASE ~(s < top) /\ ~(next = 0 /\ s < 0)
      <3>1. shown = At(next, s)
        BY <2>1, <2>5 DEF ShowTop, top
      <3>2. to = At(next, s)
        BY <1>1, <2>1, <3>1 DEF After, At, Lesser, IsDrawing, next
      <3> QED
        BY <1>1, <1>3, <2>5, <3>2 DEF At
    <2> QED
      BY <2>3, <2>4, <2>5
  <1>4. CASE ~(next >= 0 /\ Count(d) > 0)
    <2>1. next < 0
      BY <1>1, <1>4 DEF IsDrawing
    <2> HIDE DEF next
    <2>2. shown = At(next, IF s < 0 THEN Lesser(0, s + MaxScroll) ELSE s)
      BY <1>1, <2>1 DEF Shown
    <2>3. CASE s < 0
      BY <1>2, <2>2, <2>3, MaxScrollIsPositive DEF At, Lesser
    <2>4. CASE s = 0
      <3>1. to = At(next, 0)
        BY <1>1, <2>1, <2>2, <2>4 DEF After, At, next
      <3>2. next < f \/ f < 0
        BY <1>1, <2>1
      <3> QED
        BY <2>4, <3>1, <3>2 DEF At
    <2> QED
      BY <2>3, <2>4
  <1> QED
    BY <1>3, <1>4

-----------------------------------------------------------------------------
(* Induction over the numbers, for a set: every set of numbers has a least *)
(* one.                                                                    *)
LEMMA LeastNumber ==
  ASSUME NEW T, T \subseteq Nat, T # {}
  PROVE  \E m \in T : \A n \in T : m <= n
  <1> DEFINE R == {ss \in Nat \X Nat : ss[1] < ss[2]}
  <1>1. IsWellFoundedOn(R, Nat)
    BY NatLessThanWellFounded DEF OpToRel
  <1> HIDE DEF R
  <1>2. PICK m \in T : \A n \in T : ~(<<n, m>> \in R)
    BY <1>1, WFMin, Zenon
  <1>3. \A n \in T : ~(n < m)
    BY <1>2 DEF R
  <1> QED
    BY <1>3

LEMMA SetInduction ==
  ASSUME NEW S, 0 \in S, \A n \in Nat : n \in S => n + 1 \in S
  PROVE  Nat \subseteq S
  <1> SUFFICES ASSUME Nat \ S # {} PROVE FALSE
    OBVIOUS
  <1>1. PICK m \in Nat \ S : \A n \in Nat \ S : m <= n
    BY LeastNumber
  <1>2. m - 1 \in Nat /\ m - 1 \in S
    BY <1>1
  <1> QED
    BY <1>1, <1>2

(* f is what is got from x by the functions of h, one after another.       *)
Iterates(f, x, h, n) == f[0] = x /\ \A i \in 1..n : f[i] = h[i][f[i - 1]]

LEMMA Recursion ==
  ASSUME NEW n \in Nat, NEW D, NEW x \in D, NEW h \in [1..n -> [D -> D]]
  PROVE  \E f \in [0..n -> D] : Iterates(f, x, h, n)
  <1> DEFINE Defined(k) == \E f \in [0..k -> D] :
                              f[0] = x /\ \A i \in 1..k : f[i] = h[i][f[i - 1]]
             S == {k \in Nat : k <= n => Defined(k)}
  <1>1. Defined(0)
    <2> DEFINE f == [i \in 0..0 |-> x]
    <2>1. f \in [0..0 -> D] /\ f[0] = x
      OBVIOUS
    <2>2. \A i \in 1..0 : f[i] = h[i][f[i - 1]]
      OBVIOUS
    <2> HIDE DEF f
    <2> QED
      BY <2>1, <2>2
  <1>2. ASSUME NEW k \in Nat, Defined(k), k + 1 <= n PROVE Defined(k + 1)
    <2>1. PICK f \in [0..k -> D] : f[0] = x /\ \A i \in 1..k : f[i] = h[i][f[i - 1]]
      BY <1>2
    <2> DEFINE g == [i \in 0..(k + 1) |-> IF i = k + 1 THEN h[k + 1][f[k]] ELSE f[i]]
    <2>2. h[k + 1][f[k]] \in D
      BY <1>2
    <2>3. g \in [0..(k + 1) -> D]
      BY <2>1, <2>2
    <2>4. g[0] = x /\ \A i \in 1..(k + 1) : g[i] = h[i][g[i - 1]]
      BY <2>1
    <2> HIDE DEF g
    <2> QED
      BY <2>3, <2>4
  <1> HIDE DEF Defined
  <1>5. 0 \in S /\ \A k \in Nat : k \in S => k + 1 \in S
    BY <1>1, <1>2
  <1> HIDE DEF S
  <1>3. Nat \subseteq S
    BY <1>5, SetInduction
  <1>4. Defined(n)
    BY <1>3 DEF S
  <1> QED
    BY <1>4 DEF Defined, Iterates

LEMMA Recursive ==
  ASSUME NEW n \in Nat, NEW D, NEW f, f[0] \in D,
         \A i \in 1..n : f[i - 1] \in D => f[i] \in D
  PROVE  \A i \in 0..n : f[i] \in D
  <1> DEFINE S == {k \in Nat : k <= n => f[k] \in D}
  <1>1. 0 \in S
    OBVIOUS
  <1>2. \A k \in Nat : k \in S => k + 1 \in S
    <2> SUFFICES ASSUME NEW k \in Nat, k \in S, k + 1 <= n PROVE f[k + 1] \in D
      OBVIOUS
    <2>1. k + 1 \in 1..n /\ k + 1 - 1 = k
      OBVIOUS
    <2> QED
      BY <2>1
  <1> HIDE DEF S
  <1>3. Nat \subseteq S
    BY <1>1, <1>2, SetInduction
  <1> QED
    BY <1>3 DEF S

(* Drawing part by part: every area is one of the parts, below the         *)
(* navigation bar and what is scrolled away.                               *)
PartsOf(acts) == [act: acts, height: Nat]
AreasAt(acts, s) == Seq([act: acts, height: Nat, y: {r \in Int : r >= NavHeight + s}])
PlacedAt(acts, s) == [areas: AreasAt(acts, s), height: {h \in Nat : h >= NavHeight}]

LEMMA OnePart ==
  ASSUME NEW acts, NEW a \in acts, NEW h \in Nat
  PROVE  <<Part(a, h)>> \in Seq(PartsOf(acts))
  <1>1. Part(a, h) \in PartsOf(acts)
    BY DEF Part, PartsOf
  <1> QED
    BY <1>1

LEMMA PlacedParts ==
  ASSUME NEW acts, NEW v \in Seq(PartsOf(acts)), NEW s \in Int
  PROVE  Placed(v, s) \in PlacedAt(acts, s)
  <1> DEFINE n == Len(v)
             D == PlacedAt(acts, s)
             e == [areas |-> <<>>, height |-> NavHeight]
             Area(above, i) == [act |-> v[i].act, height |-> v[i].height, y |-> above.height + s]
             Step(above, i) ==
                 [areas  |-> IF v[i].act = "text" THEN above.areas
                                                  ELSE Append(above.areas, Area(above, i)),
                  height |-> above.height + v[i].height]
             h == [i \in 1..n |-> [d \in D |-> Step(d, i)]]
             Def(f) == [i \in 0..n |-> IF i = 0 THEN e ELSE Step(f[i - 1], i)]
  <1>1. n \in Nat /\ \A i \in 1..n : v[i] \in PartsOf(acts)
    OBVIOUS
  <1>2. e \in D
    BY NavHeightAssumption DEF PlacedAt, AreasAt
  <1>3. ASSUME NEW i \in 1..n, NEW d \in D PROVE Step(d, i) \in D
    <2>1. v[i].act \in acts /\ v[i].height \in Nat
      BY <1>1 DEF PartsOf
    <2>2. Area(d, i) \in [act: acts, height: Nat, y: {r \in Int : r >= NavHeight + s}]
      BY <2>1, NavHeightAssumption DEF PlacedAt
    <2>3. Append(d.areas, Area(d, i)) \in AreasAt(acts, s)
      BY <2>2 DEF PlacedAt, AreasAt
    <2>4. d.height + v[i].height \in {r \in Nat : r >= NavHeight}
      BY <2>1, NavHeightAssumption DEF PlacedAt
    <2> QED
      BY <2>3, <2>4 DEF PlacedAt
  <1>4. Placed(v, s) = (CHOOSE f : f = Def(f))[n]
    BY DEF Placed
  <1>5. h \in [1..n -> [D -> D]] /\ \A i \in 1..n, d \in D : h[i][d] = Step(d, i)
    <2> HIDE DEF Step, D, n
    <2> QED
      BY <1>3
  <1> HIDE DEF n, D, e, Step, h
  <1>6. PICK f \in [0..n -> D] : Iterates(f, e, h, n)
    <2>1. e \in D /\ h \in [1..n -> [D -> D]] /\ n \in Nat
      BY <1>1, <1>2, <1>5
    <2> QED
      BY <2>1, Recursion, Zenon
  <1>7. f[0] = e /\ \A i \in 1..n : f[i] = Step(f[i - 1], i)
    BY <1>1, <1>5, <1>6 DEF Iterates
  <1>8. f = Def(f)
    BY <1>1, <1>7
  <1> DEFINE g == CHOOSE g : g = Def(g)
  <1>9. g = Def(g)
    <2> HIDE DEF Def
    <2> QED
      BY <1>8
  <1> HIDE DEF g
  <1>10. g[0] = e /\ \A i \in 1..n : g[i] = Step(g[i - 1], i)
    BY <1>1, <1>9
  <1>11. g[0] \in D /\ \A i \in 1..n : g[i - 1] \in D => g[i] \in D
    BY <1>2, <1>3, <1>10
  <1>12. \A i \in 0..n : g[i] \in D
    BY <1>1, <1>11, Recursive, Zenon
  <1> QED
    BY <1>1, <1>4, <1>12 DEF g, D


-----------------------------------------------------------------------------
(* The parts a view can have: the buttons to other pages are there only    *)
(* when there are posts to go to.                                          *)
OnEveryPage == {"text", "field", "tabs", "post"}

Offered ==
    OnEveryPage \cup {a \in {"previous"} : offset > 0}
    \cup {a \in {"next"} : kind = "sent" => offset + Limit <= posts}

LEMMA ListedParts ==
  ASSUME NEW ps \in Seq(BOOLEAN), Len(ps) <= Limit, offset \in Int,
         NEW acts, OnEveryPage \subseteq acts,
         offset > 0 => "previous" \in acts, Len(ps) = Limit => "next" \in acts
  PROVE  Listed(ps) \in Seq(PartsOf(acts))
  <1> DEFINE shown == [i \in DOMAIN ps |-> IF ps[i] THEN Part("post", Heights[i]) ELSE Text(0)]
             rest == IF AllLoaded(ps) THEN <<>> ELSE <<Text(1)>>
             before == IF offset > 0 THEN <<Button("previous")>> ELSE <<>>
             after == IF Len(ps) = Limit THEN <<Button("next")>> ELSE <<>>
  <1>1. "text" \in acts /\ "post" \in acts
    BY DEF OnEveryPage
  <1>2. shown \in Seq(PartsOf(acts))
    <2>1. \A i \in 1..Len(ps) : Heights[i] \in Nat
      BY LimitAssumption, HeightsAssumption
    <2>2. DOMAIN ps = 1..Len(ps) /\ Len(ps) \in Nat
      OBVIOUS
    <2>3. ASSUME NEW i \in DOMAIN ps PROVE shown[i] \in PartsOf(acts)
      BY <1>1, <2>1, <2>2 DEF PartsOf, Part, Text
    <2> HIDE DEF shown
    <2>4. shown \in [1..Len(ps) -> PartsOf(acts)]
      BY <2>2, <2>3 DEF shown
    <2> QED
      BY <2>2, <2>4
  <1>3. rest \in Seq(PartsOf(acts))
    BY <1>1, OnePart DEF Text
  <1>4. before \in Seq(PartsOf(acts)) /\ after \in Seq(PartsOf(acts))
    BY OnePart DEF Button
  <1>5. Listed(ps) = before \o (shown \o rest) \o after
    BY DEF Listed, Posts
  <1> HIDE DEF shown, rest, before, after
  <1> QED
    BY <1>2, <1>3, <1>4, <1>5

LEMMA ViewParts ==
  ASSUME TypeOK, kind = "sent" => SliceInRange
  PROVE  View \in Seq(PartsOf(Offered))
  <1>1. OnEveryPage \subseteq Offered /\ (offset > 0 => "previous" \in Offered)
    BY DEF Offered
  <1>2. Heading[kind] \in Seq(PartsOf(Offered))
    <2>1. {"text", "field", "tabs"} \subseteq Offered
      BY <1>1 DEF OnEveryPage
    <2>2. kind \in {"sent", "replies", "search"}
      BY KindsAssumption DEF TypeOK
    <2>3. <<Text(3)>> \in Seq(PartsOf(Offered)) /\ <<Text(2)>> \in Seq(PartsOf(Offered))
      BY <2>1, OnePart DEF Text
    <2>4. Part("field", 3) \in PartsOf(Offered) /\ Part("tabs", 3) \in PartsOf(Offered)
      BY <2>1 DEF Part, PartsOf
    <2>5. <<Part("field", 3), Part("tabs", 3)>> \in Seq(PartsOf(Offered))
      BY <2>4
    <2>6. /\ Heading["sent"] = <<Text(3)>> /\ Heading["replies"] = <<Text(2)>>
          /\ Heading["search"] = <<Part("field", 3), Part("tabs", 3)>>
      BY DEF Heading
    <2> QED
      BY <2>2, <2>3, <2>5, <2>6
  <1>3. CASE Remote
    <2>1. "next" \in Offered
      BY <1>3 DEF Offered, Remote
    <2>2. Listed(channel.posts) \in Seq(PartsOf(Offered))
      BY <1>1, <2>1, ListedParts DEF TypeOK
    <2>3. <<Text(1)>> \in Seq(PartsOf(Offered)) /\ <<>> \in Seq(PartsOf(Offered))
      BY <1>1, OnePart DEF OnEveryPage, Text
    <2>4. Answered \in Seq(PartsOf(Offered))
      BY <2>2, <2>3 DEF Answered
    <2> QED
      BY <1>2, <1>3, <2>4 DEF View
  <1>4. CASE ~Remote
    <2> DEFINE n == Lesser(Limit, posts - offset)
    <2>1. offset \in Int /\ posts \in Nat /\ Limit \in Nat /\ offset \in 0..posts /\ kind = "sent"
      BY <1>4, LimitAssumption, MaxPostsAssumption DEF TypeOK, SliceInRange, Remote
    <2>2. n \in Nat /\ n <= Limit /\ (n = Limit => offset + Limit <= posts)
      BY <2>1 DEF Lesser
    <2>3. Slice = [i \in 1..n |-> TRUE]
      BY DEF Slice
    <2> HIDE DEF n
    <2>4. Slice \in Seq(BOOLEAN) /\ Len(Slice) = n
      BY <2>2, <2>3
    <2>5. n = Limit => "next" \in Offered
      BY <2>1, <2>2 DEF Offered
    <2>6. Listed(Slice) \in Seq(PartsOf(Offered))
      BY <1>1, <2>1, <2>2, <2>4, <2>5, ListedParts
    <2> QED
      BY <1>2, <1>4, <2>6 DEF View
  <1> QED
    BY <1>3, <1>4

(* What is drawn at the end of a tick.                                     *)
LEMMA Drew ==
  ASSUME TypeOK, Ticking, NEW f, NEW s \in Int, NEW k, NEW refreshed, Finish(f, s, k, refreshed)
  PROVE  /\ drawn' = [areas |-> drawn'.areas, height |-> drawn'.height, term |-> field.text]
         /\ drawn'.areas \in AreasAt(Offered, s) /\ drawn'.height \in Nat
  <1> DEFINE placed == Placed(View, s)
  <1>1. placed \in PlacedAt(Offered, s)
    BY ViewParts, PlacedParts DEF Ticking
  <1>2. drawn' = Drawing(placed, field.text)
    BY DEF Finish, Draw
  <1> HIDE DEF placed
  <1>3. drawn'.areas = placed.areas /\ drawn'.height = placed.height
    BY <1>2 DEF Drawing
  <1> QED
    BY <1>1, <1>2, <1>3 DEF PlacedAt, Drawing

-----------------------------------------------------------------------------
(* Type correctness.                                                       *)
Fields == {t \in [text: Seq({"a"}), at: Nat] : t.at <= Len(t.text)}

LEMMA EditsFields ==
  ASSUME NEW t \in Fields, NEW k \in FieldKeys
  PROVE  Edits(t)[k] \in Fields
  <1>0. t.text \in Seq({"a"}) /\ t.at \in 0..Len(t.text) /\ t \in Fields
    BY DEF Fields
  <1>1. ASSUME NEW i \in 1..Len(t.text)
        PROVE  RemoveAt(t.text, i) \in Seq({"a"}) /\ Len(RemoveAt(t.text, i)) = Len(t.text) - 1
    <2> DEFINE before == SubSeq(t.text, 1, i - 1)
               after == SubSeq(t.text, i + 1, Len(t.text))
    <2>1. before \in Seq({"a"}) /\ Len(before) = i - 1
      BY <1>0
    <2>2. after \in Seq({"a"}) /\ Len(after) = Len(t.text) - i
      BY <1>0
    <2>3. RemoveAt(t.text, i) = before \o after
      BY DEF RemoveAt
    <2> HIDE DEF before, after
    <2> QED
      BY <1>0, <2>1, <2>2, <2>3
  <1>2. Insert(t) \in Fields
    <2>1. SubSeq(t.text, 1, t.at) \in Seq({"a"}) /\ Len(SubSeq(t.text, 1, t.at)) = t.at
      BY <1>0
    <2>2. SubSeq(t.text, t.at + 1, Len(t.text)) \in Seq({"a"})
          /\ Len(SubSeq(t.text, t.at + 1, Len(t.text))) = Len(t.text) - t.at
      BY <1>0
    <2>3. <<"a">> \in Seq({"a"}) /\ Len(<<"a">>) = 1
      OBVIOUS
    <2> QED
      BY <1>0, <2>1, <2>2, <2>3 DEF Insert, Fields
  <1>3. Edits(t)["char"] \in Fields
    BY <1>0, <1>2 DEF Edits
  <1>4. Edits(t)["backspace"] \in Fields
    BY <1>0, <1>1 DEF Edits, Fields
  <1>5. Edits(t)["delete"] \in Fields
    BY <1>0, <1>1 DEF Edits, Fields
  <1>6. Edits(t)["left"] \in Fields /\ Edits(t)["right"] \in Fields
    BY <1>0 DEF Edits, Fields, Lesser, Greater
  <1>7. Edits(t)["home"] \in Fields /\ Edits(t)["end"] \in Fields
    BY <1>0 DEF Edits, Fields
  <1> QED
    BY <1>3, <1>4, <1>5, <1>6, <1>7 DEF FieldKeys

(* What the type invariant says of the places of the drawing.              *)
LEMMA TypedDrawing ==
  ASSUME TypeOK
  PROVE  IsDrawing(drawn) /\ Count(drawn) = Len(drawn.areas)
  <1>1. drawn.areas \in Seq(Areas) /\ drawn.height \in Int
    BY DEF TypeOK
  <1>2. \A f \in 0..(Len(drawn.areas) - 1) : drawn.areas[f + 1] \in Areas
    BY <1>1
  <1>3. Count(drawn) = Len(drawn.areas) /\ Count(drawn) \in Nat
    BY <1>1 DEF Count
  <1>4. ASSUME NEW f \in 0..(Count(drawn) - 1)
        PROVE  Y(drawn, f) \in Int /\ Bottom(drawn, f) \in Int
    <2>1. drawn.areas[f + 1] \in Areas
      BY <1>2, <1>3
    <2>2. drawn.areas[f + 1].y \in Int /\ drawn.areas[f + 1].height \in Nat
      BY <2>1 DEF Areas
    <2> QED
      BY <2>2 DEF Y, Bottom
  <1> QED
    BY <1>1, <1>3, <1>4 DEF IsDrawing

LEMMA AfterIsTyped ==
  ASSUME NEW d, IsDrawing(d), NEW f \in Int, NEW s \in Int, NEW k
  PROVE  After(k, d, f, s).focus \in Int /\ After(k, d, f, s).scroll \in Int
  <1> DEFINE next == NextArea(k, d, f, s)
             area == Lesser(next, Count(d) - 1)
             shown == Shown(k, d, next, s)
  <1>1. next \in Int /\ Count(d) \in Nat /\ d.height \in Int /\ Height \in Int
    BY HeightAssumption DEF NextArea, Above, Below, IsDrawing
  <1> HIDE DEF next
  <1>2. shown.focus \in Int /\ shown.scroll \in Int
    <2>1. CASE next >= 0 /\ Count(d) > 0
      <3>1. area \in 0..(Count(d) - 1) /\ Y(d, area) \in Int /\ Bottom(d, area) \in Int
        BY <1>1, <2>1 DEF Lesser, IsDrawing
      <3> HIDE DEF area
      <3>2. ShowTop(d, area, s).focus \in Int /\ ShowTop(d, area, s).scroll \in Int
        BY <3>1, MaxScrollIsPositive, NavHeightAssumption DEF ShowTop, At, Lesser
      <3>3. ShowBottom(d, area, s).focus \in Int /\ ShowBottom(d, area, s).scroll \in Int
        BY <1>1, <3>1, MaxScrollIsPositive DEF ShowBottom, At, Greater
      <3>4. At(area, s).focus \in Int /\ At(area, s).scroll \in Int
        BY <3>1 DEF At
      <3>5. shown \in {ShowTop(d, area, s), ShowBottom(d, area, s), At(area, s)}
        BY <2>1 DEF Shown, area
      <3> QED
        BY <3>2, <3>3, <3>4, <3>5
    <2>2. CASE ~(next >= 0 /\ Count(d) > 0)
      <3>1. shown = At(next, IF k = "up" /\ s < 0 THEN Lesser(0, s + MaxScroll) ELSE s)
        BY <2>2 DEF Shown
      <3> QED
        BY <1>1, <3>1, MaxScrollIsPositive DEF At, Lesser
    <2> QED
      BY <2>1, <2>2
  <1>3. After(k, d, f, s) = At(IF shown.focus > 0 THEN Lesser(shown.focus, Count(d) - 1)
                                                 ELSE shown.focus, shown.scroll)
    BY DEF After, next
  <1> HIDE DEF shown
  <1> QED
    BY <1>1, <1>2, <1>3 DEF At, Lesser

PageTyped ==
    /\ kind \in Kinds /\ offset \in Int /\ posts \in 0..MaxPosts
    /\ term \in Seq({"a"}) /\ tab \in 0..TabCount - 1

ChannelTyped ==
    /\ channel \in [to: [term: Seq({"a"}), tab: 0..TabCount - 1, offset: Int],
                    state: {"none", "waiting", "error", "ready"}, posts: Seq(BOOLEAN)]
    /\ Len(channel.posts) <= Limit
    /\ earlier \subseteq Int

ViewTyped ==
    /\ focus \in Int /\ scroll \in Int
    /\ drawn \in [areas: Seq(Areas), height: Nat, term: Seq({"a"})]
    /\ field \in Fields
    /\ crashed \in BOOLEAN /\ stale \in BOOLEAN

LEMMA TypeParts ==
  /\ TypeOK <=> PageTyped /\ ChannelTyped /\ ViewTyped
  /\ TypeOK' <=> PageTyped' /\ ChannelTyped' /\ ViewTyped'
  BY DEF TypeOK, PageTyped, ChannelTyped, ViewTyped, Fields

(* A page of sent posts starts at a multiple of the posts of a page.       *)
StartsWhole == kind = "sent" => \E q \in Int : offset = q * Limit

(* Unless the page is stale it was drawn as it is and where it is.         *)
DrawnFits == ~stale => drawn.areas \in AreasAt(Offered, scroll)

ListInv == TypeOK /\ StartsWhole /\ DrawnFits

LEMMA ReloadTyped ==
  ASSUME TypeOK, NEW asks, Reload(asks), PageTyped'
  PROVE  ChannelTyped'
  <1>1. CASE Remote /\ asks
    <2>1. /\ channel' = Channel(Request(term', tab', offset'), "waiting", <<>>)
          /\ earlier' \in {{channel.to.offset}, earlier}
      BY <1>1 DEF Reload, Ask
    <2>2. channel.to.offset \in Int /\ earlier \subseteq Int
      BY TypeParts DEF ChannelTyped
    <2>3. Request(term', tab', offset') \in [term: Seq({"a"}), tab: 0..TabCount - 1, offset: Int]
      BY DEF PageTyped, Request
    <2>4. <<>> \in Seq(BOOLEAN) /\ Len(<<>>) <= Limit
      BY LimitAssumption
    <2> QED
      BY <2>1, <2>2, <2>3, <2>4 DEF Channel, ChannelTyped
  <1>2. CASE ~(Remote /\ asks)
    BY <1>2, TypeParts DEF Reload, ChannelTyped
  <1> QED
    BY <1>1, <1>2

LEMMA AreasTyped ==
  ASSUME NEW s \in Int, NEW areas \in AreasAt(Offered, s)
  PROVE  areas \in Seq(Areas)
  <1> DEFINE S == [act: Offered, height: Nat, y: {r \in Int : r >= NavHeight + s}]
  <1>1. Offered \subseteq Acts
    BY DEF Offered, OnEveryPage, Acts
  <1>2. S \subseteq Areas
    BY <1>1 DEF Areas
  <1>3. areas \in Seq(S)
    BY DEF AreasAt
  <1> HIDE DEF S
  <1> QED
    BY <1>2, <1>3

(* The end of a tick: what a refresh has changed is not drawn yet.         *)
LEMMA TickEnds ==
  ASSUME TypeOK, Ticking, NEW f \in Int, NEW s \in Int, NEW k, NEW refreshed \in BOOLEAN,
         Finish(f, s, k, refreshed), refreshed \/ UNCHANGED page
  PROVE  ViewTyped' /\ DrawnFits'
  <1>1. /\ drawn' = [areas |-> drawn'.areas, height |-> drawn'.height, term |-> field.text]
        /\ drawn'.areas \in AreasAt(Offered, s) /\ drawn'.height \in Nat
    BY Drew
  <1>2. drawn'.areas \in Seq(Areas)
    BY <1>1, AreasTyped
  <1>3. field \in Fields /\ crashed \in BOOLEAN /\ field.text \in Seq({"a"})
    BY TypeParts DEF ViewTyped, Fields
  <1>4. field' \in Fields
    BY <1>3, EditsFields DEF Finish, Edited
  <1>5. focus' = f /\ scroll' \in Int /\ crashed' \in BOOLEAN /\ stale' \in BOOLEAN
    BY <1>3 DEF Finish
  <1>6. ViewTyped'
    BY <1>1, <1>2, <1>3, <1>4, <1>5 DEF ViewTyped
  <1>7. ~stale' => scroll' = s /\ UNCHANGED page
    BY DEF Finish
  <1>8. UNCHANGED page => Offered' = Offered
    BY DEF page, Offered
  <1>9. DrawnFits'
    BY <1>1, <1>7, <1>8 DEF DrawnFits
  <1> QED
    BY <1>6, <1>9

(* Every step of the page ends a tick, or leaves what was drawn alone.     *)
LEMMA ListInvStep == ListInv /\ [Next]_vars => ListInv'
  <1> SUFFICES ASSUME ListInv, [Next]_vars PROVE ListInv'
    OBVIOUS
  <1> USE DEF ListInv
  <1>0. PageTyped /\ ChannelTyped /\ ViewTyped /\ Limit \in Nat \ {0} /\ TabCount \in Nat \ {0}
    BY TypeParts, LimitAssumption, TabCountAssumption
  <1>1. IsDrawing(drawn) /\ focus \in Int /\ scroll \in Int
    BY <1>0, TypedDrawing DEF ViewTyped
  <1>2. ASSUME NEW k, NEW i \in Pressed(k) PROVE i \in Int
    BY <1>1 DEF Pressed, IsDrawing
  <1>3. ASSUME NEW k, NEW i \in Pressed(k), ChangePage(k, i) PROVE ListInv'
    <2>1. offset' \in {offset + Limit, offset - Limit} /\ UNCHANGED <<kind, posts, term, tab>>
      BY <1>3 DEF ChangePage
    <2>2. PageTyped'
      BY <1>0, <2>1 DEF PageTyped
    <2>3. StartsWhole'
      <3>1. ASSUME NEW q \in Int, offset = q * Limit
            PROVE  \E r \in Int : offset' = r * Limit
        <4>1. (q + 1) * Limit = q * Limit + Limit /\ (q - 1) * Limit = q * Limit - Limit
          BY <1>0
        <4> QED
          BY <2>1, <3>1, <4>1
      <3> QED
        BY <2>1, <3>1 DEF StartsWhole
    <2>4. ChannelTyped'
      BY <1>3, <2>2, ReloadTyped DEF ChangePage
    <2>5. ViewTyped' /\ DrawnFits'
      BY <1>1, <1>2, <1>3, TickEnds DEF ChangePage
    <2> QED
      BY <2>2, <2>3, <2>4, <2>5, TypeParts
  <1>4. ASSUME offset' = 0, UNCHANGED <<kind, posts>>, term' \in Seq({"a"}), tab' \in 0..TabCount - 1,
               NEW asks, Reload(asks), Ticking,
               NEW f \in Int, NEW k, Finish(f, scroll, k, TRUE)
        PROVE  ListInv'
    <2>1. PageTyped'
      BY <1>0, <1>4 DEF PageTyped
    <2>2. StartsWhole'
      BY <1>4, <1>0 DEF StartsWhole
    <2>3. ChannelTyped'
      BY <1>4, <2>1, ReloadTyped
    <2>4. ViewTyped' /\ DrawnFits'
      BY <1>1, <1>4, TickEnds
    <2> QED
      BY <2>1, <2>2, <2>3, <2>4, TypeParts
  <1>5. ASSUME NEW k, NEW i \in Pressed(k), ChangeTab(k, i) PROVE ListInv'
    <2>1. tab \in 0..TabCount - 1 /\ TabCount \in Nat \ {0}
      BY <1>0 DEF PageTyped
    <2>2. tab' \in 0..TabCount - 1
      BY <1>5, <2>1 DEF ChangeTab
    <2> QED
      BY <1>0, <1>2, <1>4, <1>5, <2>2 DEF ChangeTab, PageTyped
  <1>6. CASE Search
    <2>1. drawn.term \in Seq({"a"})
      BY <1>0 DEF ViewTyped
    <2> QED
      BY <1>0, <1>1, <1>4, <1>6, <2>1 DEF Search, PageTyped
  <1>7. ASSUME UNCHANGED page, Ticking, NEW f \in Int, NEW s \in Int, NEW k,
               NEW refreshed \in BOOLEAN, Finish(f, s, k, refreshed), NEW asks, Reload(asks)
        PROVE  ListInv'
    <2>1. PageTyped' /\ StartsWhole'
      BY <1>0, <1>7 DEF PageTyped, StartsWhole, page
    <2>2. ChannelTyped'
      BY <1>7, <2>1, ReloadTyped
    <2>3. ViewTyped' /\ DrawnFits'
      BY <1>7, TickEnds
    <2> QED
      BY <2>1, <2>2, <2>3, TypeParts
  <1>8. ASSUME NEW f \in Int, NEW s \in Int, NEW k, Finish(f, s, k, FALSE),
               UNCHANGED <<page, channel, earlier>>, Ticking
        PROVE  ListInv'
    BY <1>7, <1>8 DEF Reload
  <1>9. ASSUME NEW k, TypeInField(k) PROVE ListInv'
    BY <1>1, <1>8, <1>9 DEF TypeInField
  <1>10. ASSUME NEW k, NEW i \in Pressed(k), Open(k, i) PROVE ListInv'
    BY <1>1, <1>2, <1>8, <1>10 DEF Open
  <1>11. ASSUME NEW k, Move(k) PROVE ListInv'
    <2> DEFINE to == After(k, drawn, focus, scroll)
    <2>1. to.focus \in Int /\ to.scroll \in Int
      BY <1>1, AfterIsTyped
    <2>2. /\ Ticking /\ UNCHANGED <<page, channel, earlier>>
          /\ Finish(Along(k, to.focus), to.scroll, k, FALSE)
      BY <1>11 DEF Move
    <2> HIDE DEF to
    <2>3. Along(k, to.focus) \in Int
      BY <2>1 DEF Along
    <2> QED
      BY <1>8, <2>1, <2>2, <2>3
  <1>12. ASSUME NEW k, Refresh(k) PROVE ListInv'
    <2> DEFINE to == After(k, drawn, focus, scroll)
    <2>1. to.focus \in Int /\ to.scroll \in Int
      BY <1>1, AfterIsTyped
    <2>2. /\ Ticking /\ UNCHANGED page /\ Reload(Asked)
          /\ Finish(to.focus, to.scroll, k, TRUE)
      BY <1>12 DEF Refresh
    <2> HIDE DEF to
    <2> QED
      BY <1>7, <2>1, <2>2
  <1>13. ASSUME UNCHANGED <<page, focus, scroll, drawn, field, stale>>, crashed' \in BOOLEAN,
                ChannelTyped'
         PROVE  ListInv'
    <2>1. PageTyped' /\ StartsWhole' /\ ViewTyped'
      BY <1>0, <1>13 DEF PageTyped, StartsWhole, ViewTyped, page
    <2>2. Offered' = Offered
      BY <1>13 DEF Offered, page
    <2>3. DrawnFits'
      BY <1>13, <2>2 DEF DrawnFits
    <2> QED
      BY <1>13, <2>1, <2>3, TypeParts
  <1>14. CASE Raise
    BY <1>0, <1>13, <1>14 DEF Raise, ChannelTyped
  <1>15. ASSUME NEW a \in Results, Reply(a) PROVE ListInv'
    <2>1. a[1] \in {"error", "ready"} /\ a[2] \in Seq(BOOLEAN) /\ Len(a[2]) <= Limit
      <3>1. CASE a = <<"error", <<>>>>
        BY <1>0, <3>1
      <3>2. ASSUME NEW n \in 0..Limit, a = <<"ready", [i \in 1..n |-> FALSE]>>
            PROVE  a[1] \in {"error", "ready"} /\ a[2] \in Seq(BOOLEAN) /\ Len(a[2]) <= Limit
        BY <1>0, <3>2
      <3> QED
        BY <1>15, <3>1, <3>2 DEF Results
    <2>2. channel' = Channel(channel.to, a[1], a[2]) /\ UNCHANGED earlier
      BY <1>15 DEF Reply
    <2>3. ChannelTyped'
      BY <1>0, <2>1, <2>2 DEF ChannelTyped, Channel
    <2> QED
      BY <1>0, <1>13, <1>15, <2>3 DEF Reply, ViewTyped
  <1>16. ASSUME NEW i \in DOMAIN channel.posts, Load(i) PROVE ListInv'
    <2>1. /\ channel' = [channel EXCEPT !.posts = [channel.posts EXCEPT ![i] = TRUE]]
          /\ UNCHANGED earlier
      BY <1>16 DEF Load
    <2>2. [channel.posts EXCEPT ![i] = TRUE] \in Seq(BOOLEAN)
          /\ Len([channel.posts EXCEPT ![i] = TRUE]) = Len(channel.posts)
      BY <1>0 DEF ChannelTyped
    <2>3. ChannelTyped'
      BY <1>0, <2>1, <2>2 DEF ChannelTyped
    <2> QED
      BY <1>0, <1>13, <1>16, <2>3 DEF Load, ViewTyped
  <1>17. CASE Send
    <2>1. PageTyped' /\ ChannelTyped' /\ ViewTyped' /\ StartsWhole'
      BY <1>0, <1>17, MaxPostsAssumption
      DEF Send, PageTyped, ChannelTyped, ViewTyped, StartsWhole
    <2>2. posts' >= posts => Offered \subseteq Offered'
      BY <1>0, <1>17, MaxPostsAssumption DEF Send, Offered, PageTyped
    <2>3. posts' >= posts =>
             (drawn.areas \in AreasAt(Offered, scroll) => drawn.areas \in AreasAt(Offered', scroll))
      <3> DEFINE S(acts) == [act: acts, height: Nat, y: {r \in Int : r >= NavHeight + scroll}]
      <3>1. posts' >= posts => S(Offered) \subseteq S(Offered')
        BY <2>2
      <3>2. \A acts : AreasAt(acts, scroll) = Seq(S(acts))
        BY DEF AreasAt
      <3> HIDE DEF S
      <3> QED
        BY <3>1, <3>2
    <2>4. ~stale' => ~stale /\ posts' >= posts
      <3>1. posts \in Int /\ posts' \in Int
        BY <1>0, <2>1, MaxPostsAssumption DEF PageTyped
      <3>2. stale' = (stale \/ posts' < posts)
        BY <1>17 DEF Send
      <3>3. ~stale' => ~stale /\ ~(posts' < posts)
        BY <3>2, Zenon
      <3> QED
        BY <3>1, <3>3
    <2>5. UNCHANGED <<drawn, scroll>>
      BY <1>17 DEF Send
    <2>6. DrawnFits'
      BY <2>3, <2>4, <2>5 DEF DrawnFits
    <2> QED
      BY <2>1, <2>6, TypeParts
  <1>18. CASE SwitchAccount
    <2>1. PageTyped' /\ ChannelTyped' /\ ViewTyped' /\ StartsWhole' /\ DrawnFits'
      BY <1>0, <1>18 DEF SwitchAccount, PageTyped, ChannelTyped, ViewTyped, StartsWhole, DrawnFits
    <2> QED
      BY <2>1, TypeParts
  <1>19. ASSUME NEW o, ReplyLate(o) PROVE ListInv'
    <2>1. ChannelTyped' /\ crashed' \in BOOLEAN
      BY <1>0, <1>19 DEF ReplyLate, ChannelTyped, ViewTyped
    <2> QED
      BY <1>13, <1>19, <2>1 DEF ReplyLate
  <1>20. CASE UNCHANGED vars
    <2>1. ChannelTyped' /\ crashed' \in BOOLEAN
      BY <1>0, <1>20 DEF vars, ChannelTyped, ViewTyped
    <2> QED
      BY <1>13, <1>20, <2>1 DEF vars
  <1> QED
    BY <1>3, <1>5, <1>6, <1>9, <1>10, <1>11, <1>12, <1>14, <1>15, <1>16, <1>17, <1>18, <1>19, <1>20
    DEF Next

LEMMA InitListInv == Init => ListInv
  <1> SUFFICES ASSUME Init PROVE ListInv
    OBVIOUS
  <1>1. <<>> \in Seq({"a"}) /\ <<>> \in Seq(BOOLEAN) /\ <<>> \in Seq(Areas) /\ Len(<<>>) = 0
    OBVIOUS
  <1>2. 0 \in 0..TabCount - 1 /\ Limit \in Nat
    BY TabCountAssumption, LimitAssumption
  <1>3. PageTyped
    BY <1>1, <1>2, MaxPostsAssumption DEF Init, PageTyped
  <1>4. ChannelTyped
    BY <1>1, <1>2 DEF Init, ChannelTyped, Channel, Request
  <1>5. ViewTyped
    <2>1. field \in Fields
      BY <1>1 DEF Init, Fields
    <2>2. drawn \in [areas: Seq(Areas), height: Nat, term: Seq({"a"})]
      BY <1>1 DEF Init
    <2>3. focus \in Int /\ scroll \in Int
      BY DEF Init
    <2>4. crashed \in BOOLEAN /\ stale \in BOOLEAN
      BY Zenon DEF Init
    <2> QED
      BY <2>1, <2>2, <2>3, <2>4 DEF ViewTyped
  <1>6. StartsWhole
    BY <1>2 DEF Init, StartsWhole
  <1>7. DrawnFits
    BY DEF Init, DrawnFits, AreasAt
  <1> QED
    BY <1>3, <1>4, <1>5, <1>6, <1>7, TypeParts DEF ListInv

(* The page, the channel, the drawing and the field stay what they are     *)
(* meant to be.                                                            *)
THEOREM TypeCorrect == Spec => []TypeOK
  <1>1. ListInv => TypeOK
    BY DEF ListInv
  <1> QED
    BY <1>1, InitListInv, ListInvStep, PTL DEF Spec

(* On every drawing, wherever the focus and the scroll position are.       *)
LEMMA ProgressOnDrawings ==
  ASSUME IsDrawing(drawn), focus \in Int, scroll \in Int
  PROVE  KeysMakeProgress
  <1> SUFFICES ASSUME scroll <= 0, focus < Count(drawn) PROVE
        LET down == After("down", drawn, focus, scroll)
            up   == After("up", drawn, focus, scroll)
        IN  /\ \/ down.scroll < scroll
               \/ down.scroll = scroll /\ down.focus > focus
               \/ focus = Count(drawn) - 1 /\ drawn.height + scroll <= Height
            /\ \/ up.scroll > scroll
               \/ up.scroll = scroll /\ up.focus < focus
               \/ focus < 0 /\ scroll = 0
    BY DEF KeysMakeProgress
  <1> QED
    BY DownGetsOn, UpGetsBack

(* Up and Down get the reader on, whatever page is drawn and wherever the  *)
(* keys, the clicks and the refreshes so far have brought the focus and    *)
(* the scroll position.                                                    *)
THEOREM Progress == Spec => []KeysMakeProgress
  <1>1. TypeOK => KeysMakeProgress
    <2> SUFFICES ASSUME TypeOK PROVE KeysMakeProgress
      OBVIOUS
    <2>1. focus \in Int /\ scroll \in Int
      BY DEF TypeOK
    <2> QED
      BY <2>1, TypedDrawing, ProgressOnDrawings
  <1> QED
    BY <1>1, TypeCorrect, PTL

(* An area of a drawing does what the view offers and lies below the       *)
(* navigation bar as it was scrolled.                                      *)
LEMMA AreaIsThere ==
  ASSUME NEW acts, NEW s \in Int, NEW areas \in AreasAt(acts, s), NEW a \in 0..Len(areas) - 1
  PROVE  areas[a + 1].act \in acts /\ areas[a + 1].y \in Int /\ areas[a + 1].y >= NavHeight + s
  <1> DEFINE Area == [act: acts, height: Nat, y: {r \in Int : r >= NavHeight + s}]
  <1>1. areas \in Seq(Area)
    BY DEF AreasAt
  <1> HIDE DEF Area
  <1>2. areas[a + 1] \in Area
    BY <1>1
  <1> USE DEF Area
  <1> QED
    BY <1>2

-----------------------------------------------------------------------------
(* The sent page: a button of the page that is drawn leads somewhere.      *)
LEMMA ButtonsLead ==
  ASSUME ListInv, ~stale, NEW i \in Int, Act(i) \in {"previous", "next"}
  PROVE  Act(i) \in Offered
  <1>1. drawn.areas \in AreasAt(Offered, scroll) /\ scroll \in Int
    BY DEF ListInv, DrawnFits, TypeOK
  <1>2. i \in 0..Count(drawn) - 1 /\ Act(i) = drawn.areas[i + 1].act
    BY DEF Act
  <1>3. drawn.areas[i + 1].act \in Offered
    BY <1>1, <1>2, AreaIsThere DEF Count
  <1> QED
    BY <1>2, <1>3

(* The slice of the sent posts that is shown starts among them, unless a   *)
(* button of a page that is gone is pressed or the sent posts get fewer.   *)
THEOREM SentInRange == Spec => SentStaysInRange
  <1> DEFINE Stays == kind = "sent" /\ SliceInRange /\ ~SliceInRange' => stale \/ posts' < posts
  <1>1. ListInv /\ [Next]_vars => [Stays]_vars
    <2> SUFFICES ASSUME ListInv, [Next]_vars, kind = "sent", SliceInRange, ~stale, ~(posts' < posts)
                 PROVE  SliceInRange'
      OBVIOUS
    <2>0. /\ posts \in Nat /\ posts' \in Nat /\ offset \in 0..posts /\ posts <= posts'
          /\ Limit \in Nat \ {0}
      <3>1. posts \in 0..MaxPosts /\ posts' \in 0..MaxPosts
        BY ListInvStep DEF ListInv, TypeOK
      <3> QED
        BY <3>1, LimitAssumption, MaxPostsAssumption DEF SliceInRange
    <2>1. ASSUME NEW k, NEW i \in Pressed(k), ChangePage(k, i) PROVE SliceInRange'
      <3>1. i \in Int
        BY TypedDrawing DEF Pressed, ListInv, TypeOK, IsDrawing
      <3>2. Act(i) \in {"previous", "next"} /\ Act(i) \in Offered /\ posts' = posts
        BY <2>1, <3>1, ButtonsLead DEF ChangePage
      <3>3. CASE Act(i) = "next"
        <4>1. offset + Limit <= posts
          BY <3>2, <3>3 DEF Offered, OnEveryPage
        <4>2. offset' = offset + Limit
          BY <2>1, <3>3 DEF ChangePage
        <4> QED
          BY <2>0, <3>2, <4>1, <4>2 DEF SliceInRange
      <3>4. CASE Act(i) = "previous"
        <4>1. offset > 0
          BY <3>2, <3>4 DEF Offered, OnEveryPage
        <4>2. PICK q \in Int : offset = q * Limit
          BY DEF ListInv, StartsWhole
        <4>3. offset' = offset - Limit
          BY <2>1, <3>4 DEF ChangePage
        <4>4. q >= 1
          <5>1. SUFFICES ASSUME q <= 0 PROVE q * Limit <= 0
            BY <2>0, <4>1, <4>2
          <5> QED
            BY <2>0, <5>1
        <4>5. offset >= Limit
          <5>1. q * Limit = (q - 1) * Limit + Limit /\ (q - 1) * Limit >= 0
            BY <2>0, <4>4
          <5> QED
            BY <2>0, <4>2, <5>1
        <4> QED
          BY <2>0, <3>2, <4>3, <4>5 DEF SliceInRange
      <3> QED
        BY <3>2, <3>3, <3>4
    <2>2. CASE offset' = 0 \/ offset' = offset
      BY <2>0, <2>2 DEF SliceInRange
    <2> QED
      BY <2>1, <2>2
      DEF Next, ChangeTab, Search, TypeInField, Open, Move, Refresh, Raise, Reply, ReplyLate,
          Load, Send, SwitchAccount, vars, page
  <1> QED
    BY <1>1, InitListInv, ListInvStep, PTL DEF Spec, SentStaysInRange

-----------------------------------------------------------------------------
(* No key scrolls beyond the top of a page that was drawn where it is.     *)
LEMMA StaysBelowNavBar ==
  ASSUME NEW d, IsDrawing(d), NEW f \in Int, NEW s \in Int, s <= 0, NEW k,
         \A a \in 0..Count(d) - 1 : Y(d, a) >= NavHeight + s
  PROVE  After(k, d, f, s).scroll <= 0
  <1> DEFINE next == NextArea(k, d, f, s)
             area == Lesser(next, Count(d) - 1)
             shown == Shown(k, d, next, s)
  <1>1. next \in Int /\ Count(d) \in Nat /\ d.height \in Int /\ Height \in Int
    BY HeightAssumption DEF NextArea, Above, Below, IsDrawing
  <1>2. After(k, d, f, s).scroll = shown.scroll
    BY DEF After, At
  <1> HIDE DEF next
  <1>3. CASE next >= 0 /\ Count(d) > 0
    <2>1. /\ area \in 0..(Count(d) - 1) /\ Y(d, area) \in Int /\ Bottom(d, area) \in Int
          /\ Y(d, area) >= NavHeight + s
      BY <1>1, <1>3 DEF Lesser, IsDrawing
    <2> HIDE DEF area
    <2>2. ShowTop(d, area, s).scroll <= 0
      BY <2>1, MaxScrollIsPositive, NavHeightAssumption DEF ShowTop, At, Lesser
    <2>3. ShowBottom(d, area, s).scroll <= 0
      BY <1>1, <2>1, MaxScrollIsPositive DEF ShowBottom, At, Greater
    <2>4. At(area, s).scroll <= 0
      BY DEF At
    <2>5. shown \in {ShowTop(d, area, s), ShowBottom(d, area, s), At(area, s)}
      BY <1>3 DEF Shown, area
    <2> QED
      BY <1>2, <2>2, <2>3, <2>4, <2>5
  <1>4. CASE ~(next >= 0 /\ Count(d) > 0)
    <2>1. shown = At(next, IF k = "up" /\ s < 0 THEN Lesser(0, s + MaxScroll) ELSE s)
      BY <1>4 DEF Shown
    <2> QED
      BY <1>2, <2>1, MaxScrollIsPositive DEF At, Lesser
  <1> QED
    BY <1>3, <1>4

(* The top of a page is never pulled away from the navigation bar, unless  *)
(* a key comes before the tick that draws a page anew.                     *)
THEOREM NoGap == Spec => NoGapAbove
  <1> DEFINE Stays == scroll <= 0 /\ scroll' > 0 => stale
  <1>1. ListInv /\ [Next]_vars => [Stays]_vars
    <2> SUFFICES ASSUME ListInv, [Next]_vars, scroll <= 0, ~stale PROVE ~(scroll' > 0)
      OBVIOUS
    <2>0. scroll' \in Int
      BY ListInvStep DEF ListInv, TypeOK
    <2>1. IsDrawing(drawn) /\ focus \in Int /\ scroll \in Int
      BY TypedDrawing DEF ListInv, TypeOK
    <2>2. \A a \in 0..Count(drawn) - 1 : Y(drawn, a) >= NavHeight + scroll
      <3>1. drawn.areas \in AreasAt(Offered, scroll)
        BY DEF ListInv, DrawnFits
      <3> QED
        BY <2>1, <3>1, AreaIsThere DEF Count, Y
    <2>3. ASSUME NEW k, Move(k) PROVE scroll' <= 0
      <3>1. scroll' = After(k, drawn, focus, scroll).scroll
        BY <2>3 DEF Move, Finish
      <3> QED
        BY <2>1, <2>2, <3>1, StaysBelowNavBar
    <2>4. ASSUME NEW f, NEW k, NEW r, Finish(f, scroll, k, r) PROVE scroll' <= 0
      BY <2>4 DEF Finish
    <2>5. ASSUME NEW k, Refresh(k) PROVE scroll' <= 0
      BY <2>5 DEF Refresh, Finish
    <2>6. ASSUME UNCHANGED scroll PROVE scroll' <= 0
      BY <2>6
    <2>7. \/ \E k : Move(k)
          \/ \E f, k, r : Finish(f, scroll, k, r)
          \/ \E k : Refresh(k)
          \/ UNCHANGED scroll
      BY Zenon
      DEF Next, ChangePage, ChangeTab, Search, TypeInField, Open, Raise, Reply, ReplyLate,
          Load, Send, SwitchAccount, vars
    <2> QED
      BY <2>0, <2>3, <2>4, <2>5, <2>6, <2>7
  <1> QED
    BY <1>1, InitListInv, ListInvStep, PTL DEF Spec, NoGapAbove

-----------------------------------------------------------------------------
(* The channel of a page is the one of its last request, and the sent page *)
(* has none.                                                               *)
ChannelAgrees ==
    /\ channel = Channel(channel.to, channel.state, channel.posts)
    /\ kind = "sent" => ~Asked
    /\ ShownIsAsked

LEMMA Reloaded ==
  ASSUME ChannelAgrees, NEW asks \in BOOLEAN, Reload(asks), kind' = kind,
         asks \/ ~Asked \/ UNCHANGED <<term, tab, offset>>
  PROVE  ChannelAgrees'
  <1>1. CASE Remote /\ asks
    <2>1. channel' = Channel(Request(term', tab', offset'), "waiting", <<>>)
      BY <1>1 DEF Reload, Ask
    <2> QED
      BY <1>1, <2>1 DEF ChannelAgrees, ShownIsAsked, Asked, Channel, Remote
  <1>2. CASE ~(Remote /\ asks)
    <2>1. channel' = channel
      BY <1>2 DEF Reload
    <2> QED
      BY <1>2, <2>1 DEF ChannelAgrees, ShownIsAsked, Asked, Channel, Remote
  <1> QED
    BY <1>1, <1>2

LEMMA ChannelAgreesStep == ChannelAgrees /\ [Next]_vars => ChannelAgrees'
  <1> SUFFICES ASSUME ChannelAgrees, [Next]_vars PROVE ChannelAgrees'
    OBVIOUS
  <1>0. Asked \in BOOLEAN
    BY DEF Asked
  <1>1. ASSUME NEW k, NEW i, ChangePage(k, i) PROVE ChannelAgrees'
    BY <1>1, Reloaded DEF ChangePage
  <1>2. ASSUME NEW k, NEW i, ChangeTab(k, i) PROVE ChannelAgrees'
    BY <1>0, <1>2, Reloaded DEF ChangeTab
  <1>3. CASE Search
    BY <1>3, Reloaded DEF Search
  <1>4. ASSUME NEW k, Refresh(k) PROVE ChannelAgrees'
    BY <1>0, <1>4, Reloaded DEF Refresh, page
  <1>5. ASSUME NEW a \in Results, Reply(a) PROVE ChannelAgrees'
    <2>1. channel' = Channel(channel.to, a[1], a[2]) /\ Asked
      BY <1>5 DEF Reply, Asked
    <2>2. UNCHANGED <<kind, term, tab, offset>>
      BY <1>5 DEF Reply, page
    <2> QED
      BY <2>1, <2>2 DEF ChannelAgrees, ShownIsAsked, Asked, Channel
  <1>6. ASSUME NEW i, Load(i) PROVE ChannelAgrees'
    <2>1. channel' = Channel(channel.to, channel.state, [channel.posts EXCEPT ![i] = TRUE])
      BY <1>6 DEF Load, ChannelAgrees, Channel
    <2>2. UNCHANGED <<kind, term, tab, offset>>
      BY <1>6 DEF Load, page
    <2> QED
      BY <2>1, <2>2 DEF ChannelAgrees, ShownIsAsked, Asked, Channel
  <1>7. CASE UNCHANGED <<kind, offset, term, tab, channel>>
    BY <1>7 DEF ChannelAgrees, ShownIsAsked, Asked
  <1> QED
    BY <1>1, <1>2, <1>3, <1>4, <1>5, <1>6, <1>7
    DEF Next, TypeInField, Open, Move, Raise, ReplyLate, Send, SwitchAccount, vars, page

(* A page never shows the answer to a request it was not set to: paging,   *)
(* searching and changing the tab each replace the channel, and the answer *)
(* of the request before may come after that, or after the later answer.   *)
THEOREM AnswersFit == Spec => []ShownIsAsked
  <1>1. Init => ChannelAgrees
    BY DEF Init, ChannelAgrees, ShownIsAsked, Asked, Channel, Request
  <1>2. ChannelAgrees => ShownIsAsked
    BY DEF ChannelAgrees
  <1> QED
    BY <1>1, <1>2, ChannelAgreesStep, PTL DEF Spec

-----------------------------------------------------------------------------
(* Unless the page is stale, the field was drawn as it is.                 *)
FieldIsDrawn == ~stale => drawn.term = field.text

LEMMA Finished ==
  ASSUME NEW f, NEW s, NEW k, NEW refreshed \in BOOLEAN, Finish(f, s, k, refreshed)
  PROVE  FieldIsDrawn'
  BY DEF Finish, FieldIsDrawn, Draw, Drawing

LEMMA FieldIsDrawnStep == FieldIsDrawn /\ [Next]_vars => FieldIsDrawn'
  <1> SUFFICES ASSUME FieldIsDrawn, [Next]_vars PROVE FieldIsDrawn'
    OBVIOUS
  <1>1. CASE \E f, s, k, refreshed : refreshed \in BOOLEAN /\ Finish(f, s, k, refreshed)
    BY <1>1, Finished
  <1>2. CASE UNCHANGED <<drawn, field>> /\ (stale => stale')
    BY <1>2 DEF FieldIsDrawn
  <1>3. CASE Send \/ SwitchAccount
    BY <1>2, <1>3 DEF Send, SwitchAccount
  <1>4. CASE \E o : ReplyLate(o)
    BY <1>2, <1>4 DEF ReplyLate
  <1>5. CASE Raise \/ (\E a : Reply(a)) \/ (\E i : Load(i)) \/ UNCHANGED vars
    BY <1>2, <1>5 DEF Raise, Reply, Load, vars
  <1> QED
    BY <1>1, <1>3, <1>4, <1>5
    DEF Next, ChangePage, ChangeTab, Search, TypeInField, Open, Move, Refresh

(* Enter searches for what the field shows, unless it comes in the same    *)
(* burst of keys as the last letter.                                       *)
THEOREM SearchedIsTyped == Spec => SearchesTheField
  <1>1. Init => FieldIsDrawn
    BY DEF Init, FieldIsDrawn
  <1>2. FieldIsDrawn => (Search /\ ~stale => term' = field.text)
    BY DEF FieldIsDrawn, Search
  <1> QED
    BY <1>1, <1>2, FieldIsDrawnStep, PTL DEF Spec, SearchesTheField
=============================================================================

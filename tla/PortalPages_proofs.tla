--------------------------- MODULE PortalPages_proofs ---------------------------
(***************************************************************************)
(* The pages of the portal, for any buttons, menus, tabs, applications and *)
(* dates: questions (ConfirmedAction), dialogs, menus and tabs             *)
(* (DownloadDialog), ratings (ApplicationFeedback), date pickers           *)
(* (DatePicker).                                                           *)
(***************************************************************************)
EXTENDS PortalPages, FiniteSetTheorems, SequenceTheorems, WellFoundedInduction,
        NaturalsInduction, TLAPS

\* (The instances have definitions of their own of what they extend.)
LEMMA SameCardinality ==
    ASSUME NEW S
    PROVE  Confirmed!Cardinality(S) = Cardinality(S) /\ Download!Cardinality(S) = Cardinality(S)
  BY DEF Cardinality, Confirmed!Cardinality, Download!Cardinality

\* At most one of anything is one at most.
LEMMA AtMostOne ==
    ASSUME NEW S, \A x, y \in S : x = y
    PROVE  Cardinality(S) <= 1
<1>1. CASE S = {}
  BY <1>1, FS_EmptySet
<1>2. CASE S # {}
  <2>1. PICK x \in S : TRUE
    BY <1>2
  <2>2. S = {x}
    BY <2>1
  <2> QED BY <2>2, FS_Singleton
<1> QED BY <1>1, <1>2

-----------------------------------------------------------------------------
(* Ratings, whatever order the requests and answers arrive in.              *)

Message(m) == /\ DOMAIN m = {"kind", "of", "n", "id"}
              /\ m.kind \in {"postRating", "postComment"} => m.of \in Apps /\ m.n \in Nat

\* A rating on its way to the service.
Posting(a) == {m \in net : m.kind = "postRating" /\ m.of = a}

\* What is on its way is what the page shows, unless two were on their way at once; and what has
\* arrived is kept, if nothing is on its way.
RatingInv ==
    /\ value \in [Apps -> Nat]
    /\ server \in [Apps -> [rating : Nat, comments : Nat]]
    /\ \A m \in net : Message(m)
    /\ \A a \in Apps \ uncertain :
          /\ \A m \in Posting(a) : m.n = value[a]
          /\ value[a] # NoStar /\ Posting(a) = {} => server[a].rating = value[a]

LEMMA RatingImplies == RatingInv => LastClickIsKept
  BY DEF RatingInv, LastClickIsKept, Posting

LEMMA RatingInit == ASSUME MaxStar \in Nat, Init PROVE RatingInv
<1>1. server \in [Apps -> [rating : Nat, comments : Nat]]
  BY DEF Init, NoStar
<1>2. \A m \in net : Message(m) /\ m.kind # "postRating"
  BY DEF Init, Message
<1>3. value \in [Apps -> Nat] /\ \A a \in Apps : value[a] = NoStar
  BY DEF Init, NoStar
<1> QED
  BY <1>1, <1>2, <1>3 DEF RatingInv, Posting

\* A step that sends, receives and loses no rating.
LEMMA NothingRated ==
    ASSUME RatingInv, UNCHANGED <<value, uncertain>>,
           server' \in [Apps -> [rating : Nat, comments : Nat]],
           \A m \in net' : Message(m),
           \A a \in Apps : server'[a].rating = server[a].rating,
           \A m \in net' : m.kind = "postRating" => m \in net,
           \A m \in net : m.kind = "postRating" => m \in net'
    PROVE  RatingInv'
  BY DEF RatingInv, Posting

LEMMA RatingNext == ASSUME MaxStar \in Nat, RatingInv, [Next]_vars PROVE RatingInv'
<1>1. ASSUME NEW a \in Apps, NEW v \in Stars, ClickStar(a, v) PROVE RatingInv'
  <2> DEFINE new == [kind |-> "postRating", of |-> a, n |-> v, id |-> sent]
  <2>1. value' = [value EXCEPT ![a] = v] /\ v \in Nat
    BY <1>1 DEF ClickStar, Rated, Stars
  <2>2. Posted(a, v) = v
    BY <2>1 DEF Posted, Rated, RatingInv
  <2>3. net' = net \cup {new}
    BY <1>1, <2>2 DEF ClickStar, Send, Msg
  <2>4. /\ new.kind = "postRating" /\ new.of = a /\ new.n = v
        /\ Message(new)
    BY <2>1 DEF Message
  <2> HIDE DEF new
  <2>5. /\ server' = server
        /\ uncertain' = IF Posting(a) # {} THEN uncertain \cup {a} ELSE uncertain
    BY <1>1 DEF ClickStar, Posting
  <2>6. \A b \in Apps : Posting(b)' = IF b = a THEN Posting(a) \cup {new} ELSE Posting(b)
    BY <2>3, <2>4 DEF Posting
  <2>7. \A m \in net' : Message(m)
    BY <2>3, <2>4 DEF RatingInv
  <2>8. value' \in [Apps -> Nat] /\ \A b \in Apps : value'[b] = IF b = a THEN v ELSE value[b]
    BY <2>1 DEF RatingInv
  <2>9. ASSUME NEW b \in Apps \ uncertain'
        PROVE  /\ \A m \in Posting(b)' : m.n = value'[b]
               /\ value'[b] # NoStar /\ Posting(b)' = {} => server'[b].rating = value'[b]
    <3>1. CASE b = a
      BY <2>4, <2>5, <2>6, <2>8, <2>9, <3>1
    <3>2. CASE b # a
      BY <2>5, <2>6, <2>8, <2>9, <3>2 DEF RatingInv
    <3> QED BY <3>1, <3>2
  <2> QED
    BY <2>5, <2>7, <2>8, <2>9 DEF RatingInv
<1>2. ASSUME NEW m \in net, Serve(m), m.kind = "postRating" PROVE RatingInv'
  <2>1. /\ server' = [server EXCEPT ![m.of].rating = m.n] /\ net' = net \ {m}
        /\ UNCHANGED <<value, uncertain>>
    BY <1>2 DEF Serve
  <2>2. m.of \in Apps /\ m.n \in Nat
    BY <1>2 DEF RatingInv, Message
  <2>3. /\ server' \in [Apps -> [rating : Nat, comments : Nat]]
        /\ \A a \in Apps : server'[a].rating = IF a = m.of THEN m.n ELSE server[a].rating
    BY <2>1, <2>2 DEF RatingInv
  <2>4. \A a \in Apps : Posting(a)' = Posting(a) \ {m}
    BY <2>1 DEF Posting
  <2>5. m \in Posting(m.of)
    BY <1>2 DEF Posting
  <2>6. \A k \in net' : Message(k)
    BY <2>1 DEF RatingInv
  <2>7. ASSUME NEW a \in Apps \ uncertain
        PROVE  /\ \A k \in Posting(a)' : k.n = value[a]
               /\ value[a] # NoStar /\ Posting(a)' = {} => server'[a].rating = value[a]
    <3>1. CASE a = m.of
      BY <2>3, <2>4, <2>5, <2>7, <3>1 DEF RatingInv
    <3>2. CASE a # m.of
      <4>1. m \notin Posting(a)
        BY <3>2 DEF Posting
      <4> QED
        BY <2>3, <2>4, <2>7, <3>2, <4>1 DEF RatingInv
    <3> QED BY <3>1, <3>2
  <2> QED
    BY <2>1, <2>3, <2>6, <2>7 DEF RatingInv
<1>3. ASSUME NEW m \in net, Serve(m), m.kind # "postRating" PROVE RatingInv'
  <2>1. ASSUME NEW k \in {"rating", "comments", "page"}, NEW n, Answered(m, k, n), UNCHANGED server
        PROVE  RatingInv'
    <3>1. net' = (net \ {m}) \cup {[m EXCEPT !.kind = k, !.n = n]}
      BY <2>1 DEF Answered
    <3>2. /\ [m EXCEPT !.kind = k, !.n = n].kind = k
          /\ Message([m EXCEPT !.kind = k, !.n = n])
      BY DEF RatingInv, Message
    <3> QED
      BY <1>3, <2>1, <3>1, <3>2, NothingRated DEF Serve, RatingInv
  <2>2. ASSUME m.kind = "postComment", server' = [server EXCEPT ![m.of].comments = @ + 1],
               net' = net \ {m}
        PROVE  RatingInv'
    <3>1. m.of \in Apps
      BY <2>2 DEF RatingInv, Message
    <3>2. /\ server' \in [Apps -> [rating : Nat, comments : Nat]]
          /\ \A a \in Apps : server'[a].rating = server[a].rating
      BY <2>2, <3>1 DEF RatingInv
    <3> QED
      BY <1>3, <2>2, <3>2, NothingRated DEF Serve, RatingInv
  <2> QED
    BY <1>3, <2>1, <2>2 DEF Serve
<1>4. ASSUME NEW m \in net, Read(m) PROVE RatingInv'
  BY <1>4, NothingRated DEF Read, RatingInv
<1>5. ASSUME NEW m \in net, Lose(m) PROVE RatingInv'
  <2>1. /\ net' = net \ {m} /\ UNCHANGED <<value, server>>
        /\ uncertain \subseteq uncertain'
        /\ m.kind = "postRating" => m.of \in uncertain'
    BY <1>5 DEF Lose
  <2>2. \A a \in Apps \ uncertain' : Posting(a)' = Posting(a)
    BY <2>1 DEF Posting
  <2> QED
    BY <2>1, <2>2 DEF RatingInv
<1>6. CASE UNCHANGED <<value, uncertain, server, net>>
  BY <1>6, NothingRated DEF RatingInv
<1>7. ASSUME NEW a \in Apps, SaveComment(a) \/ ViewComments(a) PROVE RatingInv'
  <2>1. PICK k \in {"postComment", "getComments"} : net' = net \cup {Msg(k, a, 0)}
    BY <1>7 DEF SaveComment, ViewComments, Send
  <2>2. Msg(k, a, 0).kind # "postRating" /\ Message(Msg(k, a, 0))
    BY DEF Msg, Message
  <2> QED
    BY <1>7, <2>1, <2>2, NothingRated DEF SaveComment, ViewComments, RatingInv
<1> QED
  BY <1>1, <1>2, <1>3, <1>4, <1>5, <1>6, <1>7
     DEF Next, MouseEnter, MouseLeave, ToggleBox, HideComments, vars

-----------------------------------------------------------------------------
(* Questions.  That answers are bound once rests on a question's being in   *)
(* the page exactly while it is shown: setContent binds anew whenever it is *)
(* not shown.                                                               *)

Question(t) ==
    /\ DOMAIN t = {"attached", "in", "href", "ok", "dismiss", "left", "top", "height", "moved"}
    /\ {t.left, t.top, t.height} \subseteq Int

\* A question is bound once, and above its button.
Placed(t) ==
    /\ Question(t)
    /\ t.in <=> t.attached
    /\ t.ok = IF t.attached THEN 1 ELSE 0
    /\ t.attached => t.left >= 0 /\ (~t.moved => t.top + t.height = Top)

QuestionInv ==
    /\ tip = [b \in Buttons |-> tip[b]]
    /\ \A b \in Buttons : Placed(tip[b])
    /\ \A b, c \in Buttons : tip[b].attached /\ tip[c].attached => b = c

LEMMA NoQuestion == Placed(Confirmed!NoTip) /\ ~Confirmed!NoTip.attached
  BY DEF Question, Placed, Confirmed!NoTip

LEMMA HiddenQuestion ==
    ASSUME NEW t
    PROVE  /\ Placed(Confirmed!hide(t)) /\ Placed([Confirmed!hide(t) EXCEPT !.dismiss = 0])
           /\ ~Confirmed!hide(t).attached /\ ~[Confirmed!hide(t) EXCEPT !.dismiss = 0].attached
<1>1. ASSUME NEW n, Placed(n), ~n.attached, NEW u, NEW d
      PROVE  Placed([n EXCEPT !.href = u, !.dismiss = d]) /\ ~[n EXCEPT !.href = u, !.dismiss = d].attached
  BY <1>1 DEF Placed, Question
<1>2. ASSUME NEW n, Placed(n), ~n.attached, NEW d
      PROVE  Placed([n EXCEPT !.dismiss = d]) /\ ~[n EXCEPT !.dismiss = d].attached
  BY <1>2 DEF Placed, Question
<1>3. PICK q : q = Confirmed!hide(t) /\ Placed(q) /\ ~q.attached
  BY <1>1, NoQuestion DEF Confirmed!hide
<1> QED
  BY <1>2, <1>3

\* The question of b as show puts it on the page.
Made(b, centre, w, h) ==
    [Confirmed!applyPlacement([Confirmed!setContent(b, tip[b]) EXCEPT !.attached = TRUE],
                              centre, w, h) EXCEPT !.dismiss = @ + 1]

\* What applyPlacement makes of it, and show of that.
LEMMA PlacedThere ==
    ASSUME NEW u, Question(u), u.ok = 1, u.attached,
           NEW l \in Int, NEW left \in Int, NEW top \in Int, NEW height \in Int,
           left >= 0, ~(l < 0) => top + height = Top,
           NEW q, q = [u EXCEPT !.in = TRUE, !.moved = l < 0, !.left = left, !.top = top,
                                !.height = height]
    PROVE  Placed(q) /\ Placed([q EXCEPT !.dismiss = @ + 1])
<1>1. Question(q) /\ q.ok = 1 /\ q.attached /\ q.in /\ q.left >= 0
      /\ (q.moved <=> l < 0) /\ q.top = top /\ q.height = height
  BY DEF Question
<1>2. Placed(q)
  BY <1>1 DEF Placed
<1> QED
  BY <1>2 DEF Placed, Question

LEMMA MadeQuestion ==
    ASSUME QuestionInv, NEW b \in Buttons, ~tip[b].in,
           NEW centre \in Int, NEW w \in Int, NEW h \in [1..3 -> Int]
    PROVE  Placed(Made(b, centre, w, h))
<1> DEFINE t == Confirmed!setContent(b, tip[b])
           u == [t EXCEPT !.attached = TRUE]
           q == Confirmed!applyPlacement(u, centre, w, h)
<1>1. Question(t) /\ t.ok = 1
  <2>1. PICK r : r = tip[b] /\ Question(r) /\ r.ok = 0
    BY DEF QuestionInv, Placed
  <2> QED
    BY <2>1 DEF Confirmed!setContent, Question
<1> HIDE DEF t
<1>2. Question(u) /\ u.ok = 1 /\ u.attached
  BY <1>1 DEF Question
<1> HIDE DEF u
<1>3. Placed([q EXCEPT !.dismiss = @ + 1])
  <2>1. Top \in Int /\ h[1] \in Int /\ h[2] \in Int /\ h[3] \in Int
    BY PortalAssumption DEF PortalAssumption
  <2>2. w \div 2 \in Int
    OBVIOUS
  <2>3. PICK l \in Int : l = centre - w \div 2
    BY <2>2
  <2>4. PICK top \in Int, height \in Int, left \in Int :
           /\ top = Top - h[1] + (h[1] - h[2]) /\ height = h[IF l < 0 THEN 3 ELSE 2]
           /\ left = IF l < 0 THEN 0 ELSE l
    BY <2>1
  <2>5. left >= 0 /\ (~(l < 0) => top + height = Top)
    BY <2>1, <2>4
  <2>6. q = [u EXCEPT !.in = TRUE, !.moved = l < 0, !.left = left, !.top = top,
                      !.height = height]
    BY <2>3, <2>4 DEF Confirmed!applyPlacement
  <2> HIDE DEF q
  <2> QED BY <1>2, <2>5, <2>6, PlacedThere
<1> QED
  BY <1>3 DEF Made, t, u, q

LEMMA QuestionNext ==
    ASSUME QuestionInv, [Confirmed!Next]_confirmedVars
    PROVE  QuestionInv'
<1>1. CASE UNCHANGED confirmedVars
  BY <1>1 DEF QuestionInv, confirmedVars, Placed
<1>2. ASSUME NEW b \in Buttons, NEW q, Placed(q), tip' = [tip EXCEPT ![b] = q], ~q.attached
      PROVE  QuestionInv'
  <2>1. \A c \in Buttons : tip'[c] = IF c = b THEN q ELSE tip[c]
    BY <1>2 DEF QuestionInv
  <2>2. tip' = [c \in Buttons |-> tip'[c]]
    BY <1>2 DEF QuestionInv
  <2> QED
    BY <1>2, <2>1, <2>2 DEF QuestionInv, Placed
<1>3. ASSUME NEW b \in Buttons, Confirmed!ClickShow(b) PROVE QuestionInv'
  <2>1. PICK centre \in Centres, w \in Widths, h \in [1..3 -> Heights] :
           tip' = Confirmed!show(tip, b, centre, w, h)
    BY <1>3 DEF Confirmed!ClickShow
  <2>2. centre \in Int /\ w \in Int /\ h \in [1..3 -> Int] /\ ~tip[b].in
    BY <1>3, PortalAssumption DEF Confirmed!ClickShow, PortalAssumption
  <2>3. PICK q : q = Made(b, centre, w, h) /\ Placed(q)
    BY <2>2, MadeQuestion
  <2>4. PICK alone : alone = Confirmed!Hidden(tip, Buttons \ {b})
    OBVIOUS
  <2>5. alone = [c \in Buttons |-> IF c = b THEN tip[b] ELSE Confirmed!hide(tip[c])]
    BY <2>4 DEF Confirmed!Hidden
  <2>6. tip' = [alone EXCEPT ![b] = q]
    BY <2>1, <2>3, <2>4, <2>5 DEF Confirmed!show, Made
  <2>7. tip' = [c \in Buttons |-> IF c = b THEN q ELSE Confirmed!hide(tip[c])]
    BY <2>5, <2>6
  <2>8. \A c \in Buttons : Placed(Confirmed!hide(tip[c])) /\ ~Confirmed!hide(tip[c]).attached
    BY HiddenQuestion
  <2>9. \A c \in Buttons : tip'[c] = IF c = b THEN q ELSE Confirmed!hide(tip[c])
    BY <2>7
  <2>10. tip' = [c \in Buttons |-> tip'[c]]
    BY <2>7
  <2> QED
    BY <2>3, <2>8, <2>9, <2>10 DEF QuestionInv, Placed
<1>4. ASSUME NEW b \in Buttons, Confirmed!ClickHide(b) \/ Confirmed!ClickNo(b) PROVE QuestionInv'
  <2>1. PICK q \in {Confirmed!hide(tip[b]), [Confirmed!hide(tip[b]) EXCEPT !.dismiss = 0]} :
           tip' = [tip EXCEPT ![b] = q]
    BY <1>4 DEF Confirmed!ClickHide, Confirmed!ClickNo
  <2>2. Placed(q) /\ ~q.attached
    BY <2>1, HiddenQuestion
  <2> QED
    BY <1>2, <2>1, <2>2
<1>5. ASSUME NEW b \in Buttons, Confirmed!ClickYes(b) PROVE QuestionInv'
  BY <1>5 DEF QuestionInv, Confirmed!ClickYes, Placed
<1> QED
  BY <1>1, <1>3, <1>4, <1>5 DEF Confirmed!Next

LEMMA QuestionInit == ASSUME Confirmed!Init PROVE QuestionInv
<1>1. tip = [b \in Buttons |-> Confirmed!NoTip]
  BY DEF Confirmed!Init
<1>2. \A b \in Buttons : tip[b] = Confirmed!NoTip
  BY <1>1
<1>3. tip = [b \in Buttons |-> tip[b]]
  BY <1>1
<1> QED
  BY <1>2, <1>3, NoQuestion DEF QuestionInv

LEMMA QuestionImplies == QuestionInv => Confirmed!OneQuestion /\ Confirmed!QuestionIsAboveItsButton
<1> SUFFICES ASSUME QuestionInv PROVE Confirmed!OneQuestion /\ Confirmed!QuestionIsAboveItsButton
  OBVIOUS
<1>1. Confirmed!QuestionIsAboveItsButton
  BY DEF QuestionInv, Placed, Confirmed!QuestionIsAboveItsButton
<1>2. PICK S : S = {b \in Buttons : tip[b].attached}
  OBVIOUS
<1>3. \A x, y \in S : x = y
  BY <1>2 DEF QuestionInv
<1>4. Cardinality(S) <= 1
  BY <1>3, AtMostOne
<1>5. \A b \in Buttons : tip[b].ok = IF tip[b].attached THEN 1 ELSE 0
  BY DEF QuestionInv, Placed
<1> QED
  BY <1>1, <1>2, <1>4, <1>5, SameCardinality DEF Confirmed!OneQuestion
-----------------------------------------------------------------------------
(* Dialogs, menus and tabs.  What a handler calls keeps the dialog whole,   *)
(* whatever it does to the focus and to the menus.                          *)

Whole(t) ==
    /\ DOMAIN t = {"menus", "open", "focus", "made", "isShown", "displayed", "backdrops", "keyup",
                   "focusin", "waiting", "picker", "usagePointId", "href", "openedFor", "badges",
                   "active"}
    /\ t.isShown \in BOOLEAN /\ t.displayed = t.isShown
    /\ t.isShown => t.focus \in Download!InDialog \cup {Download!Body}
    /\ t.isShown => t.backdrops = 1 /\ t.keyup = 1 /\ t.focusin = 1
    /\ ~t.isShown => t.backdrops = 0 /\ t.keyup = 0 /\ t.focusin = 0
    /\ t.menus /\ t.isShown => t.href = t.openedFor
    /\ t.active = t.badges /\ \E tab \in Tabs : t.badges = {tab}

MenusApart(t) == (\A u, v \in t.open : u = v) /\ (t.isShown => t.open = {})

DialogInv == Whole(s) /\ MenusApart(s)

\* The same dialog, shown or not, and the same menus.
Keeps(t, r) == Whole(r) /\ r.isShown = t.isShown /\ r.open = t.open

LEMMA FocusKeeps == ASSUME NEW t, Whole(t), NEW e PROVE Keeps(t, Download!focus(t, e))
<1>1. ASSUME NEW x, t.isShown => x \in Download!InDialog \cup {Download!Body}
      PROVE  Keeps(t, [t EXCEPT !.focus = x])
  BY <1>1 DEF Whole, Keeps
<1>2. Keeps(t, t)
  BY DEF Keeps
<1>3. t.isShown => t.focusin > 0
  BY DEF Whole
<1> QED
  BY <1>1, <1>2, <1>3 DEF Download!focus, Download!InDialog

LEMMA BlurredKeeps == ASSUME NEW t, Whole(t) PROVE Keeps(t, Download!Blurred(t))
<1>1. Keeps(t, [t EXCEPT !.focus = Download!Body]) /\ Keeps(t, t)
  BY DEF Whole, Keeps
<1> QED
  BY <1>1 DEF Download!Blurred

LEMMA ClearKeeps ==
    ASSUME NEW t, Whole(t), NEW us
    PROVE  LET r == [t EXCEPT !.open = us] IN Whole(r) /\ r.isShown = t.isShown /\ r.open = us
  BY DEF Whole

LEMMA ClearMenus ==
    ASSUME NEW t, Whole(t)
    PROVE  /\ Whole(Download!clearMenus(t)) /\ MenusApart(Download!clearMenus(t))
           /\ Download!clearMenus(t).isShown = t.isShown
  BY ClearKeeps DEF Download!clearMenus, MenusApart

LEMMA HideKeeps == ASSUME NEW t, Whole(t) PROVE Keeps(t, Download!Hide(t))
<1>1. PICK u : u = CHOOSE x \in t.waiting : TRUE
  OBVIOUS
<1>2. PICK r : r = [t EXCEPT !.waiting = {}]
  OBVIOUS
<1>3. Keeps(t, r)
  BY <1>2 DEF Whole, Keeps
<1>4. Keeps(r, Download!focus(r, Download!Link(u, Items)))
  BY <1>3, FocusKeeps DEF Keeps
<1> QED
  BY <1>1, <1>2, <1>3, <1>4 DEF Keeps, Download!Hide

LEMMA PickerKeeps == ASSUME NEW t, Whole(t) PROVE Keeps(t, Download!PickerHides(t))
<1>1. PICK r : r = [t EXCEPT !.picker = "hidden"]
  OBVIOUS
<1>2. Keeps(t, r)
  BY <1>1 DEF Whole, Keeps
<1> QED
  BY <1>1, <1>2, HideKeeps DEF Keeps, Download!PickerHides

\* Hiding the dialog undoes all that showing it did.
LEMMA HideCloses ==
    ASSUME NEW t, Whole(t)
    PROVE  Whole(Download!hide(t)) /\ ~Download!hide(t).isShown /\ Download!hide(t).open = t.open
<1>1. PICK h : h = Download!Hide(t) /\ Keeps(t, h)
  BY HideKeeps
<1>2. CASE ~h.isShown
  BY <1>1, <1>2 DEF Keeps, Download!hide
<1>3. CASE h.isShown
  <2>1. PICK e : e = [h EXCEPT !.isShown = FALSE]
    OBVIOUS
  <2>2. PICK c : c = [Download!escape(e) EXCEPT !.focusin = 0]
    OBVIOUS
  <2>3. c = [[e EXCEPT !.keyup = 0] EXCEPT !.focusin = 0]
    <3>1. ~e.isShown
      BY <1>1, <2>1 DEF Keeps, Whole
    <3> QED BY <2>2, <3>1 DEF Download!escape
  <2>4. PICK d : d = [c EXCEPT !.displayed = FALSE]
    OBVIOUS
  <2>5. PICK f : d.focus = f
    OBVIOUS
  <2>6. PICK b : b = Download!Blurred(d)
    OBVIOUS
  <2>7. b = d \/ b = [d EXCEPT !.focus = Download!Body]
    BY <2>6 DEF Download!Blurred
  <2>8. d.backdrops = 1 /\ b.backdrops = 1
    BY <1>1, <1>3, <2>1, <2>3, <2>4, <2>7 DEF Keeps, Whole
  <2>9. Download!hide(t) = [b EXCEPT !.backdrops = 0]
    BY <1>1, <1>3, <2>1, <2>2, <2>4, <2>6, <2>8
       DEF Download!hide, Download!hideModal, Download!removeBackdrop
  <2>10. LET r == [d EXCEPT !.backdrops = 0] IN Whole(r) /\ ~r.isShown /\ r.open = t.open
    BY <1>1, <1>3, <2>1, <2>3, <2>4 DEF Keeps, Whole
  <2>11. LET r == [d EXCEPT !.focus = Download!Body, !.backdrops = 0]
         IN  Whole(r) /\ ~r.isShown /\ r.open = t.open
    BY <1>1, <1>3, <2>1, <2>3, <2>4 DEF Keeps, Whole
  <2> QED
    BY <2>7, <2>9, <2>10, <2>11
<1> QED
  BY <1>2, <1>3

\* Behind a dialog nothing happens to the menus; without one, one of them at most is open.
Menu(t) == Whole(t) /\ MenusApart(t) /\ ~t.isShown

LEMMA FocusMenu == ASSUME NEW t, Menu(t), NEW e PROVE Menu(Download!focus(t, e))
  BY FocusKeeps DEF Menu, Keeps, MenusApart

LEMMA BlurredMenu == ASSUME NEW t, Menu(t) PROVE Menu(Download!Blurred(t))
  BY BlurredKeeps DEF Menu, Keeps, MenusApart

LEMMA ClearedMenu == ASSUME NEW t, Menu(t) PROVE Menu(Download!clearMenus(t))
  BY ClearMenus DEF Menu

LEMMA ToggleMenu == ASSUME NEW t, Menu(t), NEW u PROVE Menu(Download!toggle(t, u))
<1>1. PICK c : c = Download!clearMenus(t) /\ Whole(c) /\ ~c.isShown /\ c.open = {}
  BY ClearMenus, ClearKeeps DEF Menu, Download!clearMenus
<1>2. PICK r : r = [c EXCEPT !.open = IF u \in t.open THEN @ ELSE @ \cup {u}]
  OBVIOUS
<1>3. PICK us : us = (IF u \in t.open THEN {} ELSE {u}) /\ r = [c EXCEPT !.open = us]
  BY <1>1, <1>2
<1>4. Menu(r)
  BY <1>1, <1>3, ClearKeeps DEF Menu, MenusApart
<1>5. Menu(Download!Blurred(r))
  BY <1>4, BlurredMenu
<1> QED
  BY <1>1, <1>2, <1>5, FocusMenu DEF Download!toggle

LEMMA KeyEscapeKeeps == ASSUME NEW t, Menu(t), NEW u PROVE Menu(Download!keyEscape(t, u))
<1>1. PICK f : f = Download!focus(t, Download!Button(u)) /\ Menu(f)
  BY FocusMenu
<1>2. Menu(Download!toggle(f, u)) /\ Menu(Download!Blurred(Download!clearMenus(f)))
  BY <1>1, ToggleMenu, ClearedMenu, BlurredMenu
<1> QED
  BY <1>1, <1>2 DEF Download!keyEscape

LEMMA KeyMoveKeeps == ASSUME NEW t, Menu(t), NEW u, NEW dir PROVE Menu(Download!keyMove(t, u, dir))
  BY ToggleMenu, FocusMenu DEF Download!keyMove

\* The link that opens the dialog: the dialog's own link is made first, then it is shown.
LEMMA ModalOpens ==
    ASSUME NEW t, Menu(t), NEW u
    PROVE  LET r == [Download!Blurred(Download!clearMenus(Download!modal(Download!aModal(t, u), u)))
                        EXCEPT !.openedFor = u]
           IN  Whole(r) /\ MenusApart(r)
<1>1. PICK a : a = Download!aModal(t, u)
  OBVIOUS
<1>2. /\ Menu(a)
      /\ a.menus => a.href = u
  <2>1. CASE t.menus
    <3>1. PICK b : b = [t EXCEPT !.usagePointId = u]
      OBVIOUS
    <3>2. a = [b EXCEPT !.href = u]
      BY <1>1, <2>1, <3>1 DEF Download!aModal, Download!buildUrl, Menu, Whole
    <3> QED
      BY <3>1, <3>2 DEF Menu, Whole, MenusApart
  <2>2. CASE ~t.menus
    BY <1>1, <2>2 DEF Download!aModal
  <2> QED BY <2>1, <2>2
<1>3. PICK m : m = [a EXCEPT !.made = TRUE]
  OBVIOUS
<1>4. Menu(m) /\ (m.menus => m.href = u)
  BY <1>2, <1>3 DEF Menu, Whole, MenusApart
<1>5. PICK e : e = [[[m EXCEPT !.isShown = TRUE] EXCEPT !.keyup = 1] EXCEPT !.backdrops = 1]
  OBVIOUS
<1>6. e = Download!backdrop(Download!escape([m EXCEPT !.isShown = TRUE]))
  <2>1. PICK i : i = [m EXCEPT !.isShown = TRUE]
    OBVIOUS
  <2>2. Download!escape(i) = [i EXCEPT !.keyup = 1]
    <3>1. i.isShown /\ i.keyup + 1 = 1
      BY <1>4, <2>1 DEF Menu, Whole
    <3> QED BY <3>1 DEF Download!escape
  <2>3. PICK k : k = [i EXCEPT !.keyup = 1]
    OBVIOUS
  <2>4. Download!backdrop(k) = [k EXCEPT !.backdrops = 1]
    <3>1. k.isShown /\ k.backdrops + 1 = 1
      BY <1>4, <2>1, <2>3 DEF Menu, Whole
    <3> QED BY <3>1 DEF Download!backdrop
  <2> QED
    BY <1>5, <2>1, <2>2, <2>3, <2>4
<1>7. PICK d : d = [[e EXCEPT !.displayed = TRUE] EXCEPT !.focusin = 1]
  OBVIOUS
<1>8. d = Download!enforceFocus([e EXCEPT !.displayed = TRUE])
  <2>1. PICK g : g = [e EXCEPT !.displayed = TRUE]
    OBVIOUS
  <2>2. g.focusin + 1 = 1
    BY <1>4, <1>5, <2>1 DEF Menu, Whole
  <2> QED
    BY <1>7, <2>1, <2>2 DEF Download!enforceFocus
<1>9. PICK f : f = [d EXCEPT !.focus = Download!Dialog]
  OBVIOUS
<1>10. /\ d.displayed /\ d.focusin = 1
  BY <1>4, <1>5, <1>7 DEF Menu, Whole
<1>11. f = Download!focus(d, Download!Dialog)
  <2>1. Download!Visible(d, Download!Dialog)
    BY <1>10 DEF Download!Visible, Download!Dialog, Download!InDialog
  <2> QED
    BY <1>9, <2>1 DEF Download!focus
<1>12. Download!modal(a, u) = [f EXCEPT !.waiting = @ \cup {u}]
  <2>1. Download!show(m) = f
    BY <1>4, <1>6, <1>8, <1>11 DEF Menu, Download!show
  <2>2. ~a.made \/ ~a.isShown
    BY <1>2 DEF Menu
  <2> QED
    BY <1>3, <2>1, <2>2 DEF Download!modal
<1>13. PICK w : w = [f EXCEPT !.waiting = @ \cup {u}]
  OBVIOUS
<1>14. PICK c : c = [w EXCEPT !.open = {}]
  OBVIOUS
<1>15. c = Download!clearMenus(Download!modal(a, u))
  BY <1>12, <1>13, <1>14 DEF Download!clearMenus
<1>16. c.focus = Download!Dialog /\ c.displayed
  BY <1>4, <1>5, <1>7, <1>9, <1>13, <1>14 DEF Menu, Whole
<1>17. Download!Blurred(c) = c
  BY <1>16 DEF Download!Blurred, Download!Visible, Download!Dialog, Download!InDialog
<1>18. PICK r : r = [c EXCEPT !.openedFor = u]
  OBVIOUS
<1>19. Whole(r) /\ MenusApart(r)
  BY <1>4, <1>5, <1>7, <1>9, <1>13, <1>14, <1>18 DEF Menu, Whole, MenusApart, Download!InDialog
<1> QED
  BY <1>1, <1>15, <1>17, <1>18, <1>19

LEMMA DialogNext == ASSUME DialogInv, [Download!Next]_downloadVars PROVE DialogInv'
<1>1. CASE UNCHANGED downloadVars
  BY <1>1 DEF downloadVars, DialogInv, Whole, MenusApart
<1>2. ASSUME NEW r, Whole(r), MenusApart(r), s' = r PROVE DialogInv'
  BY <1>2 DEF DialogInv, Whole, MenusApart
<1>3. ASSUME NEW r, Menu(r), s' = r PROVE DialogInv'
  BY <1>2, <1>3 DEF Menu
<1>4. Download!Reachable => Menu(s)
  BY DEF Download!Reachable, DialogInv, Menu, Whole
<1>5. ASSUME NEW u, Download!OnMenu(u) PROVE Menu(s)
  BY <1>5 DEF Download!OnMenu, DialogInv, Menu, Whole, Download!InDialog, Download!Button,
              Download!Link, Download!Dialog, Download!Field, Download!Body
<1>6. ASSUME NEW u \in Points, Download!ClickButton(u) PROVE DialogInv'
  BY <1>3, <1>4, <1>6, FocusMenu, ToggleMenu DEF Download!ClickButton
<1>7. ASSUME NEW u \in Points, Download!ClickPeriod(u) PROVE DialogInv'
  <2>1. PICK t : t = Download!focus(s, Download!Link(u, Items)) /\ Menu(t)
    BY <1>4, <1>7, FocusMenu DEF Download!ClickPeriod
  <2> QED
    BY <1>2, <1>7, <2>1, ModalOpens DEF Download!ClickPeriod
<1>8. ASSUME NEW u \in Points, Download!KeyEscapeMenu(u) PROVE DialogInv'
  BY <1>3, <1>5, <1>8, KeyEscapeKeeps DEF Download!KeyEscapeMenu
<1>9. ASSUME NEW u \in Points, NEW dir, Download!KeyMoveMenu(u, dir) PROVE DialogInv'
  BY <1>3, <1>5, <1>9, KeyMoveKeeps DEF Download!KeyMoveMenu
<1>10. ASSUME Download!ClickElsewhere PROVE DialogInv'
  <2>1. Menu([s EXCEPT !.focus = Download!Body])
    BY <1>4, <1>10 DEF Download!ClickElsewhere, Menu, Whole, MenusApart
  <2> QED
    BY <1>3, <1>10, <2>1, ClearedMenu, BlurredMenu DEF Download!ClickElsewhere
<1>11. ASSUME NEW g \in Tabs, Download!ClickTab(g) PROVE DialogInv'
  <2>1. PICK t : t = [s EXCEPT !.badges = {g}, !.active = Tabs]
    OBVIOUS
  <2>2. PICK r : r = [t EXCEPT !.active = {g}]
    OBVIOUS
  <2>3. r = Download!activate(Download!pageTab(s, g), g)
    BY <2>1, <2>2 DEF Download!activate, Download!pageTab, DialogInv, Whole
  <2>4. Menu(r)
    BY <1>4, <1>11, <2>1, <2>2 DEF Download!ClickTab, Menu, Whole, MenusApart
  <2> QED
    BY <1>3, <1>11, <2>3, <2>4, ClearedMenu, BlurredMenu DEF Download!ClickTab
<1>12. ASSUME Download!ClickField PROVE DialogInv'
  <2>1. PICK f : f = Download!focus(s, Download!Field) /\ Whole(f)
    BY FocusKeeps DEF DialogInv, Keeps
  <2>2. Whole([f EXCEPT !.picker = "shown"])
    BY <2>1 DEF Whole
  <2> QED
    BY <1>2, <1>12, <2>1, <2>2, ClearMenus DEF Download!ClickField
<1>13. ASSUME NEW t, Whole(t), t.isShown = s.isShown, t.open = s.open
       PROVE  /\ MenusApart(t)
              /\ Whole(Download!PickerHides(t)) /\ MenusApart(Download!PickerHides(t))
              /\ Whole(Download!hide(t)) /\ MenusApart(Download!hide(t))
  BY <1>13, PickerKeeps, HideCloses DEF DialogInv, MenusApart, Keeps
<1>14. ASSUME Download!KeyArrow PROVE DialogInv'
  BY <1>14 DEF Download!KeyArrow, DialogInv, Whole, MenusApart
<1>15. ASSUME Download!ClickDay PROVE DialogInv'
  <2>1. PICK t : t = [s EXCEPT !.focus = Download!Body]
    OBVIOUS
  <2>2. Whole(t) /\ t.isShown = s.isShown /\ t.open = s.open
    BY <2>1 DEF DialogInv, Whole
  <2> QED
    BY <1>2, <1>13, <1>15, <2>1, <2>2 DEF Download!ClickDay
<1>16. ASSUME Download!KeyEnter PROVE DialogInv'
  <2>1. PICK e \in Download!InDialog : s' = Download!focus(Download!PickerHides(s), e)
    BY <1>16 DEF Download!KeyEnter
  <2>2. PICK t : t = Download!PickerHides(s) /\ Keeps(s, t)
    BY PickerKeeps DEF DialogInv
  <2> QED
    BY <1>2, <2>1, <2>2, FocusKeeps DEF Keeps, DialogInv, MenusApart
<1>17. ASSUME Download!Dismiss PROVE DialogInv'
  <2>1. PICK t : t = [s EXCEPT !.focus = Download!Dialog]
    OBVIOUS
  <2>2. Whole(t)
    BY <2>1 DEF DialogInv, Whole, Download!InDialog
  <2>3. PICK r : r = Download!hide(Download!PickerHides(t)) /\ Whole(r)
    BY <2>2, PickerKeeps, HideCloses DEF Keeps
  <2> QED
    BY <1>2, <1>17, <2>1, <2>3, ClearMenus DEF Download!Dismiss
<1>18. ASSUME Download!KeyEscapeDialog PROVE DialogInv'
  <2>1. PICK t \in {[s EXCEPT !.picker = "shown"], Download!PickerHides(s), s} :
           s' = Download!hide(t)
    BY <1>18 DEF Download!KeyEscapeDialog
  <2>2. Keeps(s, [s EXCEPT !.picker = "shown"]) /\ Keeps(s, s)
    BY DEF DialogInv, Keeps, Whole
  <2>3. Keeps(s, t)
    BY <2>1, <2>2, PickerKeeps DEF DialogInv
  <2> QED
    BY <1>2, <1>13, <2>1, <2>3 DEF Keeps
<1>19. ASSUME Download!ClickAway PROVE DialogInv'
  BY <1>2, <1>13, <1>19 DEF Download!ClickAway, DialogInv
<1>20. ASSUME Download!KeyTab PROVE DialogInv'
  <2>1. PICK e : s' = Download!focus(s, e)
    BY <1>20 DEF Download!KeyTab
  <2> QED
    BY <1>2, <2>1, FocusKeeps DEF Keeps, DialogInv, MenusApart
<1> QED
  BY <1>1, <1>6, <1>7, <1>8, <1>9, <1>10, <1>11, <1>12, <1>14, <1>15, <1>16, <1>17, <1>18, <1>19,
     <1>20 DEF Download!Next

LEMMA DialogInit == ASSUME Download!Init PROVE DialogInv
  BY PortalAssumption
     DEF Download!Init, PortalAssumption, DialogInv, Whole, MenusApart

LEMMA DialogImplies ==
    ASSUME DialogInv
    PROVE  /\ Download!OneMenu /\ Download!OnePane
           /\ Download!DialogLeavesNothing /\ Download!LinkIsForTheOpened
<1>1. Download!OneMenu
  <2>1. Cardinality(s.open) <= 1
    BY AtMostOne DEF DialogInv, MenusApart
  <2> QED
    BY <2>1, SameCardinality DEF Download!OneMenu, DialogInv, MenusApart
<1>2. Download!OnePane
  <2>1. Cardinality(s.active) = 1
    BY FS_Singleton DEF DialogInv, Whole
  <2> QED
    BY <2>1, SameCardinality DEF Download!OnePane, DialogInv, Whole
<1>3. Download!DialogLeavesNothing
  BY DEF Download!DialogLeavesNothing, DialogInv, Whole
<1>4. Download!LinkIsForTheOpened
  BY DEF Download!LinkIsForTheOpened, DialogInv, Whole
<1> QED
  BY <1>1, <1>2, <1>3, <1>4
-----------------------------------------------------------------------------
(* The calendar: Year, Month and Day are those of the day, and the cells of the  *)
(* six weeks a month is shown with are put together again to the days they are.   *)

\* The first of January of the years, to the day.
LEMMA YearStartBounds ==
    ASSUME NEW y \in Int
    PROVE  /\ Dates!YearStart(y) \in Int
           /\ 400 * Dates!YearStart(y) >= 146097 * (y - 1970) - 500
           /\ 400 * Dates!YearStart(y) <= 146097 * (y - 1970) + 500
  BY DEF Dates!YearStart

LEMMA YearLength ==
    ASSUME NEW y \in Int
    PROVE  Dates!YearStart(y + 1) = Dates!YearStart(y) + (IF Dates!isLeapYear(y) THEN 366 ELSE 365)
  BY DEF Dates!YearStart, Dates!isLeapYear

LEMMA YearsInOrder ==
    ASSUME NEW y \in Int, NEW z \in Int, y < z
    PROVE  Dates!YearStart(y + 1) <= Dates!YearStart(z)
  BY DEF Dates!YearStart

LEMMA YearOfDay ==
    ASSUME NEW n \in Int
    PROVE  /\ Dates!Year(n) \in Int
           /\ Dates!YearStart(Dates!Year(n)) <= n /\ n < Dates!YearStart(Dates!Year(n) + 1)
<1> DEFINE y == 1970 + (400 * n) \div 146097
<1>1. y \in Int /\ 146097 * (y - 1970) <= 400 * n /\ 400 * n < 146097 * (y - 1970) + 146097
  OBVIOUS
<1> HIDE DEF y
<1>2. Dates!YearStart(y - 1) <= n /\ n < Dates!YearStart(y + 2)
  BY <1>1, YearStartBounds
<1> DEFINE z == Dates!Year(n)
<1>3. z = IF n < Dates!YearStart(y) THEN y - 1 ELSE IF Dates!YearStart(y + 1) <= n THEN y + 1 ELSE y
  BY DEF Dates!Year, y, z
<1> HIDE DEF z
<1>4. z \in Int
  BY <1>1, <1>3
<1>5. (y - 1) + 1 = y /\ (y + 1) + 1 = y + 2
  BY <1>1
<1>6. Dates!YearStart(z) <= n /\ n < Dates!YearStart(z + 1)
  <2>1. CASE n < Dates!YearStart(y)
    BY <1>1, <1>2, <1>3, <1>5, <2>1
  <2>2. CASE Dates!YearStart(y + 1) <= n /\ ~(n < Dates!YearStart(y))
    BY <1>1, <1>2, <1>3, <1>5, <2>2
  <2>3. CASE ~(Dates!YearStart(y + 1) <= n) /\ ~(n < Dates!YearStart(y))
    <3>1. Dates!YearStart(y) \in Int /\ Dates!YearStart(y + 1) \in Int /\ z = y
      BY <1>1, <1>3, <2>3, YearStartBounds
    <3> QED BY <2>3, <3>1
  <2> QED BY <2>1, <2>2, <2>3
<1> QED
  BY <1>4, <1>6 DEF z

LEMMA MonthsOfAYear ==
    ASSUME NEW y \in Int, NEW m \in 0..11
    PROVE  /\ Dates!MonthStart(y, m) \in Int
           /\ m = 0 => Dates!MonthStart(y, m) = Dates!YearStart(y)
           /\ m < 11 => /\ Dates!MonthStart(y, m) + 28 <= Dates!MonthStart(y, m + 1)
                        /\ Dates!MonthStart(y, m + 1) <= Dates!MonthStart(y, m) + 31
           /\ m = 11 => Dates!MonthStart(y, m) + 31 = Dates!YearStart(y + 1)
           /\ Dates!YearStart(y) + 31 * (m - 1) <= Dates!MonthStart(y, m)
           /\ Dates!MonthStart(y, m) <= Dates!YearStart(y) + 31 * m
<1> DEFINE leap == IF Dates!isLeapYear(y) THEN 1 ELSE 0
<1>1. PICK b \in Int : b = Dates!YearStart(y)
  BY YearStartBounds
<1>2. leap \in 0..1 /\ Dates!YearStart(y + 1) = b + 365 + leap
  BY <1>1, YearLength
<1>3. \A k \in 0..11 : Dates!MonthStart(y, k) =
           b + <<0, 31, 59, 90, 120, 151, 181, 212, 243, 273, 304, 334>>[k + 1]
             + IF k > 1 THEN leap ELSE 0
  BY <1>1 DEF Dates!MonthStart
<1> HIDE DEF leap
<1>4. /\ Dates!MonthStart(y, 0) = b /\ Dates!MonthStart(y, 1) = b + 31
      /\ Dates!MonthStart(y, 2) = b + 59 + leap /\ Dates!MonthStart(y, 3) = b + 90 + leap
      /\ Dates!MonthStart(y, 4) = b + 120 + leap /\ Dates!MonthStart(y, 5) = b + 151 + leap
      /\ Dates!MonthStart(y, 6) = b + 181 + leap /\ Dates!MonthStart(y, 7) = b + 212 + leap
      /\ Dates!MonthStart(y, 8) = b + 243 + leap /\ Dates!MonthStart(y, 9) = b + 273 + leap
      /\ Dates!MonthStart(y, 10) = b + 304 + leap /\ Dates!MonthStart(y, 11) = b + 334 + leap
  BY <1>1, <1>2, <1>3
<1>5. \/ m = 0 \/ m = 1 \/ m = 2 \/ m = 3 \/ m = 4 \/ m = 5 \/ m = 6 \/ m = 7 \/ m = 8
      \/ m = 9 \/ m = 10 \/ m = 11
  OBVIOUS
<1> QED
  BY <1>1, <1>2, <1>4, <1>5

\* The month after month m of year y is the month of its own name.
LEMMA FirstOfMonth ==
    ASSUME NEW y \in Int, NEW m \in -1..13
    PROVE  \E z \in Int : \E k \in 0..11 :
              /\ \A d \in Int : Dates!UTCDate(y, m, d) = Dates!MonthStart(z, k) + d - 1
              /\ Dates!UTCDate(y, m, 1) = Dates!MonthStart(z, k)
              /\ Dates!UTCDate(y, m + 1, 1)
                    = IF k = 11 THEN Dates!YearStart(z + 1) ELSE Dates!MonthStart(z, k + 1)
<1> DEFINE z == y + m \div 12
           k == m % 12
<1>1. z \in Int /\ k \in 0..11
  OBVIOUS
<1>2. /\ k = 11 => y + (m + 1) \div 12 = z + 1 /\ (m + 1) % 12 = 0
      /\ k # 11 => y + (m + 1) \div 12 = z /\ (m + 1) % 12 = k + 1
  OBVIOUS
<1>3. \A d \in Int : Dates!UTCDate(y, m, d) = Dates!MonthStart(z, k) + d - 1
  BY DEF Dates!UTCDate
<1>4. Dates!UTCDate(y, m + 1, 1)
         = Dates!MonthStart(y + (m + 1) \div 12, (m + 1) % 12) + 1 - 1
  BY DEF Dates!UTCDate
<1> HIDE DEF z, k
<1>5. Dates!MonthStart(z, k) \in Int
  BY <1>1, MonthsOfAYear
<1>6. Dates!UTCDate(y, m + 1, 1) = IF k = 11 THEN Dates!YearStart(z + 1) ELSE Dates!MonthStart(z, k + 1)
  <2>1. CASE k = 11
    <3>1. Dates!MonthStart(z + 1, 0) \in Int /\ Dates!MonthStart(z + 1, 0) = Dates!YearStart(z + 1)
      BY <1>1, MonthsOfAYear
    <3> QED BY <1>2, <1>4, <2>1, <3>1
  <2>2. CASE k # 11
    <3>1. k + 1 \in 0..11
      BY <1>1, <2>2
    <3>2. Dates!MonthStart(z, k + 1) \in Int
      BY <1>1, <3>1, MonthsOfAYear
    <3> QED BY <1>2, <1>4, <2>2, <3>2
  <2> QED BY <2>1, <2>2
<1>7. Dates!UTCDate(y, m, 1) = Dates!MonthStart(z, k)
  BY <1>3, <1>5
<1> QED
  BY <1>1, <1>3, <1>6, <1>7

\* A day between the first of a month and that of the next is of that month.
LEMMA MonthOfDay ==
    ASSUME NEW n \in Int, NEW y \in Int, NEW m \in 0..11,
           Dates!MonthStart(y, m) <= n,
           n < IF m = 11 THEN Dates!YearStart(y + 1) ELSE Dates!MonthStart(y, m + 1)
    PROVE  Dates!Year(n) = y /\ Dates!Month(n) = m
<1>1. PICK b \in Int, c \in Int : b = Dates!YearStart(y) /\ c = Dates!YearStart(y + 1)
  BY YearStartBounds
<1>2. b <= n /\ n < c
  <2>1. /\ Dates!MonthStart(y, m) \in Int /\ b + 31 * (m - 1) <= Dates!MonthStart(y, m)
        /\ m = 0 => Dates!MonthStart(y, m) = b
    BY <1>1, MonthsOfAYear
  <2>2. b <= n
    BY <2>1
  <2>3. c = b + 365 \/ c = b + 366
    BY <1>1, YearLength
  <2>4. CASE m = 11
    BY <1>1, <2>2, <2>4
  <2>5. CASE m # 11
    <3>1. m + 1 \in 0..11
      BY <2>5
    <3>2. PICK d \in Int : d = Dates!MonthStart(y, m + 1) /\ d <= b + 31 * (m + 1)
      BY <1>1, <3>1, MonthsOfAYear
    <3>3. n < d /\ d < c
      BY <2>3, <2>5, <3>1, <3>2
    <3> QED BY <2>2, <3>2, <3>3
  <2> QED BY <2>4, <2>5
<1>3. Dates!Year(n) = y
  <2>1. PICK z : z = Dates!Year(n)
    OBVIOUS
  <2>2. z \in Int /\ Dates!YearStart(z) <= n /\ n < Dates!YearStart(z + 1)
    BY <2>1, YearOfDay
  <2>3. PICK e \in Int : e = Dates!YearStart(z)
    BY <2>2, YearStartBounds
  <2>4. PICK f \in Int : f = Dates!YearStart(z + 1)
    <3>1. z + 1 \in Int
      BY <2>2
    <3> QED BY <3>1, YearStartBounds
  <2>5. z < y => f <= b
    BY <1>1, <2>2, <2>4, YearsInOrder
  <2>6. y < z => c <= e
    BY <1>1, <2>2, <2>3, YearsInOrder
  <2>7. ~(z < y) /\ ~(y < z)
    BY <1>2, <2>2, <2>3, <2>4, <2>5, <2>6
  <2> QED BY <2>1, <2>2, <2>7
<1>4. Dates!Month(n) = m
  <2> DEFINE k == (n - b) \div 31
  <2>1. Dates!Month(n) = IF k < 11 /\ Dates!MonthStart(y, k + 1) <= n THEN k + 1 ELSE k
    BY <1>1, <1>3 DEF Dates!Month
  <2>2. k \in Int /\ 31 * k <= n - b /\ n - b < 31 * k + 31
    OBVIOUS
  <2> HIDE DEF k
  <2>3. PICK a \in Int : a = Dates!MonthStart(y, m) /\ b + 31 * (m - 1) <= a
    BY <1>1, MonthsOfAYear
  <2>4. m - 1 <= k
    <3>1. a <= n /\ 31 * (m - 1) <= n - b
      BY <2>3
    <3> QED BY <2>2, <3>1
  <2>5. k <= m
    <3>1. CASE m # 11
      <4>1. m + 1 \in 0..11
        BY <3>1
      <4>2. PICK d \in Int : d = Dates!MonthStart(y, m + 1) /\ d <= b + 31 * (m + 1)
        BY <1>1, <4>1, MonthsOfAYear
      <4>3. n < d
        BY <3>1, <4>2
      <4> QED BY <2>2, <4>2, <4>3
    <3>2. CASE m = 11
      <4>1. c = b + 365 \/ c = b + 366
        BY <1>1, YearLength
      <4> QED BY <1>2, <2>2, <3>2, <4>1
    <3> QED BY <3>1, <3>2
  <2>6. CASE k = m
    <3>1. CASE m = 11
      BY <2>1, <2>6, <3>1
    <3>2. CASE m # 11
      <4>1. m + 1 \in 0..11
        BY <3>2
      <4>2. PICK d \in Int : d = Dates!MonthStart(y, m + 1)
        BY <4>1, MonthsOfAYear
      <4>3. ~(d <= n)
        BY <3>2, <4>2
      <4> QED BY <2>1, <2>6, <4>2, <4>3
    <3> QED BY <3>1, <3>2
  <2>7. CASE k = m - 1
    <3>1. k + 1 = m /\ k < 11
      BY <2>7
    <3> QED BY <2>1, <3>1
  <2> QED BY <2>2, <2>4, <2>5, <2>6, <2>7
<1> QED BY <1>3, <1>4

LEMMA MonthLength ==
    ASSUME NEW y \in Int, NEW m \in -1..13
    PROVE  /\ Dates!UTCDate(y, m, 1) \in Int
           /\ Dates!UTCDate(y, m, 1) + 28 <= Dates!UTCDate(y, m + 1, 1)
           /\ Dates!UTCDate(y, m, 0) = Dates!UTCDate(y, m, 1) - 1
<1>1. PICK z \in Int, k \in 0..11 :
         /\ \A d \in Int : Dates!UTCDate(y, m, d) = Dates!MonthStart(z, k) + d - 1
         /\ Dates!UTCDate(y, m, 1) = Dates!MonthStart(z, k)
         /\ Dates!UTCDate(y, m + 1, 1)
               = IF k = 11 THEN Dates!YearStart(z + 1) ELSE Dates!MonthStart(z, k + 1)
  BY FirstOfMonth
<1>2. PICK f \in Int : f = Dates!MonthStart(z, k)
  BY MonthsOfAYear
<1>3. k = 11 => f + 31 = Dates!YearStart(z + 1)
  BY <1>2, MonthsOfAYear
<1>4. k < 11 => f + 28 <= Dates!MonthStart(z, k + 1)
  BY <1>2, MonthsOfAYear
<1>5. f + 28 <= Dates!UTCDate(y, m + 1, 1)
  <2>1. CASE k = 11
    <3>1. f + 28 <= f + 31
      BY <1>2
    <3> QED BY <1>1, <1>3, <2>1, <3>1
  <2>2. CASE k # 11
    BY <1>1, <1>4, <2>2
  <2> QED BY <2>1, <2>2
<1> QED
  BY <1>1, <1>2, <1>5

LEMMA MonthOfAYear == ASSUME NEW n \in Int PROVE Dates!Month(n) \in 0..11
<1>1. PICK y \in Int : y = Dates!Year(n) /\ Dates!YearStart(y) <= n /\ n < Dates!YearStart(y + 1)
  BY YearOfDay
<1>2. PICK b \in Int : b = Dates!YearStart(y)
  BY YearStartBounds
<1>3. n < b + 366
  <2>1. Dates!YearStart(y + 1) = b + 366 \/ Dates!YearStart(y + 1) = b + 365
    BY <1>2, YearLength
  <2> QED BY <1>1, <1>2, <2>1
<1> DEFINE k == (n - b) \div 31
<1>4. k \in 0..11
  <2>1. PICK d \in Int : d = n - b /\ 0 <= d /\ d < 366
    BY <1>1, <1>2, <1>3
  <2>2. d \div 31 \in 0..11
    BY <2>1
  <2> QED BY <2>1, <2>2
<1>5. Dates!Month(n) = IF k < 11 /\ Dates!MonthStart(y, k + 1) <= n THEN k + 1 ELSE k
  BY <1>1, <1>2 DEF Dates!Month
<1> HIDE DEF k
<1> QED
  BY <1>4, <1>5

\* A day of the calendar's six weeks is the date put together of its number and its class.
LEMMA CellIsItsDay ==
    ASSUME NEW v \in Int, NEW n \in Dates!Grid(v)
    PROVE  Dates!CellDate(v, n) = n /\ n \in Int
<1>1. PICK y \in Int, m \in 0..11 : y = Dates!Year(v) /\ m = Dates!Month(v)
  BY YearOfDay, MonthOfAYear
<1>2. ASSUME NEW shift \in -1..1, n \in Int,
             Dates!UTCDate(y, m + shift, 1) <= n, n < Dates!UTCDate(y, m + shift + 1, 1)
      PROVE  Dates!UTCDate(y, m + shift, Dates!Day(n)) = n
  <2>1. PICK l \in -1..13 : l = m + shift
    BY <1>2
  <2>2. PICK z \in Int, k \in 0..11 :
           /\ \A d \in Int : Dates!UTCDate(y, l, d) = Dates!MonthStart(z, k) + d - 1
           /\ Dates!UTCDate(y, l, 1) = Dates!MonthStart(z, k)
           /\ Dates!UTCDate(y, l + 1, 1)
                 = IF k = 11 THEN Dates!YearStart(z + 1) ELSE Dates!MonthStart(z, k + 1)
    BY FirstOfMonth
  <2>3. Dates!Year(n) = z /\ Dates!Month(n) = k
    <3>1. l + 1 = m + shift + 1
      BY <2>1
    <3>2. Dates!UTCDate(y, l, 1) <= n /\ n < Dates!UTCDate(y, l + 1, 1)
      BY <1>2, <2>1, <3>1
    <3>3. /\ Dates!MonthStart(z, k) <= n
          /\ n < IF k = 11 THEN Dates!YearStart(z + 1) ELSE Dates!MonthStart(z, k + 1)
      BY <2>2, <3>2
    <3> QED BY <1>2, <3>3, MonthOfDay
  <2>4. PICK f \in Int : f = Dates!MonthStart(z, k)
    BY MonthsOfAYear
  <2>5. Dates!Day(n) = n - f + 1 /\ n - f + 1 \in Int
    BY <1>2, <2>3, <2>4 DEF Dates!Day
  <2>6. Dates!UTCDate(y, l, n - f + 1) = f + (n - f + 1) - 1
    BY <2>2, <2>4, <2>5
  <2> QED
    BY <1>2, <2>1, <2>5, <2>6
<1>3. m - 1 \in -1..13 /\ m + 1 \in -1..13 /\ m \in -1..13 /\ (m - 1) + 1 = m /\ (m + 1) + 1 = m + 2
  OBVIOUS
<1>4. PICK first \in Int : first = Dates!UTCDate(y, m, 1) /\ Dates!UTCDate(y, m, 0) = first - 1
  BY <1>3, MonthLength
<1>5. PICK prev \in Int : prev = Dates!UTCDate(y, m - 1, 1) /\ prev + 28 <= first
  BY <1>3, <1>4, MonthLength
<1>6. PICK next \in Int : next = Dates!UTCDate(y, m + 1, 1) /\ first + 28 <= next
  BY <1>3, <1>4, MonthLength
<1>7. PICK after : after = Dates!UTCDate(y, m + 2, 1) /\ next + 28 <= after
  BY <1>3, <1>6, MonthLength
<1>8. PICK w \in 0..6 : w = Dates!WeekDay(first - 1)
  BY DEF Dates!WeekDay
<1>9. Dates!Grid(v) = (first - 1 - w)..(first - 1 - w + 41)
  BY <1>1, <1>4, <1>8 DEF Dates!Grid, Dates!GridStart
<1>10. n \in Int /\ first - 7 <= n /\ n <= first + 40
  BY <1>9
<1>11. PICK shift : shift = IF n < first THEN -1 ELSE IF n < next THEN 0 ELSE 1
  OBVIOUS
<1>12. Dates!CellDate(v, n) = Dates!UTCDate(y, m + shift, Dates!Day(n))
  BY <1>1, <1>4, <1>6, <1>11 DEF Dates!CellDate
<1>13. PICK a \in Int, b \in Int : /\ a = m + shift /\ b = m + shift + 1
                                  /\ Dates!UTCDate(y, a, 1) <= n /\ n < Dates!UTCDate(y, b, 1)
  <2>1. CASE n < first
    <3>1. m + shift = m - 1 /\ m + shift + 1 = m
      BY <1>11, <2>1
    <3>2. prev <= n
      BY <1>5, <1>10
    <3> QED BY <1>4, <1>5, <2>1, <3>1, <3>2
  <2>2. CASE ~(n < first) /\ n < next
    <3>1. m + shift = m /\ m + shift + 1 = m + 1
      BY <1>11, <2>2
    <3>2. first <= n
      BY <1>10, <2>2
    <3> QED BY <1>4, <1>6, <2>2, <3>1, <3>2
  <2>3. CASE ~(n < first) /\ ~(n < next)
    <3>1. m + shift = m + 1 /\ m + shift + 1 = m + 2
      BY <1>11, <2>3
    <3>2. next <= n
      BY <1>6, <1>10, <2>3
    <3>3. after \in Int
      <4>1. m + 2 \in -1..13
        OBVIOUS
      <4> QED BY <1>7, <4>1, MonthLength
    <3>4. n < after
      BY <1>6, <1>7, <1>10, <3>3
    <3> QED BY <1>6, <1>7, <3>1, <3>2, <3>4
  <2> QED BY <2>1, <2>2, <2>3
<1>14. shift \in -1..1
  BY <1>11
<1> QED BY <1>2, <1>10, <1>12, <1>13, <1>14

-----------------------------------------------------------------------------
(* Induction over the numbers, for the one recursive definition.  *)

\* Every set of natural numbers has a least one.
LEMMA LeastNatural ==
    ASSUME NEW T \in SUBSET Nat, T # {}
    PROVE  \E x \in T : \A y \in T : ~(y < x)
<1>1. IsWellFoundedOn(OpToRel(<, Nat), Nat)
  BY NatLessThanWellFounded
<1>2. PICK x \in T : \A y \in T : ~ (<<y, x>> \in OpToRel(<, Nat))
  BY <1>1, WFMin
<1>3. \A y \in T : y < x => <<y, x>> \in OpToRel(<, Nat)
  BY Zenon DEF OpToRel
<1> QED BY <1>2, <1>3

\* What holds of 0, and of n + 1 when of n, holds of every number: stated of a set of numbers.
LEMMA Induction ==
    ASSUME NEW S, 0 \in S, \A n \in Nat : n \in S => n + 1 \in S
    PROVE  Nat \subseteq S
<1> SUFFICES ASSUME Nat \ S # {} PROVE FALSE
  OBVIOUS
<1>1. PICK n \in Nat \ S : \A y \in Nat \ S : ~(y < n)
  BY LeastNatural
<1>2. n # 0 /\ n - 1 \in Nat
  BY <1>1
<1>3. n - 1 \in S
  BY <1>1, <1>2
<1> QED BY <1>1, <1>2, <1>3

\* What grep keeps are dates it was given, and in range.
LEMMA GrepKeeps ==
    ASSUME NEW S, NEW dates \in Seq(S)
    PROVE  /\ Dates!grep(dates) \in Seq({d \in S : Dates!dateWithinRange(d)})
           /\ dates = <<>> => Dates!grep(dates) = <<>>
<1> DEFINE G == {d \in S : Dates!dateWithinRange(d)}
           N == Len(dates)
           Step(n, before) == IF Dates!dateWithinRange(dates[n]) THEN Append(before, dates[n])
                                                                  ELSE before
           Is(f, m) == f = [n \in 0..m |-> IF n = 0 THEN <<>> ELSE Step(n, f[n - 1])]
<1>1. N \in Nat /\ \A n \in 1..N : dates[n] \in S
  OBVIOUS
<1>2. \A n \in 1..N : \A before \in Seq(G) : Step(n, before) \in Seq(G)
  BY <1>1
<1> HIDE DEF Step
<1>3. \E f : Is(f, N)
  <2> DEFINE Done == {m \in Nat : m <= N => \E f : Is(f, m)}
  <2>1. 0 \in Done
    <3>1. Is([n \in 0..0 |-> <<>>], 0)
      OBVIOUS
    <3> QED BY <3>1
  <2>2. ASSUME NEW m \in Nat, m \in Done, m + 1 <= N PROVE \E f : Is(f, m + 1)
    <3>1. PICK f : Is(f, m)
      BY <1>1, <2>2
    <3> DEFINE g == [n \in 0..(m + 1) |-> IF n = m + 1 THEN Step(n, f[m]) ELSE f[n]]
    <3>2. \A n \in 0..(m + 1) : g[n] = IF n = 0 THEN <<>> ELSE Step(n, g[n - 1])
      <4>1. \A n \in 0..m : f[n] = IF n = 0 THEN <<>> ELSE Step(n, f[n - 1])
        BY <3>1
      <4>2. \A n \in 0..m : g[n] = f[n]
        OBVIOUS
      <4>3. g[m + 1] = Step(m + 1, f[m])
        OBVIOUS
      <4> HIDE DEF g
      <4>4. ASSUME NEW n \in 0..(m + 1) PROVE g[n] = IF n = 0 THEN <<>> ELSE Step(n, g[n - 1])
        <5>1. CASE n = m + 1
          <6>1. n # 0 /\ n - 1 = m /\ g[m] = f[m]
            BY <4>2, <5>1
          <6> QED BY <4>3, <5>1, <6>1
        <5>2. CASE n = 0
          BY <4>1, <4>2, <5>2
        <5>3. CASE n \in 1..m
          <6>1. n \in 0..m /\ n - 1 \in 0..m /\ n # 0
            BY <5>3
          <6> QED BY <4>1, <4>2, <6>1
        <5> QED BY <5>1, <5>2, <5>3
      <4> QED BY <4>4
    <3>3. g = [n \in 0..(m + 1) |-> g[n]]
      OBVIOUS
    <3> HIDE DEF g
    <3>4. Is(g, m + 1)
      BY <3>2, <3>3
    <3> QED BY <3>4
  <2>3. \A m \in Nat : m \in Done => m + 1 \in Done
    BY <2>2
  <2> HIDE DEF Done
  <2>4. Nat \subseteq Done
    BY <2>1, <2>3, Induction
  <2> QED
    BY <1>1, <2>4 DEF Done
<1> DEFINE kept == CHOOSE f : Is(f, N)
<1>4. Is(kept, N)
  BY <1>3
<1>5. Dates!grep(dates) = kept[N]
  BY DEF Dates!grep, Step
<1> HIDE DEF kept
<1>6. \A n \in 0..N : kept[n] = IF n = 0 THEN <<>> ELSE Step(n, kept[n - 1])
  BY <1>4
<1>7. \A n \in 0..N : kept[n] \in Seq(G)
  <2> DEFINE Done == {m \in Nat : m <= N => kept[m] \in Seq(G)}
  <2>1. 0 \in Done
    <3>1. kept[0] = <<>>
      BY <1>1, <1>6
    <3>2. <<>> \in Seq(G)
      BY EmptySeq
    <3> QED BY <3>1, <3>2
  <2>2. ASSUME NEW m \in Nat, m \in Done PROVE m + 1 \in Done
    <3>1. CASE m + 1 <= N
      <4>1. kept[m + 1] = Step(m + 1, kept[m]) /\ kept[m] \in Seq(G) /\ m + 1 \in 1..N
        BY <1>1, <1>6, <2>2, <3>1
      <4> QED BY <1>2, <4>1
    <3> QED BY <3>1
  <2> HIDE DEF Done
  <2>3. Nat \subseteq Done
    BY <2>1, <2>2, Induction
  <2> QED
    BY <1>1, <2>3 DEF Done
<1>8. dates = <<>> => kept[N] = <<>>
  BY <1>1, <1>6
<1> QED
  BY <1>1, <1>5, <1>7, <1>8

-----------------------------------------------------------------------------
(* Date pickers.  What the methods keep of a picker. *)

Picker(t) == DOMAIN t = {"dates", "viewDate", "focusDate", "shared", "viewMode", "visible",
                         "text", "prev", "next", "usage"}

\* The same field, dates and visibility.
Alike(t, r) == /\ Picker(r)
               /\ r.dates = t.dates /\ r.text = t.text /\ r.visible = t.visible
               /\ r.usage = t.usage

\* The same moment to show, too.
Same(t, r) == /\ Alike(t, r)
              /\ r.shared = t.shared /\ r.viewDate = t.viewDate /\ r.focusDate = t.focusDate

LEMMA ArrowsKeep ==
    ASSUME NEW t, Picker(t)
    PROVE  /\ Same(t, Dates!updateNavArrows(t)) /\ Dates!updateNavArrows(t).viewMode = t.viewMode
           /\ Same(t, Dates!fill(t)) /\ Dates!fill(t).viewMode = t.viewMode
<1>1. ASSUME NEW a, NEW b
      PROVE  LET r == [t EXCEPT !.prev = a, !.next = b] IN Same(t, r) /\ r.viewMode = t.viewMode
  BY DEF Same, Alike, Picker
<1> QED
  BY <1>1 DEF Dates!updateNavArrows, Dates!fill

LEMMA ModeKeeps ==
    ASSUME NEW t, Picker(t), NEW dir \in Int
    PROVE  /\ Same(t, Dates!showMode(t, dir))
           /\ t.viewMode \in 0..2 => Dates!showMode(t, dir).viewMode \in 0..2
<1>1. PICK up : up = IF t.viewMode + dir > 2 THEN 2 ELSE t.viewMode + dir
  OBVIOUS
<1>2. PICK mode : mode = IF up < 0 THEN 0 ELSE up
  OBVIOUS
<1>3. PICK r : r = [t EXCEPT !.viewMode = mode]
  OBVIOUS
<1>4. Same(t, r) /\ r.viewMode = mode
  BY <1>3 DEF Same, Alike, Picker
<1>5. Dates!showMode(t, dir) = Dates!updateNavArrows(r)
  BY <1>1, <1>2, <1>3 DEF Dates!showMode
<1>6. Same(r, Dates!updateNavArrows(r)) /\ Dates!updateNavArrows(r).viewMode = mode
  BY <1>4, ArrowsKeep DEF Same, Alike
<1>7. t.viewMode \in 0..2 => mode \in 0..2
  BY <1>1, <1>2
<1> QED
  BY <1>4, <1>5, <1>6, <1>7 DEF Same, Alike

LEMMA Blanks == ASSUME NEW dates PROVE Dates!Written(dates) = Dates!Blank <=> dates = <<>>
<1>1. Dates!Written(dates).dates = dates /\ Dates!Written(<<>>).dates = <<>>
  BY DEF Dates!Written
<1> QED BY <1>1 DEF Dates!Blank

LEMMA ValueKeeps ==
    ASSUME NEW t, Picker(t)
    PROVE  LET r == Dates!setValue(t)
           IN  /\ Picker(r) /\ r.text = Dates!Written(t.dates)
               /\ r.dates = t.dates /\ r.visible = t.visible /\ r.usage = t.usage
               /\ r.shared = t.shared /\ r.viewDate = t.viewDate /\ r.focusDate = t.focusDate
               /\ r.viewMode = t.viewMode
  BY DEF Dates!setValue, Picker

\* A blank field goes with no date.
Honest(t) == Picker(t) /\ (t.text = Dates!Blank => t.dates = <<>>)

LEMMA ValueIsHonest ==
    ASSUME NEW t, Picker(t) PROVE Honest(Dates!setValue(t))
  BY ValueKeeps, Blanks DEF Honest

\* Hidden, a picker that was shown has written its dates.
LEMMA HideKeepsDates ==
    ASSUME NEW t, Honest(t)
    PROVE  LET r == Dates!hide(t)
           IN  /\ Honest(r) /\ r.dates = t.dates /\ r.usage = t.usage /\ r.viewDate = t.viewDate
               /\ r.shared \subseteq t.shared
               /\ r.focusDate \in {t.focusDate, Dates!NoDate}
               /\ t.viewMode \in 0..2 => r.viewMode \in 0..2
               /\ t.visible => ~r.visible /\ r.text = Dates!Written(r.dates)
               /\ ~t.visible => r = t
<1>1. CASE ~t.visible
  BY <1>1 DEF Dates!hide
<1>2. CASE t.visible
  <2>1. PICK g : g = [t EXCEPT !.focusDate = Dates!NoDate, !.visible = FALSE]
    OBVIOUS
  <2>2. PICK us : us = t.shared \ {"focusDate"}
    OBVIOUS
  <2>3. PICK k : k = [g EXCEPT !.shared = us, !.viewMode = 0]
    OBVIOUS
  <2>4. k = [t EXCEPT !.focusDate = Dates!NoDate, !.visible = FALSE,
                      !.shared = @ \ {"focusDate"}, !.viewMode = 0]
    BY <2>1, <2>2, <2>3 DEF Honest, Picker
  <2>5. /\ Picker(g) /\ g.dates = t.dates /\ g.text = t.text /\ g.usage = t.usage
        /\ g.viewDate = t.viewDate /\ ~g.visible /\ g.focusDate = Dates!NoDate
    BY <2>1 DEF Honest, Picker
  <2>6. /\ Picker(k) /\ k.dates = t.dates /\ k.text = t.text /\ k.usage = t.usage
        /\ k.viewDate = t.viewDate /\ ~k.visible /\ k.focusDate = Dates!NoDate
        /\ k.shared = us /\ k.viewMode = 0
    BY <2>3, <2>5 DEF Picker
  <2>7. PICK h : h = Dates!showMode(k, 0) /\ Same(k, h) /\ h.viewMode \in 0..2
    BY <2>6, ModeKeeps
  <2>8. Dates!hide(t) = IF h.text = Dates!Blank THEN h ELSE Dates!setValue(h)
    BY <1>2, <2>4, <2>7 DEF Dates!hide
  <2>9. us \subseteq t.shared
    BY <2>2
  <2>10. CASE h.text = Dates!Blank
    <3>1. h.dates = <<>> /\ h.text = Dates!Written(h.dates)
      BY <2>6, <2>7, <2>10 DEF Same, Alike, Honest, Dates!Blank
    <3> QED
      BY <1>2, <2>6, <2>7, <2>8, <2>9, <2>10, <3>1 DEF Same, Alike, Honest
  <2>11. CASE h.text # Dates!Blank
    BY <1>2, <2>6, <2>7, <2>8, <2>9, <2>11, ValueKeeps, ValueIsHonest DEF Same, Alike
  <2> QED BY <2>10, <2>11
<1> QED BY <1>1, <1>2

\* The listeners, told of the dates, keep the day of the last; else they keep what they had.
Told(t) == Dates!Listens /\ t.dates # <<>> => t.usage = Dates!Usage(Dates!last(t.dates))

LEMMA TriggerTells ==
    ASSUME NEW t, Picker(t)
    PROVE  LET r == Dates!trigger(t)
           IN  /\ Picker(r) /\ Told(r)
               /\ r.dates = t.dates /\ r.text = t.text /\ r.visible = t.visible
               /\ r.shared = t.shared /\ r.viewDate = t.viewDate /\ r.focusDate = t.focusDate
               /\ r.viewMode = t.viewMode
<1>1. CASE Dates!Listens /\ t.dates # <<>>
  <2>1. PICK day : day = Dates!Usage(Dates!last(t.dates))
    OBVIOUS
  <2>2. Dates!trigger(t) = [t EXCEPT !.usage = day]
    BY <1>1, <2>1 DEF Dates!trigger
  <2> QED BY <2>1, <2>2 DEF Picker, Told
<1>2. CASE ~(Dates!Listens /\ t.dates # <<>>)
  BY <1>2 DEF Dates!trigger, Told
<1> QED BY <1>1, <1>2

\* Whatever it is called with, a UTCDate is a day.
LEMMA UTCDateIsADay ==
    ASSUME NEW y \in Int, NEW m \in Int, NEW d \in Int PROVE Dates!UTCDate(y, m, d) \in Int
<1>1. y + m \div 12 \in Int /\ m % 12 \in 0..11
  OBVIOUS
<1>2. Dates!MonthStart(y + m \div 12, m % 12) \in Int
  BY <1>1, MonthsOfAYear
<1> QED BY <1>2 DEF Dates!UTCDate

LEMMA MoveMonthIsADay ==
    ASSUME NEW n \in Int, NEW dir \in Int PROVE Dates!moveMonth(n, dir) \in Int
<1>1. PICK y \in Int, m \in 0..11 : y = Dates!Year(n) /\ m = Dates!Month(n)
  BY YearOfDay, MonthOfAYear
<1>2. PICK first \in Int : first = Dates!UTCDate(y, m + dir, 1)
  <2>1. PICK i \in Int : i = m + dir
    OBVIOUS
  <2>2. Dates!UTCDate(y, i, 1) \in Int
    BY UTCDateIsADay
  <2> QED BY <2>1, <2>2
<1>3. PICK z \in Int, k \in 0..11 : z = Dates!Year(first) /\ k = Dates!Month(first)
  BY <1>2, YearOfDay, MonthOfAYear
<1>4. PICK last \in Int : last = Dates!getDaysInMonth(z, k)
  BY DEF Dates!getDaysInMonth
<1>5. PICK day \in Int : day = Dates!Day(n)
  <2>1. Dates!MonthStart(y, m) \in Int
    BY MonthsOfAYear
  <2> QED BY <1>1, <2>1 DEF Dates!Day
<1>6. Dates!moveMonth(n, dir) = IF dir = 0 THEN n ELSE first + (IF day < last THEN day ELSE last) - 1
  BY <1>1, <1>2, <1>3, <1>4, <1>5 DEF Dates!moveMonth
<1> QED BY <1>2, <1>4, <1>5, <1>6

LEMMA SeqInclusion ==
    ASSUME NEW S, NEW T, S \subseteq T, NEW q \in Seq(S) PROVE q \in Seq(T)
  OBVIOUS

-----------------------------------------------------------------------------
(* Without the keyboard the selected dates are in range, and viewDate is a Date of its own. *)

InRange == {d \in Int : Dates!dateWithinRange(d)}

FieldText(x) ==
    /\ x.kind \in {"written", "plain", "garbage"}
    /\ x.dates \in Seq(Int)
    /\ x.typed = <<>> \/ x.typed \in Int \X Int \X Int

Moused(t) ==
    /\ Picker(t)
    /\ "date" \notin t.shared
    /\ t.dates \in Seq(InRange)
    /\ t.viewDate \in Int
    /\ t.viewMode \in 0..2
    /\ FieldText(t.text)

Clock == now \in Int /\ o.startDate \in Int /\ o.endDate \in Int

LEMMA TodayIsADay ==
    ASSUME now \in Int PROVE Dates!UTCToday \in Int /\ Dates!ZeroDay \in Int
  BY PortalAssumption
     DEF PortalAssumption, Dates!UTCToday, Dates!LocalToday, Dates!ZeroDay, Dates!At, Dates!DayOf, Dates!Hours

LEMMA PiecesParse ==
    ASSUME now \in Int, NEW x, FieldText(x)
    PROVE  LET pieces == Dates!Pieces(x)
           IN  [i \in 1..Len(pieces) |-> Dates!parseDate(pieces[i])] \in Seq(Int)
<1> DEFINE Piece == {<<>>} \cup (Int \X Int \X Int)
<1>1. ASSUME NEW piece \in Piece PROVE Dates!parseDate(piece) \in Int
  <2>1. CASE piece = <<>>
    BY <2>1, TodayIsADay DEF Dates!parseDate
  <2>2. CASE piece # <<>>
    <3>1. piece[1] \in Int /\ piece[2] \in Int /\ piece[3] \in Int
      BY <1>1, <2>2
    <3>2. (piece[2] - 1) % 12 \in Int
      BY <3>1
    <3>3. Dates!UTCDate(piece[1], (piece[2] - 1) % 12, piece[3]) \in Int
      BY <3>1, <3>2, UTCDateIsADay
    <3> QED BY <2>2, <3>3 DEF Dates!parseDate, Dates!At, Dates!Hours
  <2> QED BY <2>1, <2>2
<1>2. Dates!Pieces(x) \in Seq(Piece)
  <2>1. CASE x.kind = "written"
    <3>1. PICK n \in Nat : n = 2 * Len(x.dates)
      BY DEF FieldText
    <3>2. Dates!Pieces(x) = [i \in 1..n |-> <<>>]
      BY <2>1, <3>1 DEF Dates!Pieces
    <3> QED BY <3>2
  <2>2. CASE x.kind = "plain"
    <3>1. Dates!Pieces(x) = <<x.typed>> /\ x.typed \in Piece
      BY <2>2 DEF Dates!Pieces, FieldText
    <3> QED BY <3>1
  <2>3. CASE x.kind = "garbage"
    <3>1. Dates!Pieces(x) = <<<<>>>> /\ <<>> \in Piece
      BY <2>3 DEF Dates!Pieces
    <3> QED BY <3>1
  <2> QED BY <2>1, <2>2, <2>3 DEF FieldText
<1>3. PICK pieces \in Seq(Piece) : pieces = Dates!Pieces(x)
  BY <1>2
<1>4. \A i \in 1..Len(pieces) : Dates!parseDate(pieces[i]) \in Int
  BY <1>1, <1>3
<1>5. [i \in 1..Len(pieces) |-> Dates!parseDate(pieces[i])] \in Seq(Int)
  BY <1>3, <1>4
<1> QED BY <1>3, <1>5

\* The dates update() has read are those in range; viewDate becomes a Date of its own.
LEMMA ReplaceKeeps ==
    ASSUME NEW t, Picker(t), NEW dates
    PROVE  LET r == Dates!Replace(t, dates)
           IN  /\ Picker(r) /\ r.dates = Dates!grep(dates)
               /\ r.text = t.text /\ r.visible = t.visible /\ r.usage = t.usage
               /\ r.viewMode = t.viewMode /\ "date" \notin r.shared
               /\ Dates!grep(dates) # <<>> => r.viewDate = Dates!last(Dates!grep(dates))
               /\ Dates!grep(dates) = <<>> => r.viewDate \in {t.viewDate, o.startDate, o.endDate}
<1>1. PICK kept, us, date, e :
         /\ kept = Dates!grep(dates)
         /\ us = IF kept # <<>> \/ ~Dates!dateWithinRange(t.viewDate) THEN {} ELSE t.shared \ {"date"}
         /\ e = t.viewDate
         /\ date = IF kept # <<>> THEN Dates!last(kept)
                    ELSE IF e < o.startDate THEN o.startDate
                    ELSE IF e > o.endDate THEN o.endDate ELSE e
  OBVIOUS
<1>2. PICK r : r = [t EXCEPT !.dates = kept, !.shared = us, !.viewDate = date]
  OBVIOUS
<1>3. Dates!Replace(t, dates) = r
  BY <1>1, <1>2 DEF Dates!Replace, Picker
<1>4. /\ Picker(r) /\ r.dates = kept /\ r.text = t.text /\ r.visible = t.visible
      /\ r.usage = t.usage /\ r.viewMode = t.viewMode /\ r.shared = us /\ r.viewDate = date
  BY <1>2 DEF Picker
<1>5. "date" \notin us
  BY <1>1
<1>6. /\ kept # <<>> => date = Dates!last(kept)
      /\ kept = <<>> => date \in {e, o.startDate, o.endDate}
  BY <1>1
<1> QED
  BY <1>1, <1>3, <1>4, <1>5, <1>6

LEMMA LastOfInts ==
    ASSUME NEW S, NEW dates \in Seq(S), dates # <<>> PROVE Dates!last(dates) \in S
  BY DEF Dates!last

LEMMA ReplaceIsMoused ==
    ASSUME Clock, NEW t, Picker(t), NEW dates \in Seq(Int),
           t.viewDate \in Int, t.viewMode \in 0..2, FieldText(t.text)
    PROVE  Moused(Dates!Replace(t, dates))
<1>1. PICK kept \in Seq(InRange) : kept = Dates!grep(dates)
  BY GrepKeeps DEF InRange
<1>2. InRange \subseteq Int
  BY DEF InRange
<1>3. kept # <<>> => Dates!last(kept) \in Int
  BY <1>2, LastOfInts
<1>4. PICK r : r = Dates!Replace(t, dates)
  OBVIOUS
<1>5. /\ Picker(r) /\ r.dates = kept /\ r.text = t.text /\ r.viewMode = t.viewMode
      /\ "date" \notin r.shared
      /\ kept # <<>> => r.viewDate = Dates!last(kept)
      /\ kept = <<>> => r.viewDate \in {t.viewDate, o.startDate, o.endDate}
  BY <1>1, <1>4, ReplaceKeeps
<1>6. r.viewDate \in Int
  BY <1>3, <1>5 DEF Clock
<1> QED
  BY <1>4, <1>5, <1>6 DEF Moused

\* What the field says is what is selected; whoever listens is told of a new date.
LEMMA TextUpdates ==
    ASSUME NEW t, Picker(t)
    PROVE  LET r == Dates!updateFromText(t)
           IN  /\ Honest(r) /\ r.text = t.text /\ r.visible = t.visible
               /\ "date" \notin r.shared
               /\ Told(r) \/ (r.dates = t.dates /\ r.usage = t.usage)
               /\ Clock /\ t.viewDate \in Int /\ t.viewMode \in 0..2 /\ FieldText(t.text) => Moused(r)
<1> DEFINE pieces == Dates!Pieces(t.text)
<1>1. PICK dates : dates = [i \in 1..Len(pieces) |-> Dates!parseDate(pieces[i])]
  OBVIOUS
<1>2. PICK r : r = Dates!Replace(t, dates)
  OBVIOUS
<1>3. PICK told : told = IF r.dates # <<>> /\ r.dates # t.dates THEN Dates!trigger(r) ELSE r
  OBVIOUS
<1>4. Dates!updateFromText(t) = Dates!fill(told)
  BY <1>1, <1>2, <1>3 DEF Dates!updateFromText
<1>5. /\ Picker(r) /\ r.dates = Dates!grep(dates)
      /\ r.text = t.text /\ r.visible = t.visible /\ r.usage = t.usage
      /\ r.viewMode = t.viewMode /\ "date" \notin r.shared
  BY <1>2, ReplaceKeeps
<1>6. /\ Picker(told) /\ told.dates = r.dates /\ told.text = r.text /\ told.visible = r.visible
      /\ told.shared = r.shared /\ told.viewDate = r.viewDate /\ told.viewMode = r.viewMode
      /\ Told(told) \/ (told.dates = t.dates /\ told.usage = t.usage)
  BY <1>3, <1>5, TriggerTells DEF Told
<1>7. PICK f : f = Dates!fill(told) /\ Same(told, f) /\ f.viewMode = told.viewMode
  BY <1>6, ArrowsKeep
<1>8. t.text = Dates!Blank => f.dates = <<>>
  <2> SUFFICES ASSUME t.text = Dates!Blank PROVE Dates!grep(dates) = <<>>
    BY <1>5, <1>6, <1>7 DEF Same, Alike
  <2>1. pieces = [i \in 1..(2 * Len(<<>>)) |-> <<>>]
    BY DEF Dates!Pieces, Dates!Blank, Dates!Written
  <2>2. pieces = <<>>
    BY <2>1
  <2> HIDE DEF pieces
  <2>3. dates = <<>>
    BY <1>1, <2>2
  <2>4. dates \in Seq(Int)
    BY <2>3
  <2> QED BY <2>3, <2>4, GrepKeeps
<1>9. ASSUME Clock, t.viewDate \in Int, t.viewMode \in 0..2, FieldText(t.text) PROVE Moused(f)
  <2>1. dates \in Seq(Int)
    BY <1>1, <1>9, PiecesParse DEF Clock
  <2>2. Moused(r)
    BY <1>2, <1>9, <2>1, ReplaceIsMoused
  <2> QED
    BY <1>6, <1>7, <2>2 DEF Moused, Same, Alike
<1> QED
  BY <1>4, <1>5, <1>6, <1>7, <1>8, <1>9 DEF Same, Alike, Honest, Told

LEMMA DateUpdates ==
    ASSUME NEW t, Picker(t), NEW date
    PROVE  LET r == Dates!updateFromDate(t, date)
           IN  /\ Honest(r) /\ r.dates = Dates!grep(<<date>>) /\ r.visible = t.visible
               /\ r.text = Dates!Written(r.dates)
               /\ Clock /\ date \in Int /\ Moused(t) => Moused(r)
<1>1. PICK r : r = Dates!Replace(t, <<date>>)
  OBVIOUS
<1>2. /\ Picker(r) /\ r.dates = Dates!grep(<<date>>) /\ r.visible = t.visible
      /\ r.viewMode = t.viewMode
  BY <1>1, ReplaceKeeps
<1>3. PICK v : v = Dates!setValue(r)
  OBVIOUS
<1>4. /\ Honest(v) /\ v.text = Dates!Written(r.dates)
      /\ v.dates = r.dates /\ v.visible = r.visible
      /\ v.shared = r.shared /\ v.viewDate = r.viewDate /\ v.viewMode = r.viewMode
  BY <1>2, <1>3, ValueKeeps, ValueIsHonest
<1>5. PICK f : f = Dates!fill(v) /\ Same(v, f) /\ f.viewMode = v.viewMode
  BY <1>4, ArrowsKeep DEF Honest
<1>6. Dates!updateFromDate(t, date) = f
  BY <1>1, <1>3, <1>5 DEF Dates!updateFromDate
<1>7. ASSUME Clock, date \in Int, Moused(t) PROVE Moused(f)
  <2>1. <<date>> \in Seq(Int)
    BY <1>7
  <2>2. Moused(r)
    BY <1>1, <1>7, <2>1, ReplaceIsMoused DEF Moused
  <2>3. r.dates \in Seq(Int)
    BY <2>2, SeqInclusion DEF Moused, InRange
  <2>4. FieldText(Dates!Written(r.dates))
    BY <2>3 DEF FieldText, Dates!Written
  <2> QED
    BY <1>4, <1>5, <2>2, <2>4 DEF Moused, Same, Alike
<1> QED
  BY <1>2, <1>4, <1>5, <1>6, <1>7 DEF Honest, Same, Alike

LEMMA ToggleKeeps ==
    ASSUME NEW t, Picker(t), NEW date
    PROVE  LET r == Dates!toggle_multidate(t, date)
           IN  /\ Picker(r)
               /\ r.text = t.text /\ r.visible = t.visible /\ r.usage = t.usage
               /\ r.viewDate = t.viewDate /\ r.viewMode = t.viewMode
               /\ r.shared \subseteq t.shared
               /\ \A S : t.dates \in Seq(S) /\ date \in S => r.dates \in Seq(S)
<1> DEFINE at == {i \in 1..Len(t.dates) : t.dates[i] = date}
           out == CHOOSE i \in at : \A j \in at : i <= j
           new == IF at # {} THEN Dates!RemoveAt(t.dates, out) ELSE Append(t.dates, date)
<1>1. ASSUME NEW S, t.dates \in Seq(S), date \in S
      PROVE  /\ new \in Seq(S) /\ (Len(new) > 1 => Dates!last(new) \in S)
  <2>1. CASE at = {}
    <3>1. new \in Seq(S)
      BY <1>1, <2>1
    <3> HIDE DEF new
    <3>2. Len(new) > 1 => Dates!last(new) \in S
      BY <3>1 DEF Dates!last
    <3> QED BY <3>1, <3>2
  <2>2. CASE at # {}
    <3>1. at \in SUBSET Nat
      BY <1>1
    <3>2. \E i \in at : \A j \in at : ~(j < i)
      BY <2>2, <3>1, LeastNatural
    <3>3. \E i \in at : \A j \in at : i <= j
      BY <3>1, <3>2
    <3>4. out \in at
      BY <3>3
    <3>5. out \in 1..Len(t.dates)
      BY <3>4
    <3> HIDE DEF out
    <3>6. Dates!RemoveAt(t.dates, out) \in Seq(S)
      BY <1>1, <3>5 DEF Dates!RemoveAt
    <3>7. new \in Seq(S)
      BY <2>2, <3>6
    <3> HIDE DEF new
    <3>8. Len(new) > 1 => Dates!last(new) \in S
      BY <3>7 DEF Dates!last
    <3> QED BY <3>7, <3>8
  <2> QED BY <2>1, <2>2
<1> DEFINE dates == IF Len(new) > 1 THEN <<Dates!last(new)>> ELSE new
           us == IF at = {} \/ out = Len(t.dates) THEN t.shared \ {"date"} ELSE t.shared
<1>4. Dates!toggle_multidate(t, date) = [t EXCEPT !.dates = dates, !.shared = us]
  BY DEF Dates!toggle_multidate, Picker
<1>5. us \subseteq t.shared
  OBVIOUS
<1> HIDE DEF at, out, new, us
<1>6. ASSUME NEW S, t.dates \in Seq(S), date \in S PROVE dates \in Seq(S)
  <2>1. new \in Seq(S) /\ (Len(new) > 1 => Dates!last(new) \in S)
    BY <1>1, <1>6
  <2> QED BY <2>1
<1> HIDE DEF dates
<1>7. PICK r : r = [t EXCEPT !.dates = dates, !.shared = us]
  OBVIOUS
<1>8. /\ Picker(r) /\ r.dates = dates /\ r.shared = us
      /\ r.text = t.text /\ r.visible = t.visible /\ r.usage = t.usage
      /\ r.viewDate = t.viewDate /\ r.viewMode = t.viewMode
  BY <1>7 DEF Picker
<1> QED
  BY <1>4, <1>5, <1>6, <1>7, <1>8

\* However a date is set, whoever listens is told, and hidden or not the field shows it.
LEMMA SetDateTells ==
    ASSUME NEW t, Picker(t), NEW date, NEW which
    PROVE  LET r == Dates!setDate(t, date, which)
           IN  /\ Honest(r) /\ Told(r)
               /\ r.visible \/ r.text = Dates!Written(r.dates)
               /\ which = "view" => r.dates = t.dates /\ r.visible = t.visible
               /\ Moused(t) /\ date \in Int /\ (which # "view" => date \in InRange) => Moused(r)
<1>1. PICK u : u = IF which = "view" THEN t ELSE Dates!toggle_multidate(t, date)
  OBVIOUS
<1>2. /\ Picker(u) /\ u.visible = t.visible /\ u.viewMode = t.viewMode /\ u.text = t.text
      /\ which = "view" => u.dates = t.dates
      /\ \A S : t.dates \in Seq(S) /\ (which # "view" => date \in S) => u.dates \in Seq(S)
  BY <1>1, ToggleKeeps
<1>3. PICK v : v = [u EXCEPT !.viewDate = date, !.shared = {}]
  OBVIOUS
<1>4. /\ Picker(v) /\ v.dates = u.dates /\ v.visible = u.visible /\ v.viewMode = u.viewMode
      /\ v.viewDate = date /\ v.shared = {}
  BY <1>2, <1>3 DEF Picker
<1>5. PICK f : f = Dates!fill(v) /\ Same(v, f) /\ f.viewMode = v.viewMode
  BY <1>4, ArrowsKeep
<1>6. PICK w : w = Dates!setValue(f)
  OBVIOUS
<1>7. /\ Honest(w) /\ w.text = Dates!Written(v.dates)
      /\ w.dates = v.dates /\ w.visible = v.visible
      /\ w.shared = {} /\ w.viewDate = date /\ w.viewMode = v.viewMode
  BY <1>4, <1>5, <1>6, ValueKeeps, ValueIsHonest DEF Same, Alike
<1>8. PICK c : c = Dates!trigger(w)
  OBVIOUS
<1>9. /\ Honest(c) /\ Told(c) /\ c.text = Dates!Written(c.dates)
      /\ c.dates = u.dates /\ c.visible = t.visible
      /\ c.shared = {} /\ c.viewDate = date /\ c.viewMode = t.viewMode
  BY <1>2, <1>4, <1>7, <1>8, TriggerTells DEF Honest
<1>10. PICK r : r = IF which = "view" \/ Dates!Throws(c) THEN c ELSE Dates!hide(c)
  OBVIOUS
<1>11. Dates!setDate(t, date, which) = r
  BY <1>1, <1>3, <1>5, <1>6, <1>8, <1>10 DEF Dates!setDate
<1>12. /\ Honest(r) /\ Told(r) /\ r.text = Dates!Written(r.dates)
       /\ r.dates = u.dates
       /\ which = "view" => r.visible = t.visible
       /\ r.shared = {} /\ r.viewDate = date /\ (t.viewMode \in 0..2 => r.viewMode \in 0..2)
  <2>1. CASE r = c
    BY <1>9, <2>1
  <2>2. CASE r = Dates!hide(c) /\ which # "view"
    <3>1. /\ Honest(r) /\ r.dates = c.dates /\ r.usage = c.usage /\ r.viewDate = c.viewDate
          /\ r.shared \subseteq c.shared
          /\ c.viewMode \in 0..2 => r.viewMode \in 0..2
          /\ r.text = c.text \/ r.text = Dates!Written(r.dates)
      BY <1>9, <2>2, HideKeepsDates
    <3>2. Told(r)
      BY <1>9, <3>1 DEF Told
    <3> QED BY <1>9, <2>2, <3>1, <3>2
  <2> QED BY <1>10, <2>1, <2>2
<1>13. ASSUME Moused(t), date \in Int, which # "view" => date \in InRange PROVE Moused(r)
  <2>1. r.dates \in Seq(InRange)
    BY <1>2, <1>12, <1>13 DEF Moused
  <2>2. r.dates \in Seq(Int)
    BY <2>1, SeqInclusion DEF InRange
  <2>3. FieldText(Dates!Written(r.dates))
    BY <2>2 DEF FieldText, Dates!Written
  <2> QED
    BY <1>12, <1>13, <2>1, <2>3 DEF Moused, Honest
<1> QED
  BY <1>2, <1>11, <1>12, <1>13

LEMMA SelectedKeeps ==
    ASSUME NEW t, Picker(t)
    PROVE  Alike(t, Dates!viewSelected(t))
<1>1. ASSUME NEW us PROVE Alike(t, [t EXCEPT !.shared = us])
  BY DEF Alike, Picker
<1>2. ASSUME NEW us, NEW date PROVE Alike(t, [t EXCEPT !.viewDate = date, !.shared = us])
  BY DEF Alike, Picker
<1> QED
  BY <1>1, <1>2 DEF Dates!viewSelected

\* What is done in place to viewDate is done to the selected date only if they are one Date.
LEMMA MutateKeeps ==
    ASSUME NEW t, Picker(t), NEW date
    PROVE  LET r == Dates!Mutate(t, date)
           IN  /\ Picker(r) /\ r.text = t.text /\ r.visible = t.visible /\ r.usage = t.usage
               /\ r.viewMode = t.viewMode /\ r.shared = t.shared /\ r.viewDate = date
               /\ t.dates = <<>> => r.dates = <<>>
               /\ "date" \notin t.shared => r.dates = t.dates
<1>1. PICK focus : focus = IF "focusDate" \in t.shared THEN date ELSE t.focusDate
  OBVIOUS
<1>2. PICK dates :
         dates = IF "date" \in t.shared THEN Dates!ReplaceAt(t.dates, Len(t.dates), date) ELSE t.dates
  OBVIOUS
<1>3. Dates!Mutate(t, date) = [t EXCEPT !.viewDate = date, !.focusDate = focus, !.dates = dates]
  BY <1>1, <1>2 DEF Dates!Mutate, Picker
<1>4. t.dates = <<>> => dates = <<>>
  BY <1>2 DEF Dates!ReplaceAt
<1>5. PICK r : r = [t EXCEPT !.viewDate = date, !.focusDate = focus, !.dates = dates]
  OBVIOUS
<1>6. /\ Picker(r) /\ r.text = t.text /\ r.visible = t.visible /\ r.usage = t.usage
      /\ r.viewMode = t.viewMode /\ r.shared = t.shared /\ r.viewDate = date /\ r.dates = dates
  BY <1>5 DEF Picker
<1> QED
  BY <1>2, <1>3, <1>4, <1>5, <1>6

PickerInv ==
    /\ Honest(p)
    /\ Dates!FieldShowsTheDate
    /\ Clock /\ keys \in Nat
    /\ keys = 0 => Moused(p) /\ origin # "browse"

LinkInv == Dates!LinkFollowsTheField

LEMMA BecomesKeeps ==
    ASSUME PickerInv, NEW q, NEW how, NEW byKey \in BOOLEAN, Dates!Becomes(q, how, byKey),
           Honest(q),
           how # "typed" => q.visible \/ q.text = Dates!Written(q.dates),
           Told(q) \/ (q.usage = p.usage /\ (q.dates = p.dates \/ how = "browse")),
           ~byKey /\ Moused(p) => Moused(q) /\ (how = "browse" => q.dates = p.dates)
    PROVE  PickerInv' /\ (LinkInv => LinkInv')
<1>1. /\ p' = q /\ UNCHANGED <<now, field, o>>
      /\ keys' = IF byKey THEN keys + 1 ELSE keys
      /\ origin' = IF q.dates # p.dates THEN how
                   ELSE IF how # "typed" THEN origin
                   ELSE IF origin \in {"browse", "retyped"} THEN "retyped" ELSE "typed"
  BY DEF Dates!Becomes
<1>2. Honest(p)'
  BY <1>1 DEF Honest, Picker
<1>3. Dates!FieldShowsTheDate'
  <2> SUFFICES ASSUME ~q.visible, origin' \in {"click", "enter", "browse"}
               PROVE  q.text = Dates!Written(q.dates)
    BY <1>1 DEF Dates!FieldShowsTheDate
  <2>1. CASE how # "typed"
    BY <2>1
  <2>2. CASE how = "typed"
    BY <1>1, <2>2
  <2> QED BY <2>1, <2>2
<1>4. Clock' /\ keys' \in Nat
  BY <1>1 DEF PickerInv, Clock
<1>5. ASSUME keys' = 0 PROVE Moused(p)' /\ origin' # "browse"
  <2>1. ~byKey /\ keys = 0
    BY <1>1, <1>5 DEF PickerInv
  <2>2. Moused(q) /\ (how = "browse" => q.dates = p.dates) /\ origin # "browse"
    BY <2>1 DEF PickerInv
  <2>3. origin' # "browse"
    BY <1>1, <2>2
  <2>4. Moused(p)'
    BY <1>1, <2>2 DEF Moused, InRange, Dates!dateWithinRange, Picker, FieldText
  <2> QED BY <2>3, <2>4
<1>6. ASSUME LinkInv PROVE LinkInv'
  <2> SUFFICES ASSUME Dates!Listens, q.dates # <<>>, origin' \notin {"browse", "retyped"}
               PROVE  q.usage = Dates!Usage(Dates!last(q.dates))
    BY <1>1 DEF LinkInv, Dates!LinkFollowsTheField, Dates!Listens, Dates!Usage
  <2>1. CASE Told(q)
    BY <2>1 DEF Told
  <2>2. CASE q.usage = p.usage /\ q.dates = p.dates
    <3>1. origin \notin {"browse", "retyped"}
      BY <1>1, <2>2
    <3> QED BY <1>6, <2>2, <3>1 DEF LinkInv, Dates!LinkFollowsTheField
  <2>3. CASE q.dates # p.dates /\ how = "browse"
    BY <1>1, <2>3
  <2> QED BY <2>1, <2>2, <2>3
<1> QED
  BY <1>2, <1>3, <1>4, <1>5, <1>6 DEF PickerInv

LEMMA HandlersKeep ==
    ASSUME PickerInv, Dates!Show \/ Dates!ClickOutside \/ Dates!OtherKey \/ Dates!KeyEscape
                      \/ Dates!KeyEnter \/ Dates!KeyTab \/ (\E text \in Typed : Dates!Type(text))
    PROVE  PickerInv' /\ (LinkInv => LinkInv')
<1>0. Honest(p) /\ Picker(p)
  BY DEF PickerInv, Honest
<1>1. CASE Dates!Show
  <2>1. PICK q : q = Dates!show(p)
    OBVIOUS
  <2>2. /\ Honest(q) /\ q.visible /\ q.usage = p.usage /\ q.dates = p.dates
        /\ Moused(p) => Moused(q)
    BY <1>0, <2>1 DEF Dates!show, Honest, Picker, Moused
  <2> QED
    BY <1>1, <2>1, <2>2, BecomesKeeps DEF Dates!Show
<1>2. CASE Dates!ClickOutside
  <2>1. PICK q : q = Dates!hide(p)
    OBVIOUS
  <2>2. /\ Honest(q) /\ q.text = Dates!Written(q.dates) /\ q.usage = p.usage /\ q.dates = p.dates
    BY <1>0, <1>2, <2>1, HideKeepsDates DEF Dates!ClickOutside
  <2>3. ASSUME Moused(p) PROVE Moused(q)
    <3>1. q.dates \in Seq(Int)
      BY <2>2, <2>3, SeqInclusion DEF Moused, InRange
    <3>2. FieldText(q.text)
      BY <2>2, <3>1 DEF FieldText, Dates!Written
    <3>3. q.viewDate = p.viewDate /\ q.shared \subseteq p.shared /\ q.viewMode \in 0..2
      BY <1>0, <2>1, <2>3, HideKeepsDates DEF Moused
    <3> QED BY <2>2, <2>3, <3>2, <3>3 DEF Moused, Honest
  <2> QED
    BY <1>2, <2>1, <2>2, <2>3, BecomesKeeps DEF Dates!ClickOutside
<1>3. ASSUME NEW t, Picker(t), t.dates = p.dates, t.usage = p.usage,
             Moused(p) => t.viewDate \in Int /\ t.viewMode \in 0..2 /\ FieldText(t.text),
             Dates!Becomes(Dates!updateFromText(t), "typed", FALSE)
      PROVE  PickerInv' /\ (LinkInv => LinkInv')
  <2>1. PICK q : q = Dates!updateFromText(t)
    OBVIOUS
  <2>2. /\ Honest(q) /\ (Told(q) \/ (q.dates = p.dates /\ q.usage = p.usage))
        /\ Moused(p) => Moused(q)
    BY <1>3, <2>1, TextUpdates DEF PickerInv
  <2> QED
    BY <1>3, <2>1, <2>2, BecomesKeeps
<1>4. CASE Dates!OtherKey
  BY <1>0, <1>3, <1>4 DEF Dates!OtherKey, Moused
<1>5. ASSUME NEW text \in Typed, Dates!Type(text) PROVE PickerInv' /\ (LinkInv => LinkInv')
  <2>1. PICK t : t = [p EXCEPT !.text = text]
    OBVIOUS
  <2>2. /\ Picker(t) /\ t.dates = p.dates /\ t.usage = p.usage /\ t.text = text
        /\ t.viewDate = p.viewDate /\ t.viewMode = p.viewMode
    BY <1>0, <2>1 DEF Picker
  <2>3. FieldText(text)
    BY PortalAssumption DEF PortalAssumption, FieldText
  <2>4. Dates!Becomes(Dates!updateFromText(t), "typed", FALSE)
    BY <1>5, <2>1 DEF Dates!Type
  <2>5. Moused(p) => t.viewDate \in Int /\ t.viewMode \in 0..2 /\ FieldText(t.text)
    BY <2>2, <2>3 DEF Moused
  <2> QED
    BY <1>3, <2>2, <2>4, <2>5
<1>6. CASE Dates!KeyEscape
  <2>0. PICK e : e = [p EXCEPT !.focusDate = Dates!NoDate]
    OBVIOUS
  <2>1. Alike(p, e)
    BY <1>0, <2>0 DEF Alike, Picker
  <2>2. PICK back : back = Dates!viewSelected(e) /\ Alike(e, back)
    BY <2>1, SelectedKeeps DEF Alike
  <2>3. PICK f : f = Dates!fill(back) /\ Same(back, f)
    BY <2>2, ArrowsKeep DEF Alike
  <2>4. PICK q : q = IF ~p.visible THEN Dates!show(p)
                     ELSE IF p.focusDate # Dates!NoDate THEN f ELSE Dates!hide(p)
    OBVIOUS
  <2>5. Dates!Becomes(q, "enter", TRUE)
    <3>1. Dates!Becomes(IF ~p.visible THEN Dates!show(p)
                        ELSE IF p.focusDate # Dates!NoDate
                             THEN Dates!fill(Dates!viewSelected([p EXCEPT !.focusDate = Dates!NoDate]))
                             ELSE Dates!hide(p), "enter", TRUE)
      BY <1>6 DEF Dates!KeyEscape
    <3>2. q = IF ~p.visible THEN Dates!show(p)
              ELSE IF p.focusDate # Dates!NoDate
                   THEN Dates!fill(Dates!viewSelected([p EXCEPT !.focusDate = Dates!NoDate]))
                   ELSE Dates!hide(p)
      BY <2>0, <2>2, <2>3, <2>4
    <3> QED BY <3>1, <3>2
  <2>6. /\ Honest(q) /\ q.dates = p.dates /\ q.usage = p.usage
        /\ q.visible \/ q.text = Dates!Written(q.dates)
    <3>1. CASE ~p.visible
      BY <1>0, <2>4, <3>1 DEF Dates!show, Honest, Picker
    <3>2. CASE p.visible /\ q = f
      BY <1>0, <2>1, <2>2, <2>3, <3>2 DEF Same, Alike, Honest
    <3>3. CASE p.visible /\ q = Dates!hide(p)
      BY <1>0, <3>3, HideKeepsDates
    <3> QED BY <2>4, <3>1, <3>2, <3>3
  <2> QED
    BY <2>5, <2>6, BecomesKeeps
<1>7. CASE Dates!KeyTab
  <2>0. PICK e : e = [p EXCEPT !.focusDate = Dates!NoDate]
    OBVIOUS
  <2>1. Alike(p, e)
    BY <1>0, <2>0 DEF Alike, Picker
  <2>2. PICK back : back = Dates!viewSelected(e) /\ Alike(e, back)
    BY <2>1, SelectedKeeps DEF Alike
  <2>3. PICK f : f = Dates!fill(back) /\ Same(back, f)
    BY <2>2, ArrowsKeep DEF Alike
  <2>4. Honest(f) /\ f.visible /\ f.dates = p.dates /\ f.usage = p.usage
    BY <1>0, <1>7, <2>1, <2>2, <2>3 DEF Same, Alike, Honest, Dates!KeyTab
  <2>5. PICK q : q = Dates!hide(f)
    OBVIOUS
  <2>6. Honest(q) /\ q.text = Dates!Written(q.dates) /\ q.dates = p.dates /\ q.usage = p.usage
    BY <2>4, <2>5, HideKeepsDates
  <2>7. Dates!Becomes(q, "enter", TRUE)
    <3>1. Dates!Becomes(Dates!hide(Dates!fill(Dates!viewSelected(
                            [p EXCEPT !.focusDate = Dates!NoDate]))), "enter", TRUE)
      BY <1>7 DEF Dates!KeyTab
    <3>2. q = Dates!hide(Dates!fill(Dates!viewSelected([p EXCEPT !.focusDate = Dates!NoDate])))
      BY <2>0, <2>2, <2>3, <2>5
    <3> QED BY <3>1, <3>2
  <2> QED
    BY <2>6, <2>7, BecomesKeeps
<1>8. CASE Dates!KeyEnter
  <2>1. PICK date : date = Dates!Or(p.focusDate, Dates!Or(Dates!last(p.dates), p.viewDate))
    OBVIOUS
  <2>2. PICK t : t = Dates!toggle_multidate(p, date) /\ Picker(t)
    BY <1>0, ToggleKeeps
  <2>0. PICK e : e = [t EXCEPT !.focusDate = Dates!NoDate]
    OBVIOUS
  <2>3. Picker(e)
    BY <2>0, <2>2 DEF Picker
  <2>4. PICK chosen : chosen = Dates!viewSelected(e) /\ Picker(chosen)
    BY <2>3, SelectedKeeps DEF Alike
  <2>5. PICK v : v = Dates!setValue(chosen) /\ Honest(v) /\ v.text = Dates!Written(v.dates)
    BY <2>4, ValueKeeps, ValueIsHonest
  <2>6. PICK f : f = Dates!fill(v) /\ Honest(f) /\ f.text = Dates!Written(f.dates)
    BY <2>5, ArrowsKeep DEF Honest, Same, Alike
  <2>7. PICK h : h = Dates!hide(f)
    OBVIOUS
  <2>8. Honest(h) /\ h.text = Dates!Written(h.dates)
    BY <2>6, <2>7, HideKeepsDates
  <2>9. PICK q : q = Dates!trigger(h) /\ Honest(q) /\ Told(q) /\ q.text = Dates!Written(q.dates)
    BY <2>8, TriggerTells DEF Honest
  <2>10. Dates!Becomes(q, "enter", TRUE)
    <3> DEFINE chose == Dates!viewSelected([Dates!toggle_multidate(p,
                            Dates!Or(p.focusDate, Dates!Or(Dates!last(p.dates), p.viewDate)))
                               EXCEPT !.focusDate = Dates!NoDate])
    <3>1. Dates!Becomes(Dates!trigger(Dates!hide(Dates!fill(Dates!setValue(chose)))), "enter", TRUE)
      BY <1>8 DEF Dates!KeyEnter
    <3>2. chosen = chose
      BY <2>0, <2>1, <2>2, <2>4
    <3> HIDE DEF chose
    <3>3. q = Dates!trigger(Dates!hide(Dates!fill(Dates!setValue(chose))))
      BY <2>5, <2>6, <2>7, <2>9, <3>2
    <3> QED BY <3>1, <3>3
  <2> QED
    BY <2>9, <2>10, BecomesKeeps
<1> QED
  BY <1>1, <1>2, <1>4, <1>5, <1>6, <1>7, <1>8

LEMMA HoursOfADay ==
    ASSUME NEW t \in Int
    PROVE  /\ Dates!DayOf(t) \in Int /\ t % Dates!Hours \in Int
           /\ Dates!At(t) \in Int /\ \A h \in Int : Dates!At(t) + h \in Int
  BY DEF Dates!DayOf, Dates!At, Dates!Hours

LEMMA BrowsingKeeps ==
    ASSUME PickerInv, Dates!ClickSwitch \/ Dates!ClickToday \/ (\E dir \in {-1, 1} : Dates!ClickArrow(dir))
    PROVE  PickerInv' /\ (LinkInv => LinkInv')
<1>0. Honest(p) /\ Picker(p) /\ Clock
  BY DEF PickerInv, Honest
<1>1. CASE Dates!ClickSwitch
  <2>1. PICK q : q = Dates!showMode(p, 1) /\ Same(p, q) /\ (p.viewMode \in 0..2 => q.viewMode \in 0..2)
    BY <1>0, ModeKeeps
  <2>2. /\ Honest(q) /\ q.visible /\ q.usage = p.usage /\ q.dates = p.dates
        /\ Moused(p) => Moused(q)
    BY <1>0, <1>1, <2>1 DEF Dates!ClickSwitch, Honest, Same, Alike, Moused
  <2> QED
    BY <1>1, <2>1, <2>2, BecomesKeeps DEF Dates!ClickSwitch
<1>2. CASE Dates!ClickToday
  <2>1. -2 \in Int
    OBVIOUS
  <2>2. PICK t : t = Dates!showMode(p, -2) /\ Same(p, t) /\ (p.viewMode \in 0..2 => t.viewMode \in 0..2)
    BY <1>0, <2>1, ModeKeeps
  <2>3. PICK q : q = Dates!setDate(t, Dates!UTCToday, "view")
    OBVIOUS
  <2>4. /\ Honest(q) /\ Told(q) /\ q.visible /\ q.dates = p.dates
    BY <1>2, <2>2, <2>3, SetDateTells DEF Same, Alike, Dates!ClickToday
  <2>5. ASSUME Moused(p) PROVE Moused(q)
    <3>1. Moused(t)
      BY <2>2, <2>5 DEF Moused, Same, Alike
    <3>2. Dates!UTCToday \in Int
      BY <1>0, TodayIsADay DEF Clock
    <3> QED BY <2>3, <3>1, <3>2, SetDateTells DEF Moused
  <2>6. Dates!Becomes(q, "browse", FALSE)
    BY <1>2, <2>2, <2>3 DEF Dates!ClickToday
  <2> QED
    BY <2>4, <2>5, <2>6, BecomesKeeps
<1>3. ASSUME NEW dir \in {-1, 1}, Dates!ClickArrow(dir) PROVE PickerInv' /\ (LinkInv => LinkInv')
  <2>1. PICK months : months = <<1, 12, 120>>[p.viewMode + 1]
    OBVIOUS
  <2>2. PICK date : date = Dates!At(Dates!moveMonth(Dates!DayOf(p.viewDate), dir * months))
                              + (p.viewDate % Dates!Hours)
    OBVIOUS
  <2>3. PICK t : t = [p EXCEPT !.viewDate = date, !.shared = {}]
    OBVIOUS
  <2>4. /\ Alike(p, t) /\ t.viewDate = date /\ t.shared = {} /\ t.viewMode = p.viewMode
    BY <1>0, <2>3 DEF Alike, Picker
  <2>5. PICK q : q = Dates!fill(t)
    OBVIOUS
  <2>6. Same(t, q) /\ q.viewMode = t.viewMode
    BY <2>4, <2>5, ArrowsKeep DEF Alike
  <2>7. p.visible /\ Dates!Becomes(q, "browse", FALSE)
    BY <1>3, <2>1, <2>2, <2>3, <2>5 DEF Dates!ClickArrow
  <2>8. Honest(q) /\ q.visible /\ q.dates = p.dates /\ q.usage = p.usage /\ q.text = p.text
    BY <1>0, <2>4, <2>6, <2>7 DEF Same, Alike, Honest
  <2>9. ASSUME Moused(p) PROVE Moused(q)
    <3>1. months \in Int
      BY <2>1, <2>9 DEF Moused
    <3>2. PICK by \in Int : by = dir * months
      BY <1>3, <3>1
    <3>3. PICK d \in Int, h \in Int : d = Dates!DayOf(p.viewDate) /\ h = p.viewDate % Dates!Hours
      BY <2>9, HoursOfADay DEF Moused
    <3>4. Dates!moveMonth(d, by) \in Int
      BY MoveMonthIsADay
    <3>5. date \in Int
      BY <2>2, <3>2, <3>3, <3>4, HoursOfADay
    <3> QED BY <2>4, <2>6, <2>8, <2>9, <3>5 DEF Same, Alike, Moused
  <2> QED
    BY <2>7, <2>8, <2>9, BecomesKeeps
<1> QED BY <1>1, <1>2, <1>3

LEMMA MonthsKeep ==
    ASSUME PickerInv,
           \/ \E m \in 0..11 : Dates!ClickMonth(m)
           \/ \E y \in Dates!Year(FirstDay)..Dates!Year(LastDay) : Dates!ClickYear(y)
    PROVE  PickerInv' /\ (LinkInv => LinkInv')
<1>0. Honest(p) /\ Picker(p) /\ Clock
  BY DEF PickerInv, Honest
<1>1. ASSUME NEW y, NEW m, p.visible, Dates!Browse(y, m), p.viewDate \in Int => y \in Int /\ m \in Int
      PROVE  PickerInv' /\ (LinkInv => LinkInv')
  <2>1. PICK first : first = Dates!At(Dates!UTCDate(y, m, 1)) + (p.viewDate % Dates!Hours)
    OBVIOUS
  <2>2. PICK t : t = Dates!Mutate(p, first)
    OBVIOUS
  <2>3. /\ Picker(t) /\ t.text = p.text /\ t.visible /\ t.usage = p.usage
        /\ t.viewMode = p.viewMode /\ t.shared = p.shared /\ t.viewDate = first
        /\ p.dates = <<>> => t.dates = <<>>
        /\ "date" \notin p.shared => t.dates = p.dates
    BY <1>0, <1>1, <2>2, MutateKeeps
  <2>4. PICK i \in Int : i = -1
    OBVIOUS
  <2>5. PICK u : u = Dates!showMode(t, i)
    OBVIOUS
  <2>6. Same(t, u) /\ (t.viewMode \in 0..2 => u.viewMode \in 0..2)
    BY <2>3, <2>5, ModeKeeps
  <2>7. PICK q : q = Dates!fill(u)
    OBVIOUS
  <2>8. Same(u, q) /\ q.viewMode = u.viewMode
    BY <2>6, <2>7, ArrowsKeep DEF Same, Alike
  <2>9. Dates!Becomes(q, "browse", FALSE)
    BY <1>1, <2>1, <2>2, <2>4, <2>5, <2>7 DEF Dates!Browse
  <2>10. /\ Honest(q) /\ q.visible /\ q.usage = p.usage
         /\ "date" \notin p.shared => q.dates = p.dates
    BY <1>0, <2>3, <2>6, <2>8 DEF Same, Alike, Honest
  <2>11. ASSUME Moused(p) PROVE Moused(q) /\ q.dates = p.dates
    <3>1. PICK d \in Int : d = Dates!UTCDate(y, m, 1)
      BY <1>1, <2>11, UTCDateIsADay DEF Moused
    <3>2. first \in Int
      BY <2>1, <2>11, <3>1, HoursOfADay DEF Moused
    <3> QED BY <2>3, <2>6, <2>8, <2>11, <3>2 DEF Same, Alike, Moused
  <2> QED
    BY <2>9, <2>10, <2>11, BecomesKeeps
<1>2. ASSUME NEW m \in 0..11, Dates!ClickMonth(m) PROVE PickerInv' /\ (LinkInv => LinkInv')
  <2>1. p.visible /\ Dates!Browse(Dates!Year(Dates!DayOf(p.viewDate)), m)
    BY <1>2 DEF Dates!ClickMonth
  <2>2. p.viewDate \in Int => Dates!Year(Dates!DayOf(p.viewDate)) \in Int /\ m \in Int
    <3> SUFFICES ASSUME p.viewDate \in Int PROVE Dates!Year(Dates!DayOf(p.viewDate)) \in Int
      OBVIOUS
    <3>1. Dates!DayOf(p.viewDate) \in Int
      BY HoursOfADay
    <3> QED BY <3>1, YearOfDay
  <2> QED BY <1>1, <2>1, <2>2
<1>3. ASSUME NEW y, Dates!ClickYear(y) PROVE PickerInv' /\ (LinkInv => LinkInv')
  <2>1. /\ p.visible /\ Dates!Browse(y, Dates!Month(Dates!DayOf(p.viewDate)))
        /\ LET decade == (Dates!Year(Dates!DayOf(p.viewDate)) \div 10) * 10
           IN  y \in (decade - 1)..(decade + 10)
    BY <1>3 DEF Dates!ClickYear
  <2>2. ASSUME p.viewDate \in Int PROVE y \in Int /\ Dates!Month(Dates!DayOf(p.viewDate)) \in Int
    <3>1. PICK d \in Int : d = Dates!DayOf(p.viewDate)
      BY <2>2, HoursOfADay
    <3>2. PICK z \in Int : z = Dates!Year(d)
      BY YearOfDay
    <3>3. y \in ((z \div 10) * 10 - 1)..((z \div 10) * 10 + 10)
      BY <2>1, <3>1, <3>2
    <3> QED BY <3>1, <3>3, MonthOfAYear
  <2> QED BY <1>1, <2>1, <2>2
<1> QED BY <1>2, <1>3

LEMMA DaysKeep ==
    ASSUME PickerInv,
           \/ \E unit \in {"day", "week", "month", "year"}, dir \in {-1, 1} : Dates!KeyArrow(unit, dir)
           \/ \E n \in Clicked : Dates!ClickDay(n)
    PROVE  PickerInv' /\ (LinkInv => LinkInv')
<1>0. Honest(p) /\ Picker(p) /\ Clock
  BY DEF PickerInv, Honest
<1>1. ASSUME NEW unit, NEW dir, Dates!KeyArrow(unit, dir) PROVE PickerInv' /\ (LinkInv => LinkInv')
  <2>1. PICK date : /\ p.visible
                    /\ Dates!Becomes(Dates!fill(Dates!setValue(
                          [p EXCEPT !.focusDate = date, !.viewDate = date,
                                    !.shared = {"focusDate"}])), "enter", TRUE)
    BY <1>1 DEF Dates!KeyArrow
  <2>2. PICK t : t = [p EXCEPT !.focusDate = date, !.viewDate = date, !.shared = {"focusDate"}]
    OBVIOUS
  <2>3. Alike(p, t)
    BY <1>0, <2>2 DEF Alike, Picker
  <2>4. PICK v : v = Dates!setValue(t)
    OBVIOUS
  <2>5. Honest(v) /\ v.visible /\ v.dates = p.dates /\ v.usage = p.usage
    BY <2>1, <2>3, <2>4, ValueKeeps, ValueIsHonest DEF Alike
  <2>6. PICK q : q = Dates!fill(v)
    OBVIOUS
  <2>7. Honest(q) /\ q.visible /\ q.dates = p.dates /\ q.usage = p.usage
    BY <2>5, <2>6, ArrowsKeep DEF Honest, Same, Alike
  <2>8. Dates!Becomes(q, "enter", TRUE)
    BY <2>1, <2>2, <2>4, <2>6
  <2> QED
    BY <2>7, <2>8, BecomesKeeps
<1>2. ASSUME NEW n, Dates!ClickDay(n) PROVE PickerInv' /\ (LinkInv => LinkInv')
  <2>1. PICK v, date : v = Dates!DayOf(p.viewDate) /\ date = Dates!At(Dates!CellDate(v, n))
    OBVIOUS
  <2>2. /\ n \in Dates!Grid(v) /\ Dates!dateWithinRange(Dates!At(n))
        /\ Dates!Becomes(Dates!setDate(p, date, "both"), "click", FALSE)
    BY <1>2, <2>1 DEF Dates!ClickDay, Dates!DayDisabled
  <2>3. PICK q : q = Dates!setDate(p, date, "both")
    OBVIOUS
  <2>4. Honest(q) /\ Told(q) /\ (q.visible \/ q.text = Dates!Written(q.dates))
    BY <1>0, <2>3, SetDateTells
  <2>5. ASSUME Moused(p) PROVE Moused(q)
    <3>1. v \in Int
      BY <2>1, <2>5, HoursOfADay DEF Moused
    <3>2. Dates!CellDate(v, n) = n /\ n \in Int
      BY <2>2, <3>1, CellIsItsDay
    <3>3. date \in Int /\ Dates!dateWithinRange(date)
      BY <2>1, <2>2, <3>2, HoursOfADay
    <3>4. date \in InRange
      BY <3>3 DEF InRange
    <3> QED BY <1>0, <2>3, <2>5, <3>3, <3>4, SetDateTells
  <2> QED
    BY <2>2, <2>3, <2>4, <2>5, BecomesKeeps
<1> QED BY <1>1, <1>2

LEMMA PickerNext == ASSUME PickerInv, [Dates!Next]_datesVars PROVE PickerInv' /\ (LinkInv => LinkInv')
<1>1. CASE UNCHANGED datesVars
  BY <1>1 DEF datesVars, PickerInv, LinkInv, Honest, Picker, Clock, Moused, InRange, FieldText,
              Dates!FieldShowsTheDate, Dates!LinkFollowsTheField, Dates!Listens, Dates!Usage,
              Dates!dateWithinRange
<1>2. CASE Dates!Tick
  <2>1. now' \in Int
    BY <1>2, PortalAssumption DEF Dates!Tick, PortalAssumption
  <2> QED
    BY <1>2, <2>1 DEF Dates!Tick, PickerInv, LinkInv, Honest, Picker, Clock, Moused, InRange,
              FieldText, Dates!FieldShowsTheDate, Dates!LinkFollowsTheField, Dates!Listens,
              Dates!Usage, Dates!dateWithinRange
<1> QED
  BY <1>1, <1>2, HandlersKeep, BrowsingKeeps, MonthsKeep, DaysKeep DEF Dates!Next

LEMMA MadeKeeps ==
    ASSUME Clock, NEW text, FieldText(text)
    PROVE  Honest(Dates!Made(text)) /\ Moused(Dates!Made(text))
<1>1. PICK t : t = [dates |-> <<>>, viewDate |-> Dates!UTCToday, focusDate |-> Dates!NoDate,
                    shared |-> {}, viewMode |-> 0, visible |-> FALSE, text |-> text,
                    prev |-> TRUE, next |-> TRUE, usage |-> Dates!NoDate]
  OBVIOUS
<1>2. /\ Picker(t) /\ t.viewDate \in Int /\ t.viewMode \in 0..2 /\ FieldText(t.text)
  BY <1>1, TodayIsADay DEF Picker, Clock
<1>3. Dates!Made(text) = Dates!updateFromText(t)
  BY <1>1 DEF Dates!Made
<1> QED
  BY <1>2, <1>3, TextUpdates

LEMMA PickerInit == ASSUME Dates!Init PROVE PickerInv
<1>1. now \in Int /\ keys = 0 /\ origin = "page"
  BY PortalAssumption DEF Dates!Init, PortalAssumption
<1>2. Clock
  <2>1. PICK d \in Int : d = Dates!DayOf(now)
    BY <1>1, HoursOfADay
  <2>2. Dates!moveMonth(d, -24) \in Int
    <3>1. -24 \in Int
      OBVIOUS
    <3> QED BY <3>1, MoveMonthIsADay
  <2>3. Dates!At(Dates!moveMonth(d, -24)) \in Int /\ Dates!ZeroDay \in Int /\ Dates!Forever \in Int
    BY <1>1, <2>2, HoursOfADay, TodayIsADay DEF Dates!Forever
  <2>4. o.startDate \in Int /\ o.endDate \in Int
    BY <2>1, <2>3 DEF Dates!Init, Dates!Options
  <2> QED BY <1>1, <2>4 DEF Clock
<1>3. Honest(p) /\ Moused(p)
  <2>1. CASE field = "validUntil"
    <3>1. PICK d \in Int : p = Dates!Made(Dates!Written(<<Dates!At(d)>>))
      BY <2>1, PortalAssumption DEF Dates!Init, PortalAssumption
    <3>2. Dates!At(d) \in Int
      BY HoursOfADay
    <3>3. FieldText(Dates!Written(<<Dates!At(d)>>))
      BY <3>2 DEF FieldText, Dates!Written
    <3> QED BY <1>2, <3>1, <3>3, MadeKeeps
  <2>2. CASE field # "validUntil"
    <3>1. p = Dates!Downloads
      BY <2>2 DEF Dates!Init
    <3>2. FieldText(Dates!Blank)
      BY DEF FieldText, Dates!Blank, Dates!Written
    <3>3. PICK m : m = Dates!Made(Dates!Blank) /\ Honest(m) /\ Moused(m)
      BY <1>2, <3>2, MadeKeeps
    <3>4. PICK today \in Int : today = Dates!Today
      <4>1. PICK u \in Int : u = Dates!UTCToday
        BY <1>1, TodayIsADay
      <4>2. Dates!Usage(u) \in Int
        BY PortalAssumption
           DEF PortalAssumption, Dates!Usage, Dates!At, Dates!DayOf, Dates!Hours
      <4> QED BY <4>1, <4>2 DEF Dates!Today
    <3>5. PICK date \in Int : date = today - Offset - (IF field = "usage-max" THEN 1 ELSE 0)
      <4>1. PICK one \in Int : one = IF field = "usage-max" THEN 1 ELSE 0
        OBVIOUS
      <4>2. today - Offset - one \in Int
        BY PortalAssumption DEF PortalAssumption
      <4> QED BY <4>1, <4>2
    <3>6. PICK r : r = Dates!updateFromDate(m, date)
      OBVIOUS
    <3>8. Honest(r) /\ Moused(r)
      BY <1>2, <3>3, <3>6, DateUpdates DEF Honest
    <3>7. p = [r EXCEPT !.usage = today]
      BY <3>1, <3>3, <3>4, <3>5, <3>6 DEF Dates!Downloads
    <3> QED
      BY <3>7, <3>8 DEF Honest, Moused, Picker
  <2> QED BY <2>1, <2>2
<1>4. Dates!FieldShowsTheDate
  BY <1>1 DEF Dates!FieldShowsTheDate
<1> QED
  BY <1>1, <1>2, <1>3, <1>4 DEF PickerInv

\* The dates "Download My Data" is rendered with are the days its link asks for, where
\* midnight EST is within the day it is for the customer.
LEMMA LinkInit ==
    ASSUME Dates!Init, "usage-min" \in Fields => -18 <= Offset /\ Offset <= 5
    PROVE  LinkInv
<1> SUFFICES ASSUME Dates!Listens, p.dates # <<>>
             PROVE  p.usage = Dates!Usage(Dates!last(p.dates))
  BY DEF LinkInv, Dates!LinkFollowsTheField
<1>1. p = Dates!Downloads /\ field \in {"usage-min", "usage-max"} \cap Fields
  BY PortalAssumption DEF Dates!Init, Dates!Listens, PortalAssumption
<1>2. PICK day \in Int : Dates!UTCToday = 24 * day
  <2>1. now \in Int
    BY PortalAssumption DEF Dates!Init, PortalAssumption
  <2> QED
    BY <2>1, PortalAssumption
       DEF PortalAssumption, Dates!UTCToday, Dates!LocalToday, Dates!At, Dates!DayOf, Dates!Hours
<1>3. PICK date : date = Dates!Today - Offset - (IF field = "usage-max" THEN 1 ELSE 0)
  OBVIOUS
<1>4. date \in Int /\ Dates!Usage(date) = Dates!Today
  <2>1. Dates!DayOf(Dates!UTCToday) = day
    BY <1>2 DEF Dates!DayOf, Dates!Hours
  <2>2. Offset \in Int
    BY PortalAssumption DEF PortalAssumption
  <2>3. CASE field = "usage-max"
    <3>1. Dates!Today = 24 * day + Offset + 24
      BY <2>1, <2>2, <2>3 DEF Dates!Today, Dates!Usage, Dates!At, Dates!Hours
    <3>2. date = 24 * day + 23
      BY <1>3, <2>2, <2>3, <3>1
    <3>3. date \in Int /\ Dates!DayOf(date) = day
      BY <3>2 DEF Dates!DayOf, Dates!Hours
    <3> QED BY <2>1, <2>3, <3>3 DEF Dates!Today, Dates!Usage
  <2>4. CASE field = "usage-min"
    <3>1. Dates!Today = 24 * day + 5
      BY <2>1, <2>2, <2>4 DEF Dates!Today, Dates!Usage, Dates!At, Dates!Hours
    <3>2. date = 24 * day + 5 - Offset
      BY <1>3, <2>2, <2>4, <3>1
    <3>3. -18 <= Offset /\ Offset <= 5
      BY <1>1, <2>4
    <3>4. date \in Int /\ Dates!DayOf(date) = day
      BY <2>2, <3>2, <3>3 DEF Dates!DayOf, Dates!Hours
    <3> QED BY <2>1, <2>4, <3>4 DEF Dates!Today, Dates!Usage
  <2> QED BY <1>1, <2>3, <2>4
<1>5. PICK m : m = Dates!Made(Dates!Blank)
  OBVIOUS
<1>6. Picker(m)
  <2>1. Clock
    BY PickerInit DEF PickerInv
  <2>2. FieldText(Dates!Blank)
    BY DEF FieldText, Dates!Blank, Dates!Written
  <2> QED BY <1>5, <2>1, <2>2, MadeKeeps DEF Honest
<1>7. PICK r : r = Dates!updateFromDate(m, date)
  OBVIOUS
<1>8. Picker(r) /\ r.dates = Dates!grep(<<date>>)
  BY <1>6, <1>7, DateUpdates DEF Honest
<1>9. p = [r EXCEPT !.usage = Dates!Today]
  BY <1>1, <1>3, <1>5, <1>7 DEF Dates!Downloads
<1>10. p.dates = r.dates /\ p.usage = Dates!Today
  BY <1>8, <1>9 DEF Picker
<1>11. Dates!last(p.dates) = date
  <2>1. <<date>> \in Seq({date})
    OBVIOUS
  <2>2. p.dates \in Seq({d \in {date} : Dates!dateWithinRange(d)})
    BY <1>8, <1>10, <2>1, GrepKeeps
  <2>3. p.dates \in Seq({date})
    BY <2>2, SeqInclusion
  <2> QED BY <2>3, LastOfInts
<1> QED
  BY <1>4, <1>10, <1>11

LEMMA PickerImplies ==
    ASSUME PickerInv
    PROVE  Dates!MouseStaysInRange /\ Dates!MouseKeepsTheDate /\ Dates!FieldShowsTheDate
<1>1. ASSUME keys = 0, NEW i \in 1..Len(p.dates) PROVE Dates!dateWithinRange(p.dates[i])
  <2>1. p.dates \in Seq(InRange)
    BY <1>1 DEF PickerInv, Moused
  <2>2. p.dates[i] \in InRange
    BY <1>1, <2>1
  <2> QED BY <2>2 DEF InRange
<1> QED
  BY <1>1 DEF PickerInv, Dates!MouseStaysInRange, Dates!MouseKeepsTheDate

-----------------------------------------------------------------------------
(* The portal: the invariant of the page that is shown. *)

PortalInv == /\ On("confirmed", QuestionInv)
             /\ On("download", DialogInv)
             /\ RatingInv
             /\ On("dates", PickerInv)

LEMMA PortalHolds == PortalSpec => []PortalInv
<1>1. PortalInit => PortalInv
  <2>1. PortalInit => Init
    BY DEF PortalInit, FeedbackAtRest
  <2>2. MaxStar \in Nat
    BY PortalAssumption DEF PortalAssumption
  <2> QED
    BY <2>1, <2>2, QuestionInit, DialogInit, RatingInit, PickerInit
       DEF PortalInit, PortalInv, On
<1>2. PortalInv /\ [PortalNext]_portalVars => PortalInv'
  <2> SUFFICES ASSUME PortalInv, [PortalNext]_portalVars PROVE PortalInv'
    OBVIOUS
  <2>1. /\ shown' = shown
        /\ shown = "confirmed" => [Confirmed!Next]_confirmedVars
        /\ shown = "download" => [Download!Next]_downloadVars
        /\ [Next]_vars
        /\ shown = "dates" => [Dates!Next]_datesVars
    BY DEF PortalNext, OnConfirmed, OnDownload, OnFeedback, OnDates, portalVars
  <2>2. On("confirmed", QuestionInv)'
    BY <2>1, QuestionNext DEF PortalInv, On
  <2>3. On("download", DialogInv)'
    BY <2>1, DialogNext DEF PortalInv, On
  <2>4. RatingInv'
    BY <2>1, RatingNext, PortalAssumption DEF PortalInv, PortalAssumption
  <2>5. On("dates", PickerInv)'
    BY <2>1, PickerNext DEF PortalInv, On
  <2> QED
    BY <2>2, <2>3, <2>4, <2>5 DEF PortalInv
<1> QED
  BY <1>1, <1>2, PTL DEF PortalSpec

\* However questions, menus, tabs and the dialog are opened and left, by mouse or by keys, a page
\* has one question, one menu and one pane at most: a Yes answers one question, once
\* (bootstrap-confirmation.js, bootstrap-dropdown.js, bootstrap-tab.js).
THEOREM OneQuestionMenuAndPane == PortalSpec => []OneAtATime
<1>1. PortalInv => OneAtATime
  BY QuestionImplies, DialogImplies DEF PortalInv, OneAtATime, On
<1> QED
  BY <1>1, PortalHolds, PTL

\* Whatever the widths and heights of a question and wherever its button is, it is put on the page
\* and ends where its button begins, also when it is wrapped anew there (applyPlacement).
THEOREM QuestionIsPlaced == PortalSpec => []QuestionIsAboveItsButton
<1>1. PortalInv => QuestionIsAboveItsButton
  BY QuestionImplies DEF PortalInv, QuestionIsAboveItsButton, On
<1> QED
  BY <1>1, PortalHolds, PTL

\* Whatever way a dialog is left, its backdrop and its handlers go with it, and while it is shown
\* the focus stays in it (bootstrap-modal.js).
THEOREM DialogCleansUp == PortalSpec => []DialogLeavesNothing
<1>1. PortalInv => DialogLeavesNothing
  BY DialogImplies DEF PortalInv, DialogLeavesNothing, On
<1> QED
  BY <1>1, PortalHolds, PTL

\* The link of the dialog is for the usage point whose menu opened it last, however often the
\* one dialog of the page is opened (dmd/index.jsp).
THEOREM DialogLinksWhatWasOpened == PortalSpec => []LinkIsForTheOpened
<1>1. PortalInv => LinkIsForTheOpened
  BY DialogImplies DEF PortalInv, LinkIsForTheOpened, On
<1> QED
  BY <1>1, PortalHolds, PTL

\* Once every click has arrived, the service has the rating the page shows, however requests and
\* answers overtake each other; except after a click that was lost, or that followed another
\* before that had arrived (rating.js:4-20).
THEOREM LastRatingArrives == PortalSpec => []LastClickIsKept
<1>1. PortalInv => LastClickIsKept
  BY RatingImplies DEF PortalInv
<1> QED
  BY <1>1, PortalHolds, PTL

\* Whatever months are looked at, with any dates in the fields and any range: what is selected
\* without the keyboard is in range.  The day that a cell of the calendar was greyed or offered
\* for is the day a click on it selects (bootstrap-datepicker.js: fill, click).
THEOREM MouseSelectsWhatIsOffered == PortalSpec => []MouseStaysInRange
<1>1. PortalInv => MouseStaysInRange
  BY PickerImplies DEF PortalInv, MouseStaysInRange, On
<1> QED
  BY <1>1, PortalHolds, PTL

\* Without the keyboard viewDate is never the selected Date itself, so that looking at other
\* months and years leaves the selected date alone.
THEOREM MouseLeavesTheDate == PortalSpec => []MouseKeepsTheDate
<1>1. PortalInv => MouseKeepsTheDate
  BY PickerImplies DEF PortalInv, MouseKeepsTheDate, On
<1> QED
  BY <1>1, PortalHolds, PTL

\* Whatever way the picker is closed, by mouse or by keys, what the form submits then is the date
\* that was chosen.
THEOREM FormSubmitsTheDate == PortalSpec => []FieldShowsTheDate
<1>1. PortalInv => FieldShowsTheDate
  BY PickerImplies DEF PortalInv, FieldShowsTheDate, On
<1> QED
  BY <1>1, PortalHolds, PTL

\* The link of "Download My Data" asks for the day its field shows, if it shows one that browsing
\* has not changed, wherever midnight EST is within the customer's day when the page is loaded.
\* (West of EST the field of the first day is loaded with the day before: update() is handed
\* midnight EST, dmd/index.jsp.)
THEOREM LinkAsksForTheField ==
    ASSUME "usage-min" \in Fields => -18 <= Offset /\ Offset <= 5
    PROVE  PortalSpec => []LinkFollowsTheField
<1> DEFINE Follows == PortalInv /\ On("dates", LinkInv)
<1>1. PortalInit => On("dates", LinkInv)
  BY LinkInit DEF PortalInit, On
<1>2. PortalInv /\ On("dates", LinkInv) /\ [PortalNext]_portalVars => On("dates", LinkInv)'
  <2> SUFFICES ASSUME PortalInv, On("dates", LinkInv), [PortalNext]_portalVars
               PROVE  On("dates", LinkInv)'
    OBVIOUS
  <2>1. shown' = shown /\ (shown = "dates" => [Dates!Next]_datesVars)
    BY DEF PortalNext, OnConfirmed, OnDownload, OnFeedback, OnDates, portalVars
  <2> QED
    BY <2>1, PickerNext DEF PortalInv, On
<1>3. On("dates", LinkInv) => LinkFollowsTheField
  BY DEF LinkInv, LinkFollowsTheField, On
<1> QED
  BY <1>1, <1>2, <1>3, PortalHolds, PTL DEF PortalSpec
================================================================================

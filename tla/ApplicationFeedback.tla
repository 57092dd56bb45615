--------------------------- MODULE ApplicationFeedback ---------------------------
(***************************************************************************)
(* Ratings and comments on "Connect My Data" (cmd/index.jsp): the stars    *)
(* of bootstrap-rating-input.min.js, the requests of rating.js, and the    *)
(* pages of the content service that application.js asks for.  The service *)
(* behind apiBaseUrl is another system: it keeps what it is sent.          *)
(*                                                                         *)
(* net holds requests that have not arrived and answers that have not been *)
(* read; each goes its own way, so any of them may be the next.            *)
(***************************************************************************)
EXTENDS Integers, FiniteSets

CONSTANTS
    Apps,          \* the applications on the page
    MaxStar,       \* data-max
    Pages,         \* the srckey elements of the page
    MaxSent        \* bound: requests sent once the page is loaded

VARIABLES
    value,      \* the hidden input of each application: its star, or NoStar for ''
    painted,    \* how many of its stars are full
    hover,      \* the star under the mouse and its application, or Nowhere
    comments,   \* its comments: whether they are shown, how many, and the comment box
    content,    \* what an srckey element holds
    net, sent,
    server,     \* of each application: its rating and how many comments it has
    uncertain   \* applications of which a rating was lost, or two were under way at once

vars == <<value, painted, hover, comments, content, net, sent, server, uncertain>>
page == <<comments, content>>

NoStar  == 0
Nowhere == <<>>
Stars   == 1..MaxStar

-----------------------------------------------------------------------------
Msg(kind, a, n) == [kind |-> kind, of |-> a, n |-> n, id |-> sent]

\* When the page is ready the ratings are asked for, and the pages: CmsCache is empty.
Init ==
    /\ value = [a \in Apps |-> NoStar]
    /\ painted = [a \in Apps |-> 0]
    /\ hover = Nowhere
    /\ comments = [a \in Apps |-> [box |-> FALSE, shown |-> FALSE, n |-> 0]]
    /\ content = [k \in Pages |-> "static"]
    /\ net = {[kind |-> "getRating", of |-> a, n |-> 0, id |-> 0] : a \in Apps}
                \cup {[kind |-> "getPage", of |-> k, n |-> 0, id |-> 0] : k \in Pages}
    /\ sent = 0
    /\ server \in [Apps -> [rating : {NoStar, MaxStar}, comments : {0}]]
    /\ uncertain = {}

Send(kind, a, n) == sent < MaxSent /\ net' = net \cup {Msg(kind, a, n)} /\ sent' = sent + 1

-----------------------------------------------------------------------------
(* The stars of an application the customer may rate.  _paintValue fills    *)
(* the stars up to a value, _clearValue empties them and the input.         *)

MouseEnter(a, v) ==
    /\ hover = Nowhere
    /\ hover' = <<a, v>>
    /\ painted' = [painted EXCEPT ![a] = v]
    /\ UNCHANGED <<value, page, net, sent, server, uncertain>>

MouseLeave(a) ==
    /\ hover # Nowhere /\ hover[1] = a
    /\ hover' = Nowhere
    /\ painted' = [painted EXCEPT ![a] = value[a]]
    /\ UNCHANGED <<value, page, net, sent, server, uncertain>>

\* A click on a star: the input is set by the handlers below rating.js's, which posts it.
Rated(a, v) == [value EXCEPT ![a] = v]

\* Mutant of Posted: the request is made before the input is set.
PostedEarly(a, v) == value[a]

Posted(a, v) == Rated(a, v)[a]

ClickStar(a, v) ==
    /\ hover = <<a, v>>
    /\ value' = Rated(a, v)
    /\ Send("postRating", a, Posted(a, v))
    /\ uncertain' = IF \E r \in net : r.kind = "postRating" /\ r.of = a
                    THEN uncertain \cup {a} ELSE uncertain
    /\ UNCHANGED <<painted, hover, page, server>>

-----------------------------------------------------------------------------
(* Comments. *)

ToggleBox(a) ==
    /\ comments' = [comments EXCEPT ![a].box = ~@]
    /\ UNCHANGED <<value, painted, hover, content, net, sent, server, uncertain>>

SaveComment(a) ==
    /\ comments[a].box
    /\ Send("postComment", a, 0)
    /\ comments' = [comments EXCEPT ![a].box = FALSE]
    /\ UNCHANGED <<value, painted, hover, content, server, uncertain>>

ViewComments(a) ==
    /\ ~comments[a].shown
    /\ Send("getComments", a, 0)
    /\ comments' = [comments EXCEPT ![a].shown = TRUE]
    /\ UNCHANGED <<value, painted, hover, content, server, uncertain>>

HideComments(a) ==
    /\ comments[a].shown
    /\ comments' = [comments EXCEPT ![a].shown = FALSE]
    /\ UNCHANGED <<value, painted, hover, content, net, sent, server, uncertain>>

-----------------------------------------------------------------------------
(* The service: it answers what it is asked and keeps what it is sent.      *)

Answered(m, kind, n) == net' = (net \ {m}) \cup {[m EXCEPT !.kind = kind, !.n = n]}

Serve(m) ==
    /\ \/ m.kind = "getRating" /\ Answered(m, "rating", server[m.of].rating) /\ UNCHANGED server
       \/ m.kind = "getComments" /\ Answered(m, "comments", server[m.of].comments)
                                 /\ UNCHANGED server
       \/ m.kind = "getPage" /\ Answered(m, "page", 0) /\ UNCHANGED server
       \/ /\ m.kind = "postRating"
          /\ server' = [server EXCEPT ![m.of].rating = m.n]
          /\ net' = net \ {m}
       \/ /\ m.kind = "postComment"
          /\ server' = [server EXCEPT ![m.of].comments = @ + 1]
          /\ net' = net \ {m}
    /\ UNCHANGED <<value, painted, hover, page, sent, uncertain>>

\* The answers.  One that is empty paints nothing, and shows no list.
Read(m) ==
    /\ net' = net \ {m}
    /\ \/ /\ m.kind = "rating"
          /\ painted' = IF m.n = NoStar THEN painted ELSE [painted EXCEPT ![m.of] = m.n]
          /\ UNCHANGED page
       \/ /\ m.kind = "comments"
          /\ comments' = [comments EXCEPT ![m.of].n = m.n]
          /\ UNCHANGED <<painted, content>>
       \/ /\ m.kind = "page"
          /\ content' = [content EXCEPT ![m.of] = m.of]
          /\ UNCHANGED <<painted, comments>>
    /\ UNCHANGED <<value, hover, sent, server, uncertain>>

\* A request or an answer is lost: no call has an error handler.
Lose(m) ==
    /\ net' = net \ {m}
    /\ uncertain' = IF m.kind \in {"postRating", "getRating", "rating"}
                    THEN uncertain \cup {m.of} ELSE uncertain
    /\ UNCHANGED <<value, painted, hover, page, sent, server>>

Next ==
    \/ \E a \in Apps : \/ \E v \in Stars : MouseEnter(a, v) \/ ClickStar(a, v)
                       \/ MouseLeave(a) \/ ToggleBox(a) \/ SaveComment(a)
                       \/ ViewComments(a) \/ HideComments(a)
    \/ \E m \in net : Serve(m) \/ Read(m) \/ Lose(m)

Spec == Init /\ [][Next]_vars

-----------------------------------------------------------------------------
\* Once everything has arrived, the service has the rating the page has, unless a click was
\* lost, or followed another before that had arrived: those may arrive in either order.
LastClickIsKept ==
    \A a \in Apps \ uncertain :
        /\ value[a] # NoStar
        /\ \A m \in net : m.kind # "postRating" \/ m.of # a
        => server[a].rating = value[a]

=================================================================================

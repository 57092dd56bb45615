------------------------- MODULE ConsentSession_proofs -------------------------
(***************************************************************************)
(* Consents given in any number of tabs, for any third parties and usage   *)
(* points.                                                                 *)
(***************************************************************************)
EXTENDS ConsentHabits, TLAPS

\* The request in the session, if there is one, is the one rendered last: nothing puts a request
\* there, or changes the one that is there, without rendering it.
ShownInv ==
    /\ DOMAIN tab = Tab /\ tab = [t \in Tab |-> tab[t]]
    /\ request # Nothing => request = shown

LEMMA ShowKeeps ==
    ASSUME ShownInv, NEW t \in Tab, NEW p, Show(t, p)
    PROVE  /\ DOMAIN tab' = Tab /\ tab' = [u \in Tab |-> tab'[u]]
           /\ tab'[t] = p
           /\ \A u \in Tab : u # t => tab'[u] = tab[u]
  BY DEF ShownInv, Show

LEMMA ShownInit == Init => ShownInv
  BY DEF Init, ShownInv

\* A tab's step shows something in it, and issues a code only when it approves the session's
\* request or when the tab showed no confirmation.
LEMMA BrowseShows ==
    ASSUME ShownInv, NEW t \in Tab, Browse(t)
    PROVE  /\ \E p : Show(t, p)
           /\ request' # Nothing => request' = shown'
           /\ tab[t].at = "confirm" => codes' \subseteq codes \cup {shown}
<1>1. ASSUME NEW c \in Client, ScopeSelection(t, c)
      PROVE  (\E p : Show(t, p)) /\ UNCHANGED <<request, shown, codes>>
  BY <1>1 DEF ScopeSelection, ToThirdParty
<1>2. ASSUME NEW u \in UsagePoint, ScopeSelectionConfirm(t, u)
      PROVE  (\E p : Show(t, p)) /\ UNCHANGED <<request, shown, codes>>
  BY <1>2 DEF ScopeSelectionConfirm, ToThirdParty
<1>3. ASSUME PreApproved(t)
      PROVE  /\ \E p : Show(t, p)
             /\ UNCHANGED <<request, shown>> /\ tab[t].at # "confirm"
  BY <1>3 DEF PreApproved, session
<1>4. ASSUME GetAccessConfirmation(t)
      PROVE  (\E p : Show(t, p)) /\ request' = shown' /\ UNCHANGED codes
  BY <1>4 DEF GetAccessConfirmation, Render
<1>5. ASSUME SetDate(t)
      PROVE  /\ \E p : Show(t, p)
             /\ request' = shown' \/ UNCHANGED <<request, shown>>
             /\ UNCHANGED codes
  BY <1>5 DEF SetDate, Render
<1>6. ASSUME Approve(t)
      PROVE  /\ \E p : Show(t, p)
             /\ request' = Nothing /\ codes' \subseteq codes \cup {shown}
  BY <1>6 DEF Approve, Issue, ShownInv
<1>7. ASSUME Deny(t) PROVE (\E p : Show(t, p)) /\ request' = Nothing /\ UNCHANGED codes
  BY <1>7 DEF Deny
<1>8. ASSUME Leave(t) PROVE (\E p : Show(t, p)) /\ UNCHANGED <<request, shown, codes>>
  BY <1>8 DEF Leave, session
<1> QED
  BY <1>1, <1>2, <1>3, <1>4, <1>5, <1>6, <1>7, <1>8 DEF Browse, ShownInv

LEMMA ShownNext ==
    ASSUME ShownInv, [Next]_vars
    PROVE  ShownInv' /\ Approved(shown)
<1>1. ASSUME NEW t \in Tab, Browse(t) PROVE ShownInv' /\ Approved(shown)
  <2>1. PICK p : Show(t, p)
    BY <1>1, BrowseShows
  <2>2. ASSUME NEW u \in Tab, tab[u].at = "confirm", tab'[u].at = "home"
        PROVE  codes' \ codes \subseteq {shown}
    <3>1. u = t
      BY <2>1, <2>2, ShowKeeps
    <3> QED
      BY <1>1, <2>2, <3>1, BrowseShows
  <2> QED
    BY <1>1, <2>1, <2>2, BrowseShows, ShowKeeps DEF ShownInv, Approved
<1>2. ASSUME UNCHANGED <<tab, shown>>, request' \in {request, Nothing}
      PROVE  ShownInv' /\ Approved(shown)
  BY <1>2 DEF ShownInv, Approved
<1> QED
  BY <1>1, <1>2 DEF Next, SessionEnds, Exchanges, ExchangeNew, ExchangeKnown, Elapse, Expire,
                    Forget, Withdraw, Revoke, session, vars

-----------------------------------------------------------------------------
(* One after another.  Only the page that offers usage points looks whether *)
(* the third party has one of the kind already; that it still has none when *)
(* the code is exchanged rests on nothing else being done in between.       *)

Request == [client : Client \cup {Nothing}, scope : Scopes \cup {Nothing},
            up : UsagePoint \cup {Nothing}, end : Ends]

\* A usage point of a kind the third party has none of.
Free(c, u) == u \in UsagePoint /\ ServiceKind[u] \notin KindsOf(c)

\* What a page leads to is free.
LeadsToFree(p) ==
    /\ p.at = "choose" => \A u \in p.offered : Free(p.client, u)
    /\ p.at = "thirdparty" => Free(p.client, chosen)
    /\ p.at = "confirm" /\ request # Nothing => Free(request.client, request.up) /\ chosen = request.up

OrderlyTypes ==
    /\ chosen \in UsagePoint \cup {Nothing}
    /\ request # Nothing => request \in Request
    /\ tab \in [Tab -> Page]
    /\ \A a \in auths : DOMAIN a = {"id", "client", "scope", "ups", "status"}

OrderlyInv ==
    /\ OrderlyTypes
    /\ \A t, u \in Tab : tab[t] # Home /\ tab[u] # Home => t = u
    /\ codes # {} => \A t \in Tab : tab[t] = Home
    /\ \A r, q \in codes : r = q
    /\ \A r \in codes : Known(r) = "live" \/ Free(r.client, r.up)
    /\ \A t \in Tab : LeadsToFree(tab[t])
    /\ OncePerKind

LEMMA HomeIsHome == Home \in Page /\ Home.at = "home"
  BY DEF Home, Page, Places, Ends

LEMMA PageScoped ==
    ASSUME NEW a, NEW c, NEW d
    PROVE  [Home EXCEPT !.at = a, !.client = c, !.scope = d]
             = [at |-> a, client |-> c, scope |-> d, up |-> Nothing, end |-> Nothing,
                offered |-> {}]
<1> DEFINE h1 == [Home EXCEPT !.at = a]
           h2 == [h1 EXCEPT !.client = c]
<1>1. h1 = [at |-> a, client |-> Nothing, scope |-> Nothing, up |-> Nothing, end |-> Nothing,
            offered |-> {}]
  BY DEF Home
<1>2. [h2 EXCEPT !.scope = d] = [Home EXCEPT !.at = a, !.client = c, !.scope = d]
  BY Zenon
<1> HIDE DEF h1
<1>3. h2 = [at |-> a, client |-> c, scope |-> Nothing, up |-> Nothing, end |-> Nothing,
            offered |-> {}]
  BY <1>1
<1> HIDE DEF h2
<1>4. [h2 EXCEPT !.scope = d]
        = [at |-> a, client |-> c, scope |-> d, up |-> Nothing, end |-> Nothing,
                offered |-> {}]
  BY <1>3
<1> QED
  BY <1>2, <1>4

LEMMA PageOffering ==
    ASSUME NEW a, NEW c, NEW o
    PROVE  [Home EXCEPT !.at = a, !.client = c, !.offered = o]
             = [at |-> a, client |-> c, scope |-> Nothing, up |-> Nothing, end |-> Nothing,
                offered |-> o]
<1> DEFINE h1 == [Home EXCEPT !.at = a]
           h2 == [h1 EXCEPT !.client = c]
<1>1. h1 = [at |-> a, client |-> Nothing, scope |-> Nothing, up |-> Nothing, end |-> Nothing,
            offered |-> {}]
  BY DEF Home
<1>2. [h2 EXCEPT !.offered = o] = [Home EXCEPT !.at = a, !.client = c, !.offered = o]
  BY Zenon
<1> HIDE DEF h1
<1>3. h2 = [at |-> a, client |-> c, scope |-> Nothing, up |-> Nothing, end |-> Nothing,
            offered |-> {}]
  BY <1>1
<1> HIDE DEF h2
<1>4. [h2 EXCEPT !.offered = o]
        = [at |-> a, client |-> c, scope |-> Nothing, up |-> Nothing, end |-> Nothing,
                offered |-> o]
  BY <1>3
<1> QED
  BY <1>2, <1>4

LEMMA ActiveKind ==
    ASSUME NEW c, NEW a \in auths, a.client = c, a.status = "1", NEW v \in a.ups
    PROVE  ServiceKind[v] \in KindsOf(c)
  BY DEF KindsOf

LEMMA OfferedAreFree == ASSUME NEW c, NEW u \in Applicable(c), c \in Client PROVE Free(c, u)
  BY ConsentAssumption DEF Applicable, Free, ConsentAssumption

\* Where no authorization is added, what was free still is.
LEMMA StillFree ==
    ASSUME \A a \in auths' : a.status = "1" => a \in auths, NEW c, NEW u, Free(c, u)
    PROVE  Free(c, u)'
  BY DEF Free, KindsOf

LEMMA StillOnce ==
    ASSUME \A a \in auths' : a.status = "1" => a \in auths, OncePerKind
    PROVE  OncePerKind'
  BY DEF OncePerKind

LEMMA OrderlyInit == Init => OrderlyInv
<1> SUFFICES ASSUME Init PROVE OrderlyInv
  OBVIOUS
<1>1. tab \in [Tab -> Page] /\ \A t \in Tab : tab[t] = Home
  BY HomeIsHome DEF Init
<1> QED
  BY <1>1, HomeIsHome DEF Init, OrderlyInv, OrderlyTypes, LeadsToFree, OncePerKind

\* A step of the customer in a tab: enough is that the page it shows leads to what is free, and
\* that a code it issues is for a live token or for what is free, and leaves the tab at home.
LEMMA BrowsedOrderly ==
    ASSUME OrderlyInv, codes = {}, NEW t \in Tab, Alone(t), NEW p \in Page, Show(t, p),
           UNCHANGED <<auths, token>>,
           chosen' \in UsagePoint \cup {Nothing}, request' # Nothing => request' \in Request,
           LeadsToFree(p)',
           \/ codes' = {}
           \/ \E r : codes' = {r} /\ p = Home /\ (Known(r) = "live" \/ Free(r.client, r.up))
    PROVE  OrderlyInv'
<1>1. tab' \in [Tab -> Page] /\ tab'[t] = p /\ \A u \in Tab : u # t => tab'[u] = Home
  BY DEF OrderlyInv, OrderlyTypes, Show, Alone
<1>2. \A u \in Tab : LeadsToFree(tab[u])'
  BY <1>1, HomeIsHome DEF LeadsToFree
<1>3. \A r : Known(r)' = Known(r) /\ \A c, u : Free(c, u)' = Free(c, u)
  BY DEF Known, Free, KindsOf
<1>4. OncePerKind'
  BY StillOnce DEF OrderlyInv
<1> QED
  BY <1>1, <1>2, <1>3, <1>4 DEF OrderlyInv, OrderlyTypes

LEMMA TabsOrderly ==
    ASSUME OrderlyInv, codes = {}, NEW t \in Tab, Alone(t), Browse(t)
    PROVE  OrderlyInv'
<1> DEFINE q == tab[t]
<1>1. q \in Page /\ LeadsToFree(q)
  BY DEF OrderlyInv, OrderlyTypes
<1>2. ASSUME NEW c \in Client \cup {Nothing}, NEW u, Free(c, u), ToThirdParty(t, c, u),
             UNCHANGED <<request, codes, token, auths>>
      PROVE  OrderlyInv'
  <2>5. PICK sc : sc = Scope[u]
    OBVIOUS
  <2> DEFINE p == [at |-> "thirdparty", client |-> c, scope |-> sc, up |-> Nothing,
                   end |-> Nothing, offered |-> {}]
  <2>6. [Home EXCEPT !.at = "thirdparty", !.client = c, !.scope = sc] = p
    BY PageScoped
  <2>7. ToThirdParty(t, c, u) => Show(t, p)
    <3>1. ToThirdParty(t, c, u) => Show(t, [Home EXCEPT !.at = "thirdparty", !.client = c, !.scope = sc])
      BY <2>5 DEF ToThirdParty
    <3> HIDE DEF p
    <3> QED
      BY <3>1, <2>6
  <2>1. Show(t, p) /\ chosen' = u /\ u \in UsagePoint
    BY <1>2, <2>7 DEF ToThirdParty, Free
  <2>2. p \in Page
    BY <2>1, <2>5 DEF Page, Places, Ends, Scopes
  <2>3. Free(c, u)'
    BY <1>2, StillFree
  <2>4. LeadsToFree(p)'
    BY <2>1, <2>3 DEF LeadsToFree
  <2> HIDE DEF p
  <2> QED
    BY <1>2, <2>1, <2>2, <2>4, BrowsedOrderly DEF OrderlyInv, OrderlyTypes
<1>3. ASSUME NEW c \in Client, ScopeSelection(t, c) PROVE OrderlyInv'
  <2>1. CASE \E u \in Applicable(c) : ToThirdParty(t, c, u)
    BY <1>2, <1>3, <2>1, OfferedAreFree DEF ScopeSelection
  <2>2. CASE /\ Show(t, [Home EXCEPT !.at = "choose", !.client = c, !.offered = Applicable(c)])
             /\ UNCHANGED chosen
    <3>1. PICK o : o = Applicable(c)
      OBVIOUS
    <3> DEFINE p == [at |-> "choose", client |-> c, scope |-> Nothing, up |-> Nothing,
                     end |-> Nothing, offered |-> o]
    <3>2. [Home EXCEPT !.at = "choose", !.client = c, !.offered = o] = p
      BY PageOffering
    <3>3. p \in Page
      BY <3>1, ConsentAssumption DEF Page, Places, Ends, Applicable, ConsentAssumption
    <3>4. \A u \in o : Free(c, u)'
      BY <1>3, <3>1, OfferedAreFree, StillFree DEF ScopeSelection
    <3>5. LeadsToFree(p)'
      BY <3>4 DEF LeadsToFree
    <3>6. Show(t, p)
      BY <2>2, <3>1, <3>2
    <3> HIDE DEF p
    <3> QED
      BY <1>3, <2>2, <3>3, <3>5, <3>6, BrowsedOrderly DEF ScopeSelection, OrderlyInv, OrderlyTypes
  <2> QED
    BY <1>3, <2>1, <2>2 DEF ScopeSelection
<1>4. ASSUME NEW u \in UsagePoint, ScopeSelectionConfirm(t, u) PROVE OrderlyInv'
  <2>1. q.client \in Client \cup {Nothing} /\ Free(q.client, u)
    BY <1>1, <1>4 DEF ScopeSelectionConfirm, LeadsToFree, Page
  <2> QED
    BY <1>2, <1>4, <2>1 DEF ScopeSelectionConfirm
<1>5. ASSUME NEW r, request # Nothing \/ q.at = "thirdparty", r \in Request,
             r.up = chosen, Free(r.client, chosen), Render(t, r),
             UNCHANGED <<chosen, codes, token, auths>>
      PROVE  OrderlyInv'
  <2>1. Show(t, Confirmation(r)) /\ request' = r
    BY <1>5 DEF Render
  <2>2. Confirmation(r) \in Page /\ Confirmation(r).at = "confirm"
    BY <1>5 DEF Confirmation, Page, Places, Request
  <2>3. Free(r.client, chosen)'
    BY <1>5, StillFree
  <2>4. LeadsToFree(Confirmation(r))'
    BY <1>5, <2>1, <2>2, <2>3 DEF LeadsToFree
  <2> QED
    BY <1>5, <2>1, <2>2, <2>4, BrowsedOrderly DEF OrderlyInv, OrderlyTypes
<1>6. CASE GetAccessConfirmation(t)
  <2> DEFINE r == [client |-> q.client, scope |-> q.scope, up |-> Nothing, end |-> Nothing]
             s == [client |-> q.client, scope |-> q.scope, up |-> chosen, end |-> "default"]
  <2>1. q.at = "thirdparty" /\ Free(q.client, chosen)
    BY <1>1, <1>6 DEF GetAccessConfirmation, LeadsToFree
  <2>2. chosen # Nothing
    BY <2>1, ConsentAssumption DEF Free, ConsentAssumption
  <2>3. Confirmed(r) = s
    BY <2>2 DEF Confirmed
  <2>4. s \in Request /\ s.up = chosen /\ s.client = q.client
    BY <1>1, <2>1 DEF Page, Request, Ends, Free
  <2>5. Render(t, s)
    BY <1>6, <2>3 DEF GetAccessConfirmation
  <2> HIDE DEF s
  <2> QED
    BY <1>5, <1>6, <2>1, <2>4, <2>5 DEF GetAccessConfirmation
<1>7. CASE Show(t, Home) /\ UNCHANGED <<chosen, codes, token, auths>> /\ request' \in {request, Nothing}
  <2>1. LeadsToFree(Home)'
    BY HomeIsHome DEF LeadsToFree
  <2> QED
    BY <1>7, <2>1, HomeIsHome, BrowsedOrderly DEF OrderlyInv, OrderlyTypes
<1>8. CASE SetDate(t)
  <2>1. CASE request = Nothing
    BY <1>7, <1>8, <2>1 DEF SetDate
  <2>2. CASE request # Nothing
    <3> DEFINE r == [request EXCEPT !.end = "picked"]
               s == [client |-> request.client, scope |-> request.scope, up |-> chosen,
                     end |-> IF "picked" = Nothing THEN "default" ELSE "picked"]
    <3>1. /\ request \in Request /\ Free(request.client, request.up) /\ chosen = request.up
      BY <1>1, <1>8, <2>2 DEF SetDate, LeadsToFree, OrderlyInv, OrderlyTypes
    <3>2. chosen # Nothing
      BY <3>1, ConsentAssumption DEF Free, ConsentAssumption
    <3>3. Confirmed(r) = s
      BY <3>1, <3>2 DEF Confirmed, Request
    <3>4. s \in Request /\ s.up = chosen /\ s.client = request.client
      BY <3>1 DEF Request, Ends, Free
    <3>5. Render(t, s)
      BY <1>8, <2>2, <3>3 DEF SetDate
    <3> HIDE DEF s
    <3> QED
      BY <1>5, <1>8, <2>2, <3>1, <3>4, <3>5 DEF SetDate
  <2> QED
    BY <2>1, <2>2
<1>9. CASE PreApproved(t)
  <2> DEFINE r == [client |-> q.client, scope |-> q.scope, up |-> Nothing, end |-> Nothing]
  <2>1. codes' = {r} /\ Show(t, Home)
    BY <1>9 DEF PreApproved, Issue
  <2>2. Known(r) = "live"
    BY <1>9 DEF PreApproved, Known
  <2>3. LeadsToFree(Home)'
    BY HomeIsHome DEF LeadsToFree
  <2> HIDE DEF r
  <2> QED
    BY <1>9, <2>1, <2>2, <2>3, HomeIsHome, BrowsedOrderly
       DEF PreApproved, session, OrderlyInv, OrderlyTypes
<1>10. CASE Approve(t)
  <2>1. CASE request = Nothing
    BY <1>7, <1>10, <2>1 DEF Approve
  <2>2. CASE request # Nothing
    <3>1. Free(request.client, request.up)
      BY <1>1, <1>10, <2>2 DEF Approve, LeadsToFree
    <3>2. codes' = {request} /\ Show(t, Home) /\ request' = Nothing
      BY <1>10, <2>2 DEF Approve, Issue
    <3>3. LeadsToFree(Home)'
      BY HomeIsHome DEF LeadsToFree
    <3> QED
      BY <1>10, <3>1, <3>2, <3>3, HomeIsHome, BrowsedOrderly DEF Approve, OrderlyInv, OrderlyTypes
  <2> QED
    BY <2>1, <2>2
<1>11. CASE Deny(t) \/ Leave(t)
  BY <1>7, <1>11 DEF Deny, Leave, session
<1> QED
  BY <1>3, <1>4, <1>6, <1>8, <1>9, <1>10, <1>11 DEF Browse

\* With no code under way, steps in no tab that add no authorization.
LEMMA AsideOrderly ==
    ASSUME OrderlyInv, codes' = {}, UNCHANGED <<chosen, request, tab>>,
           \A a \in auths' : a.status = "1" => a \in auths,
           \A a \in auths' : DOMAIN a = {"id", "client", "scope", "ups", "status"}
    PROVE  OrderlyInv'
<1>1. \A t \in Tab : LeadsToFree(tab[t])'
  BY StillFree DEF OrderlyInv, LeadsToFree
<1>2. OncePerKind'
  BY StillOnce DEF OrderlyInv
<1> QED
  BY <1>1, <1>2 DEF OrderlyInv, OrderlyTypes

LEMMA OrderlyNext == ASSUME OrderlyInv, [Orderly]_vars PROVE OrderlyInv'
<1>1. ASSUME NEW t \in Tab, codes = {}, Alone(t), Browse(t) PROVE OrderlyInv'
  BY <1>1, TabsOrderly
<1>2. ASSUME NEW r \in codes, ExchangeKnown(r) PROVE OrderlyInv'
  <2>1. codes' = {} /\ UNCHANGED <<chosen, request, tab, auths>>
    BY <1>2 DEF ExchangeKnown, session, OrderlyInv
  <2> QED
    BY <2>1, AsideOrderly DEF OrderlyInv, OrderlyTypes
<1>3. ASSUME NEW r \in codes, ExchangeNew(r) PROVE OrderlyInv'
  <2> DEFINE new == [id |-> Cardinality(auths) + 1, client |-> r.client, scope |-> r.scope,
                     ups |-> Linked(r), status |-> "1"]
  <2>1. codes' = {} /\ UNCHANGED <<chosen, request, tab>> /\ auths' = auths \cup {new}
    BY <1>3 DEF ExchangeNew, session, OrderlyInv
  <2>2. Free(r.client, r.up)
    BY <1>3 DEF ExchangeNew, OrderlyInv
  <2>3. Linked(r) = {r.up}
    BY <2>2, ConsentAssumption DEF Linked, Free, ConsentAssumption
  <2>4. /\ new.client = r.client /\ new.ups = {r.up}
        /\ DOMAIN new = {"id", "client", "scope", "ups", "status"}
    BY <2>3
  <2> HIDE DEF new
  <2>5. ASSUME NEW b \in auths, b.client = r.client, b.status = "1", NEW v \in b.ups
        PROVE  ServiceKind[v] # ServiceKind[r.up]
    BY <2>2, <2>5, ActiveKind DEF Free
  <2>6. OncePerKind'
    <3> SUFFICES ASSUME NEW a \in auths', NEW b \in auths',
                        a # b, a.client = b.client, a.status = "1", b.status = "1",
                        NEW u \in a.ups, NEW v \in b.ups
                 PROVE  ServiceKind[u] # ServiceKind[v]
      BY DEF OncePerKind
    <3>1. CASE a \in auths /\ b \in auths
      BY <3>1 DEF OrderlyInv, OncePerKind
    <3>2. CASE a = new /\ b \in auths
      BY <2>4, <2>5, <3>2
    <3>3. CASE b = new /\ a \in auths
      BY <2>4, <2>5, <3>3
    <3> QED
      BY <2>1, <3>1, <3>2, <3>3
  <2>7. \A t \in Tab : tab'[t] = Home
    BY <1>3, <2>1 DEF OrderlyInv
  <2>8. \A t \in Tab : LeadsToFree(tab[t])'
    BY <2>7, HomeIsHome DEF LeadsToFree
  <2> QED
    BY <2>1, <2>4, <2>6, <2>7, <2>8 DEF OrderlyInv, OrderlyTypes
<1>4. CASE codes = {} /\ Elapse
  BY <1>4, AsideOrderly DEF Elapse, Expire, Forget, session, OrderlyInv, OrderlyTypes
<1>5. ASSUME NEW a \in auths, codes = {}, Revoke(a) PROVE OrderlyInv'
  <2>1. /\ auths' = (auths \ {a}) \cup {[a EXCEPT !.status = "0"]}
        /\ UNCHANGED <<chosen, request, tab, codes>>
    BY <1>5 DEF Revoke, session
  <2>2. /\ [a EXCEPT !.status = "0"].status = "0"
        /\ DOMAIN [a EXCEPT !.status = "0"] = {"id", "client", "scope", "ups", "status"}
    BY DEF OrderlyInv, OrderlyTypes
  <2> QED
    BY <1>5, <2>1, <2>2, AsideOrderly DEF OrderlyInv, OrderlyTypes
<1>6. CASE UNCHANGED vars
  <2>1. UNCHANGED <<chosen, request, tab, codes, token, auths>>
    BY <1>6 DEF vars
  <2> QED
    BY <2>1 DEF OrderlyInv, OrderlyTypes, LeadsToFree, Known, Free, KindsOf, OncePerKind
<1> QED
  BY <1>1, <1>2, <1>3, <1>4, <1>5, <1>6 DEF Orderly, Exchanges, Withdraw

-----------------------------------------------------------------------------
(* The two customers.  Nobody changes habits, and what either does is a     *)
(* step of the session.                                                     *)

HabitInv == ShownInv /\ (habit = "orderly" => OrderlyInv)

LEMMA HabitNext ==
    ASSUME HabitInv, habit \in {"tabs", "orderly"}, [NextCustomer]_<<vars, habit>>
    PROVE  HabitInv' /\ habit' = habit /\ [Approved(shown)]_vars
<1>1. habit' = habit
  BY DEF NextCustomer
<1>2. [Next]_vars
  BY DEF NextCustomer, InTabs, Orderly, Next, vars
<1>3. habit = "orderly" => [Orderly]_vars
  BY DEF NextCustomer, vars
<1>4. habit = "orderly" => OrderlyInv'
  BY <1>3, OrderlyNext DEF HabitInv
<1> QED
  BY <1>1, <1>2, <1>4, ShownNext DEF HabitInv

LEMMA HabitsLast ==
    SpecCustomer => [](HabitInv /\ habit \in {"tabs", "orderly"}) /\ [][Approved(shown)]_vars
<1>1. InitCustomer => HabitInv /\ habit \in {"tabs", "orderly"}
  BY ShownInit, OrderlyInit DEF InitCustomer, HabitInv
<1>2. HabitInv /\ habit \in {"tabs", "orderly"} /\ [NextCustomer]_<<vars, habit>>
        => /\ (HabitInv /\ habit \in {"tabs", "orderly"})'
           /\ [Approved(shown)]_vars
  BY HabitNext
<1> QED
  BY <1>1, <1>2, PTL DEF SpecCustomer

\* Whatever is opened, chosen and dated in whichever tab, and whenever the session ends, a code
\* is issued only for the client, usage point and end date that were shown to the customer last
\* (AccessConfirmationController.java:85-165 and 279-291).
THEOREM GrantsWhatWasShown == SpecCustomer => GrantedWasShown
  BY HabitsLast, PTL DEF GrantedWasShown

\* A customer who does one thing after another in one tab never authorizes a third party twice
\* for one kind of service (ScopeSelectionController.java:70-124).
THEOREM OrderlyIsOncePerKind == SpecCustomer => []OrderlyOncePerKind
<1>1. HabitInv => OrderlyOncePerKind
  BY DEF HabitInv, OrderlyInv, OrderlyOncePerKind
<1> QED
  BY <1>1, HabitsLast, PTL
================================================================================

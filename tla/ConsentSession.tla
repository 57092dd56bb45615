---------------------------- MODULE ConsentSession ----------------------------
(***************************************************************************)
(* One customer's browser session, in several tabs: choosing the usage     *)
(* point a third party is to see (ScopeSelectionController), confirming    *)
(* the third party's request (AccessConfirmationController and the OAuth   *)
(* authorization endpoint), and the authorizations that come out of the    *)
(* exchanged codes (EspiTokenEnhancer).  The chosen usage point and the    *)
(* request are kept in the session, which the tabs share.                  *)
(***************************************************************************)
EXTENDS Naturals, FiniteSets

CONSTANTS
    Client,        \* third parties
    UsagePoint,    \* the customer's usage points
    Tab,
    ServiceKind,   \* kind of service of each usage point
    Compatible,    \* usage points each third party's scope fits
    Scope,         \* the scope string a usage point gives in a third party's request
    Nothing,       \* no usage point, no end date, no client, no request
    MaxCodes,      \* bound: codes not exchanged yet
    MaxAuth        \* bound: no code is issued once so many authorizations were created

ASSUME ConsentAssumption ==
    /\ Nothing \notin Client \cup UsagePoint
    /\ Compatible \in [Client -> SUBSET UsagePoint]
    /\ DOMAIN ServiceKind = UsagePoint /\ DOMAIN Scope = UsagePoint
    /\ {MaxCodes, MaxAuth} \subseteq Nat

VARIABLES
    chosen,    \* session attribute usagePointId
    request,   \* session attribute authorizationRequest, with its extensions
    tab,       \* the page in each tab
    codes,     \* authorization codes not exchanged yet
    token,     \* each client and scope's access token: "none", "live" or "expired"
    auths,     \* the customer's authorizations
    shown      \* history: the confirmation rendered last

session == <<chosen, request>>
vars    == <<chosen, request, tab, codes, token, auths, shown>>

Scopes == {Scope[u] : u \in UsagePoint}
Keys   == Client \X Scopes
Ends   == {"default", "picked", Nothing}
Asked  == [client : Client, scope : Scopes, up : UsagePoint \cup {Nothing}, end : Ends]
Places == {"home", "choose", "thirdparty", "confirm"}
Page   == [at : Places, client : Client \cup {Nothing}, scope : Scopes \cup {Nothing},
           up : UsagePoint \cup {Nothing}, end : Ends, offered : SUBSET UsagePoint]
Home   == [at |-> "home", client |-> Nothing, scope |-> Nothing, up |-> Nothing, end |-> Nothing,
           offered |-> {}]
Authorization == [id : Nat, client : Client, scope : Scopes, ups : SUBSET UsagePoint,
                  status : {"0", "1"}]

Show(t, p) == tab' = [tab EXCEPT ![t] = p]
Confirmation(r) == [at |-> "confirm", client |-> r.client, scope |-> r.scope, up |-> r.up,
                    end |-> r.end, offered |-> {}]
KindsOf(c) == {ServiceKind[u] : u \in UNION {a.ups : a \in {x \in auths : x.client = c /\ x.status = "1"}}}

-----------------------------------------------------------------------------
(* ScopeSelectionController. *)

\* Mutant of Applicable: authorizations already given are not looked at.
ApplicableAll(c) == Compatible[c]

\* Usage points of a kind the third party is not yet authorized for.
Applicable(c) == {u \in Compatible[c] : ServiceKind[u] \notin KindsOf(c)}

ToThirdParty(t, c, u) ==
    /\ chosen' = u
    /\ Show(t, [Home EXCEPT !.at = "thirdparty", !.client = c, !.scope = Scope[u]])

ScopeSelection(t, c) ==
    /\ tab[t].at = "home"
    /\ \/ \E u \in Applicable(c) : Applicable(c) = {u} /\ ToThirdParty(t, c, u)
       \/ /\ Cardinality(Applicable(c)) # 1
          /\ Show(t, [Home EXCEPT !.at = "choose", !.client = c, !.offered = Applicable(c)])
          /\ UNCHANGED chosen
    /\ UNCHANGED <<request, codes, token, auths, shown>>

\* Any usage point the page offered; the POST does not look again whether it is applicable.
ScopeSelectionConfirm(t, u) ==
    /\ tab[t].at = "choose"
    /\ u \in tab[t].offered
    /\ ToThirdParty(t, tab[t].client, u)
    /\ UNCHANGED <<request, codes, token, auths, shown>>

-----------------------------------------------------------------------------
(* The third party sends the browser to the authorization endpoint. *)

Issue(r) ==
    /\ Cardinality(codes) < MaxCodes
    /\ Cardinality(auths) < MaxAuth
    /\ codes' = codes \cup {r}

\* The approval handler answers for a customer whose token for the client is live.
PreApproved(t) ==
    /\ tab[t].at = "thirdparty"
    /\ token[<<tab[t].client, tab[t].scope>>] = "live"
    /\ Issue([client |-> tab[t].client, scope |-> tab[t].scope, up |-> Nothing, end |-> Nothing])
    /\ Show(t, Home)
    /\ UNCHANGED <<session, token, auths, shown>>

Render(t, r) ==
    /\ request' = r
    /\ Show(t, Confirmation(r))
    /\ shown' = r

\* What getAccessConfirmation puts into the request's extensions.
Confirmed(r) ==
    IF chosen = Nothing THEN r
    ELSE [r EXCEPT !.up = chosen, !.end = IF r.end = Nothing THEN "default" ELSE r.end]

GetAccessConfirmation(t) ==
    LET p == tab[t]
    IN  /\ p.at = "thirdparty"
        /\ token[<<p.client, p.scope>>] # "live"
        /\ Render(t, Confirmed([client |-> p.client, scope |-> p.scope,
                                up |-> Nothing, end |-> Nothing]))
        /\ UNCHANGED <<chosen, codes, token, auths>>

\* Mutant of SetDate: the date goes into the session, the page is not rendered again.
SetDateUnseen(t) ==
    /\ tab[t].at = "confirm" /\ request # Nothing
    /\ request' = Confirmed([request EXCEPT !.end = "picked"])
    /\ UNCHANGED <<chosen, tab, codes, token, auths, shown>>

\* The date goes into the session's request, whichever tab that came from; with none in
\* the session the handler fails.
SetDate(t) ==
    /\ tab[t].at = "confirm"
    /\ IF request = Nothing
         THEN Show(t, Home) /\ UNCHANGED <<request, shown>>
         ELSE Render(t, Confirmed([request EXCEPT !.end = "picked"]))
    /\ UNCHANGED <<chosen, codes, token, auths>>

\* POST /oauth/authorize: the session's request is approved and leaves the session.
Approve(t) ==
    /\ tab[t].at = "confirm"
    /\ IF request = Nothing THEN UNCHANGED codes ELSE Issue(request)
    /\ request' = Nothing
    /\ Show(t, Home)
    /\ UNCHANGED <<chosen, token, auths, shown>>

Deny(t) ==
    /\ tab[t].at = "confirm"
    /\ request' = Nothing
    /\ Show(t, Home)
    /\ UNCHANGED <<chosen, codes, token, auths, shown>>

Leave(t) ==
    /\ tab[t] # Home
    /\ Show(t, Home)
    /\ UNCHANGED <<session, codes, token, auths, shown>>

SessionEnds ==
    /\ chosen' = Nothing /\ request' = Nothing
    /\ UNCHANGED <<tab, codes, token, auths, shown>>

-----------------------------------------------------------------------------
(* The code is exchanged (in one go here; AuthorizationLifecycle has the steps). *)

\* Mutant of Linked: the case of no usage point is overlooked.
LinkedAsAsked(r) == {r.up}

\* Without a usage point in the request, all of the customer's are linked.
Linked(r) == IF r.up = Nothing THEN UsagePoint ELSE {r.up}

Known(r) == token[<<r.client, r.scope>>]

\* Without a token, or with one whose refresh token has expired too.
ExchangeNew(r) ==
    /\ Known(r) # "live"
    /\ codes' = codes \ {r}
    /\ token' = [token EXCEPT ![<<r.client, r.scope>>] = "live"]
    /\ auths' = auths \cup {[id |-> Cardinality(auths) + 1, client |-> r.client, scope |-> r.scope,
                             ups |-> Linked(r), status |-> "1"]}
    /\ UNCHANGED <<session, tab, shown>>

\* A client with a token is given that one, or a new one for the authorization found by
\* its refresh token.
ExchangeKnown(r) ==
    /\ Known(r) # "none"
    /\ codes' = codes \ {r}
    /\ token' = [token EXCEPT ![<<r.client, r.scope>>] = "live"]
    /\ UNCHANGED <<session, tab, auths, shown>>

Expire(k) ==
    /\ token[k] = "live"
    /\ token' = [token EXCEPT ![k] = "expired"]
    /\ UNCHANGED <<session, tab, codes, auths, shown>>

\* An expired token that is presented is removed.
Forget(k) ==
    /\ token[k] = "expired"
    /\ token' = [token EXCEPT ![k] = "none"]
    /\ UNCHANGED <<session, tab, codes, auths, shown>>

Revoke(a) ==
    /\ a.status = "1"
    /\ auths' = (auths \ {a}) \cup {[a EXCEPT !.status = "0"]}
    /\ token' = [token EXCEPT ![<<a.client, a.scope>>] = "none"]
    /\ UNCHANGED <<session, tab, codes, shown>>

-----------------------------------------------------------------------------
Init ==
    /\ chosen = Nothing /\ request = Nothing /\ shown = Nothing
    /\ tab = [t \in Tab |-> Home]
    /\ codes = {} /\ auths = {}
    /\ token = [k \in Keys |-> "none"]

Browse(t) ==
    \/ \E c \in Client : ScopeSelection(t, c)
    \/ \E u \in UsagePoint : ScopeSelectionConfirm(t, u)
    \/ PreApproved(t) \/ GetAccessConfirmation(t)
    \/ SetDate(t) \/ Approve(t) \/ Deny(t) \/ Leave(t)

Exchanges == \E r \in codes : ExchangeNew(r) \/ ExchangeKnown(r)
Elapse    == \E k \in Keys : Expire(k) \/ Forget(k)
Withdraw  == \E a \in auths : Revoke(a)

Next == (\E t \in Tab : Browse(t)) \/ SessionEnds \/ Exchanges \/ Elapse \/ Withdraw
Spec == Init /\ [][Next]_vars

\* One thing after another, in one tab and one session: a code is exchanged before the
\* customer or time goes on.
Alone(t) == \A u \in Tab : u = t \/ tab[u] = Home
Orderly  ==
    \/ Exchanges
    \/ codes = {} /\ ((\E t \in Tab : Alone(t) /\ Browse(t)) \/ Elapse \/ Withdraw)

-----------------------------------------------------------------------------
TypeOK ==
    /\ chosen \in UsagePoint \cup {Nothing}
    /\ request \in Asked \cup {Nothing}
    /\ tab \in [Tab -> Page]
    /\ codes \subseteq Asked
    /\ token \in [Keys -> {"none", "live", "expired"}]
    /\ auths \subseteq Authorization
    /\ shown \in Asked \cup {Nothing}

\* Approving a confirmation page yields no other code than ...
Approved(r) ==
    \A t \in Tab : tab[t].at = "confirm" /\ tab'[t].at = "home" => codes' \ codes \subseteq {r}

\* ... the one for what was rendered last: whatever other tabs and the session's end did, the
\* client, usage point and end date that are granted have been shown to the customer.
GrantedWasShown == [][Approved(shown)]_vars

\* A customer who does one thing after another in one tab never authorizes a third party
\* twice for one kind of service.
OncePerKind ==
    \A a, b \in auths :
        /\ a # b /\ a.client = b.client /\ a.status = "1" /\ b.status = "1"
        => \A u \in a.ups, v \in b.ups : ServiceKind[u] # ServiceKind[v]
=============================================================================

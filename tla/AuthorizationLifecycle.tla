------------------------ MODULE AuthorizationLifecycle ------------------------
(***************************************************************************)
(* How the Data Custodian grants, renews, checks, changes and withdraws a  *)
(* third party's access to a customer's data.                              *)
(*                                                                         *)
(* Two databases are involved and no transaction spans them: the OAuth2    *)
(* token store (JdbcTokenStore over its own autocommitting data source)    *)
(* and the application's authorizations table.  Every handler below is a   *)
(* sequence of steps, one per database access whose effect another request *)
(* can see; requests run on separate threads (Worker) and interleave.      *)
(***************************************************************************)
EXTENDS Naturals, FiniteSets

CONSTANTS
    Party,            \* (customer, client, scope): what the token store keys an access token by
    NoParty,          \* placeholder of an idle thread
    Kind,             \* the grant type each party's client uses
    Worker,           \* request threads
    OneTokenPerParty, \* oauth_access_token.authentication_id is unique in the deployment's schema
    DefaultDays,      \* length of a period when the customer chose no end date (365 in the code)
    MaxCodes,         \* bound: consents given and not yet exchanged
    MaxToken,         \* bound: no token request begins once these values are issued
    MaxRow,           \* bound: no change of an authorization begins once more are inserted
    MaxDay            \* bound: days that pass

GrantTypes == {"authorization_code", "password", "client_credentials"}

ASSUME PartyAssumption == NoParty \notin Party /\ Kind \in [Party -> GrantTypes]
ASSUME SchemaAssumption == OneTokenPerParty \in BOOLEAN
ASSUME BoundAssumption == {DefaultDays, MaxCodes, MaxToken, MaxRow, MaxDay} \subseteq Nat

VARIABLES
    access,      \* oauth_access_token: set of AccessToken
    refreshes,   \* oauth_refresh_token: set of RefreshToken
    rows,        \* authorizations: set of Authorization
    codes,       \* authorization codes not yet exchanged, in memory
    worker,      \* what each request thread is doing and what it has read
    expired,     \* token values whose validity has run out
    today,       \* the day on the server's clock
    nextToken,   \* next unused token value (values are random, hence unique)
    nextRow      \* next authorization id (auto increment)

stores == <<access, refreshes>>
clock  == <<expired, today>>
vars   == <<access, refreshes, rows, codes, worker, expired, today, nextToken, nextRow>>

-----------------------------------------------------------------------------
(* Tables and threads. *)

NoValue == 0                       \* no token, no refresh token, no end date

AccessToken  == [token : Nat, party : Party, refresh : Nat]
\* The end date chosen at consent travels in the serialized authentication.
RefreshToken == [id : Nat, party : Party, end : Nat]
Status       == {"0", "1"}         \* "1" active, "0" revoked
Authorization == [id : Nat, party : Party, token : Nat, refresh : Nat,
                  status : Status, start : Nat, end : Nat]
Code         == [party : Party, end : Nat]

NoRow == [id |-> 0, party |-> NoParty, token |-> NoValue, refresh |-> NoValue,
          status |-> "0", start |-> 0, end |-> 0]
Idle  == [at |-> "idle", party |-> NoParty, token |-> NoValue, refresh |-> NoValue,
          end |-> NoValue, refreshing |-> FALSE, row |-> NoRow]

Places == {"idle", "lookup", "restore", "enhance", "update", "create", "storeAccess",
           "storeRefresh", "filter", "serving", "readToken", "revokeToken", "merge",
           "delete", "revokeDeleted"}

Request == [at : Places, party : Party \cup {NoParty}, token : Nat, refresh : Nat,
            end : Nat, refreshing : BOOLEAN, row : Authorization \cup {NoRow}]

Held(p)         == {t \in access : t.party = p}
TokenNamed(v)   == {t \in access : t.token = v}
WithRefresh(r)  == {t \in access : t.refresh = r}
ById(i)         == {x \in rows : x.id = i}
ByToken(v)      == {x \in rows : x.token = v}
ByRefresh(r)    == {x \in rows : x.refresh = r}
Active(p)       == {x \in rows : x.party = p /\ x.status = "1"}

\* Hibernate writes every column of the entity, whatever the request changed.
Overwrite(x)    == {y \in rows : y.id # x.id} \cup {x}
WithoutRefresh(r) == {f \in refreshes : f.id # r}

\* The part of an authorization or of a request that the token store records.
Meaning(z)      == [token |-> z.token, party |-> z.party, refresh |-> z.refresh]

At(w, place)    == worker[w].at = place
Become(w, req)  == worker' = [worker EXCEPT ![w] = req]
Goto(w, place)  == Become(w, [worker[w] EXCEPT !.at = place])
Finish(w)       == Become(w, Idle)

\* ConsumerTokenServices.revokeToken: the refresh token, then the access token.
RevokeStored(v) ==
    /\ access' = access \ TokenNamed(v)
    /\ refreshes' = {f \in refreshes : \A t \in TokenNamed(v) : f.id # t.refresh}

\* The bounds hold back new requests, never one that has begun.
RoomForGrant  == nextToken <= MaxToken
RoomForChange == nextRow <= MaxRow + 1

-----------------------------------------------------------------------------
(* The customer's consent and the start of a token request. *)

\* A live token counts as an approval (TokenApprovalStore), so the confirmation
\* page, where the end date is chosen, is shown only to a customer without one.
PreApproved(p) == \E t \in Held(p) : t.token \notin expired

Consent(p, d) ==
    /\ Kind[p] = "authorization_code"
    /\ PreApproved(p) => d = NoValue
    /\ Cardinality(codes) < MaxCodes
    /\ codes' = codes \cup {[party |-> p, end |-> d]}
    /\ UNCHANGED <<stores, rows, worker, clock, nextToken, nextRow>>

ExchangeCode(w, c) ==
    /\ At(w, "idle")
    /\ RoomForGrant
    /\ codes' = codes \ {c}
    /\ Become(w, [Idle EXCEPT !.at = "lookup", !.party = c.party, !.end = c.end])
    /\ UNCHANGED <<stores, rows, clock, nextToken, nextRow>>

\* The token endpoint takes a password grant from any client registered for it ...
PasswordGrant(w, p) ==
    /\ At(w, "idle")
    /\ RoomForGrant
    /\ Kind[p] = "password"
    /\ Become(w, [Idle EXCEPT !.at = "lookup", !.party = p])
    /\ UNCHANGED <<stores, rows, codes, clock, nextToken, nextRow>>

\* ... and the portal posts one only for a customer who has no active authorization.
GetOauthToken(w, p) == Active(p) = {} /\ PasswordGrant(w, p)

ClientGrant(w, p) ==
    /\ At(w, "idle")
    /\ RoomForGrant
    /\ Kind[p] = "client_credentials"
    /\ Become(w, [Idle EXCEPT !.at = "lookup", !.party = p])
    /\ UNCHANGED <<stores, rows, codes, clock, nextToken, nextRow>>

-----------------------------------------------------------------------------
(* DefaultTokenServices.createAccessToken, up to the call of the enhancer. *)

\* A new access token under the refresh token r; r = NoValue asks for a new one
\* too, except for client credentials, whose clients get none.
Issue(w, r) ==
    LET req   == worker[w]
        fresh == r = NoValue /\ Kind[req.party] # "client_credentials"
    IN  /\ Become(w, [req EXCEPT !.at = "enhance", !.token = nextToken,
                                 !.refresh = IF fresh THEN nextToken + 1 ELSE r])
        /\ nextToken' = nextToken + (IF fresh THEN 2 ELSE 1)

LookupNone(w) ==
    /\ At(w, "lookup")
    /\ Held(worker[w].party) = {}
    /\ Issue(w, NoValue)
    /\ UNCHANGED <<stores, rows, codes, clock, nextRow>>

LookupLive(w) ==
    /\ At(w, "lookup")
    /\ \E t \in Held(worker[w].party) :
          /\ Held(worker[w].party) = {t}
          /\ t.token \notin expired
          /\ Become(w, [worker[w] EXCEPT !.at = "restore", !.token = t.token,
                                         !.refresh = t.refresh])
    /\ UNCHANGED <<stores, rows, codes, clock, nextToken, nextRow>>

\* The expired token's refresh token is reused unless it has expired as well.
LookupExpired(w) ==
    /\ At(w, "lookup")
    /\ \E t \in Held(worker[w].party) :
          /\ Held(worker[w].party) = {t}
          /\ t.token \in expired
          /\ access' = access \ {t}
          /\ refreshes' = WithoutRefresh(t.refresh)
          /\ Issue(w, IF t.refresh \in expired THEN NoValue ELSE t.refresh)
    /\ UNCHANGED <<rows, codes, clock, nextRow>>

\* Two tokens under one key: the store's single-row query throws.
LookupAmbiguous(w) ==
    /\ At(w, "lookup")
    /\ Cardinality(Held(worker[w].party)) > 1
    /\ Finish(w)
    /\ UNCHANGED <<stores, rows, codes, clock, nextToken, nextRow>>

\* The live token is stored again under its own value and returned: storeAccessToken
\* removes it and inserts it anew, and a unique key may refuse the insertion.
Restore(w) ==
    LET req    == worker[w]
        others == access \ TokenNamed(req.token)
        free   == OneTokenPerParty => \A t \in others : t.party # req.party
    IN  /\ At(w, "restore")
        /\ access' = IF free THEN others \cup {Meaning(req)} ELSE others
        /\ Finish(w)
        /\ UNCHANGED <<refreshes, rows, codes, clock, nextToken, nextRow>>

\* DefaultTokenServices.refreshAccessToken, up to the call of the enhancer.
RefreshGrant(w, f) ==
    /\ At(w, "idle")
    /\ RoomForGrant
    /\ Kind[f.party] # "client_credentials"
    /\ f.id \notin expired
    /\ access' = access \ WithRefresh(f.id)
    /\ Become(w, [Idle EXCEPT !.at = "enhance", !.party = f.party, !.token = nextToken,
                              !.refresh = f.id, !.end = f.end, !.refreshing = TRUE])
    /\ nextToken' = nextToken + 1
    /\ UNCHANGED <<refreshes, rows, codes, clock, nextRow>>

RefreshExpired(w, f) ==
    /\ At(w, "idle")
    /\ f.id \in expired
    /\ access' = access \ WithRefresh(f.id)
    /\ refreshes' = refreshes \ {f}
    /\ UNCHANGED <<rows, codes, worker, clock, nextToken, nextRow>>

-----------------------------------------------------------------------------
(* EspiTokenEnhancer.enhance: one transaction on the application database, in which *)
(* a snapshot read is followed, later, by a full-row write.                          *)

\* Mutant of PeriodEnd: how long the period lasts, and not when it ends.
PeriodLength(p, d) == d - today

PeriodEnd(p, d) ==
    IF Kind[p] = "client_credentials" THEN NoValue
    ELSE IF d = NoValue THEN today + DefaultDays
    ELSE IF d < today THEN today ELSE d

\* Mutant of EnhanceFound: an updated authorization is made active.
EnhanceFoundActivates(w) ==
    LET req == worker[w]
    IN  /\ At(w, "enhance")
        /\ Kind[req.party] = "authorization_code"
        /\ \E x \in ByRefresh(req.refresh) :
              Become(w, [req EXCEPT !.at = "update",
                                    !.row = [x EXCEPT !.token = req.token, !.status = "1"]])
        /\ UNCHANGED <<stores, rows, codes, clock, nextToken, nextRow>>

\* Mutant of EnhanceFound: the authorization is sought by customer and client.
EnhanceFoundByParty(w) ==
    LET req == worker[w]
    IN  /\ At(w, "enhance")
        /\ Kind[req.party] = "authorization_code"
        /\ \E x \in Active(req.party) :
              Become(w, [req EXCEPT !.at = "update", !.row = [x EXCEPT !.token = req.token]])
        /\ UNCHANGED <<stores, rows, codes, clock, nextToken, nextRow>>

EnhanceFound(w) ==
    LET req == worker[w]
    IN  /\ At(w, "enhance")
        /\ Kind[req.party] = "authorization_code"
        /\ \E x \in ByRefresh(req.refresh) :
              /\ ByRefresh(req.refresh) = {x}
              /\ Become(w, [req EXCEPT !.at = "update",
                                       !.row = [x EXCEPT !.token = req.token]])
        /\ UNCHANGED <<stores, rows, codes, clock, nextToken, nextRow>>

\* Mutant of EnhanceNotFound: no authorization is sought.
EnhanceNotSought(w) ==
    /\ At(w, "enhance")
    /\ Goto(w, "create")
    /\ UNCHANGED <<stores, rows, codes, clock, nextToken, nextRow>>

EnhanceNotFound(w) ==
    LET req == worker[w]
    IN  /\ At(w, "enhance")
        /\ Kind[req.party] = "authorization_code" => ByRefresh(req.refresh) = {}
        /\ Goto(w, "create")
        /\ UNCHANGED <<stores, rows, codes, clock, nextToken, nextRow>>

\* NonUniqueResultException is not among the exceptions enhance catches.
EnhanceAmbiguous(w) ==
    LET req == worker[w]
    IN  /\ At(w, "enhance")
        /\ Kind[req.party] = "authorization_code"
        /\ Cardinality(ByRefresh(req.refresh)) > 1
        /\ Finish(w)
        /\ UNCHANGED <<stores, rows, codes, clock, nextToken, nextRow>>

EnhanceUpdate(w) ==
    LET x == worker[w].row
    IN  /\ At(w, "update")
        /\ ById(x.id) # {}
        /\ rows' = Overwrite(x)
        /\ Goto(w, "storeAccess")
        /\ UNCHANGED <<stores, codes, clock, nextToken, nextRow>>

\* The row was deleted meanwhile: the UPDATE matches nothing and the transaction rolls back.
EnhanceUpdateVanished(w) ==
    /\ At(w, "update")
    /\ ById(worker[w].row.id) = {}
    /\ Finish(w)
    /\ UNCHANGED <<stores, rows, codes, clock, nextToken, nextRow>>

EnhanceCreate(w) ==
    LET req == worker[w]
    IN  /\ At(w, "create")
        /\ rows' = rows \cup
              {[id |-> nextRow, party |-> req.party, token |-> req.token,
                refresh |-> req.refresh, status |-> "1",
                start |-> IF Kind[req.party] = "client_credentials" THEN 0 ELSE today,
                end |-> PeriodEnd(req.party, req.end)]}
        /\ nextRow' = nextRow + 1
        /\ Goto(w, "storeAccess")
        /\ UNCHANGED <<stores, codes, clock, nextToken>>

(* ... and the token store again, after enhance has committed. *)

\* Mutant of StoreAccess: the token is stored without its refresh token.
StoreAccessAlone(w) ==
    /\ At(w, "storeAccess")
    /\ access' = access \cup {[Meaning(worker[w]) EXCEPT !.refresh = NoValue]}
    /\ Finish(w)
    /\ UNCHANGED <<refreshes, rows, codes, clock, nextToken, nextRow>>

StoreAccess(w) ==
    LET req == worker[w]
    IN  /\ At(w, "storeAccess")
        /\ OneTokenPerParty => Held(req.party) = {}
        /\ access' = access \cup {Meaning(req)}
        /\ IF req.refreshing \/ req.refresh = NoValue
             THEN Finish(w) ELSE Goto(w, "storeRefresh")
        /\ UNCHANGED <<refreshes, rows, codes, clock, nextToken, nextRow>>

\* Duplicate key: the request fails with the authorization already committed.
StoreAccessRejected(w) ==
    /\ At(w, "storeAccess")
    /\ OneTokenPerParty /\ Held(worker[w].party) # {}
    /\ Finish(w)
    /\ UNCHANGED <<stores, rows, codes, clock, nextToken, nextRow>>

StoreRefresh(w) ==
    LET req == worker[w]
    IN  /\ At(w, "storeRefresh")
        /\ refreshes' = WithoutRefresh(req.refresh) \cup
              {[id |-> req.refresh, party |-> req.party, end |-> req.end]}
        /\ Finish(w)
        /\ UNCHANGED <<access, rows, codes, clock, nextToken, nextRow>>

-----------------------------------------------------------------------------
(* A resource request: Spring's resource-server filter, then ResourceValidationFilter. *)

\* loadAuthentication accepts a stored token and removes one that has expired; the
\* refresh token stays.
LoadAuthentication(w, t) ==
    /\ At(w, "idle")
    /\ t.token \notin expired
    /\ Become(w, [Idle EXCEPT !.at = "filter", !.party = t.party, !.token = t.token,
                              !.refresh = t.refresh])
    /\ UNCHANGED <<stores, rows, codes, clock, nextToken, nextRow>>

LoadAuthenticationExpired(w, t) ==
    /\ At(w, "idle")
    /\ t.token \in expired
    /\ access' = access \ {t}
    /\ UNCHANGED <<refreshes, rows, codes, worker, clock, nextToken, nextRow>>

\* Mutant of Valid: the status is not looked at.
ValidInTime(x) == x.end = NoValue \/ x.end >= today

Valid(x) == x.status = "1" /\ (x.end = NoValue \/ x.end >= today)

\* Mutant of DoFilterPass: a valid authorization, but not the presented token's.
DoFilterPassAny(w) ==
    /\ At(w, "filter")
    /\ \E x \in rows : Valid(x) /\ Become(w, [worker[w] EXCEPT !.at = "serving", !.row = x])
    /\ UNCHANGED <<stores, rows, codes, clock, nextToken, nextRow>>

DoFilterPass(w) ==
    /\ At(w, "filter")
    /\ \E x \in ByToken(worker[w].token) :
          /\ ByToken(worker[w].token) = {x}
          /\ Valid(x)
          /\ Become(w, [worker[w] EXCEPT !.at = "serving", !.row = x])
    /\ UNCHANGED <<stores, rows, codes, clock, nextToken, nextRow>>

\* No authorization, more than one, or one that is revoked or over: access denied.
DoFilterDeny(w) ==
    /\ At(w, "filter")
    /\ ~\E x \in ByToken(worker[w].token) : ByToken(worker[w].token) = {x} /\ Valid(x)
    /\ Finish(w)
    /\ UNCHANGED <<stores, rows, codes, clock, nextToken, nextRow>>

Served(w) ==
    /\ At(w, "serving")
    /\ Finish(w)
    /\ UNCHANGED <<stores, rows, codes, clock, nextToken, nextRow>>

-----------------------------------------------------------------------------
(* AuthorizedThirdPartiesController.update: revoke, or a new end date.  No transaction *)
(* spans the handler: the entity is read, detached, changed and merged back.            *)

RevokeRead(w, x) ==
    /\ At(w, "idle")
    /\ RoomForChange
    /\ Kind[x.party] # "client_credentials"
    /\ Become(w, [Idle EXCEPT !.at = "readToken", !.row = x])
    /\ UNCHANGED <<stores, rows, codes, clock, nextToken, nextRow>>

\* Mutant of ReadToken: a token that is gone ends the revocation.
ReadTokenOrGiveUp(w) ==
    /\ At(w, "readToken")
    /\ IF TokenNamed(worker[w].row.token) # {} THEN Goto(w, "revokeToken") ELSE Finish(w)
    /\ UNCHANGED <<stores, rows, codes, clock, nextToken, nextRow>>

ReadToken(w) ==
    LET req == worker[w]
    IN  /\ At(w, "readToken")
        /\ IF TokenNamed(req.row.token) # {}
             THEN Goto(w, "revokeToken")
             ELSE Become(w, [req EXCEPT !.at = "merge", !.row.status = "0"])
        /\ UNCHANGED <<stores, rows, codes, clock, nextToken, nextRow>>

\* revokeToken returns false when the token is gone by now, and then nothing is merged.
RevokeToken(w) ==
    LET req == worker[w]
    IN  /\ At(w, "revokeToken")
        /\ IF TokenNamed(req.row.token) # {}
             THEN Become(w, [req EXCEPT !.at = "merge", !.row.status = "0"])
             ELSE Finish(w)
        /\ RevokeStored(req.row.token)
        /\ UNCHANGED <<rows, codes, clock, nextToken, nextRow>>

\* A date before the period's start gives a duration that is not positive: ignored.
EndDateRead(w, x, d) ==
    /\ At(w, "idle")
    /\ RoomForChange
    /\ Kind[x.party] # "client_credentials"
    /\ d >= x.start
    /\ Become(w, [Idle EXCEPT !.at = "merge", !.row = [x EXCEPT !.end = d]])
    /\ UNCHANGED <<stores, rows, codes, clock, nextToken, nextRow>>

Merge(w) ==
    LET x == worker[w].row
    IN  /\ At(w, "merge")
        /\ ById(x.id) # {}
        /\ rows' = Overwrite(x)
        /\ Finish(w)
        /\ UNCHANGED <<stores, codes, clock, nextToken, nextRow>>

\* JPA merge of a detached entity whose row is gone inserts a copy under a new id.
MergeVanished(w) ==
    LET x == worker[w].row
    IN  /\ At(w, "merge")
        /\ ById(x.id) = {}
        /\ rows' = rows \cup {[x EXCEPT !.id = nextRow]}
        /\ nextRow' = nextRow + 1
        /\ Finish(w)
        /\ UNCHANGED <<stores, codes, clock, nextToken>>

-----------------------------------------------------------------------------
(* AuthorizationRESTController.delete: the row first, then the token it named. *)

DeleteRead(w, x) ==
    /\ At(w, "idle")
    /\ Become(w, [Idle EXCEPT !.at = "delete", !.row = x])
    /\ UNCHANGED <<stores, rows, codes, clock, nextToken, nextRow>>

DeleteRow(w) ==
    LET x == worker[w].row
    IN  /\ At(w, "delete")
        /\ rows' = rows \ ById(x.id)
        /\ IF ById(x.id) # {} THEN Goto(w, "revokeDeleted") ELSE Finish(w)
        /\ UNCHANGED <<stores, codes, clock, nextToken, nextRow>>

RevokeDeleted(w) ==
    /\ At(w, "revokeDeleted")
    /\ RevokeStored(worker[w].row.token)
    /\ Finish(w)
    /\ UNCHANGED <<rows, codes, clock, nextToken, nextRow>>

\* OauthAdminController.revokeToken: the store only, whatever the authorizations say.
AdminRevoke(w, t) ==
    /\ At(w, "idle")
    /\ RevokeStored(t.token)
    /\ UNCHANGED <<rows, codes, worker, clock, nextToken, nextRow>>

-----------------------------------------------------------------------------
(* Time, and what may go wrong. *)

\* Values whose validity can still be told: of any other nobody asks.
Known == {t.token : t \in access} \cup {t.refresh : t \in access} \cup {f.id : f \in refreshes}
         \cup {worker[w].token : w \in Worker} \cup {worker[w].refresh : w \in Worker}

Expire(v) ==
    /\ v # NoValue
    /\ v \notin expired
    /\ expired' = (expired \cap Known) \cup {v}
    /\ UNCHANGED <<stores, rows, codes, worker, today, nextToken, nextRow>>

NextDay ==
    /\ today < MaxDay
    /\ today' = today + 1
    /\ UNCHANGED <<stores, rows, codes, worker, expired, nextToken, nextRow>>

\* An exception (a lost database connection, say) ends a request between two steps.
Fail(w) ==
    /\ ~At(w, "idle")
    /\ Finish(w)
    /\ UNCHANGED <<stores, rows, codes, clock, nextToken, nextRow>>

\* Both databases survive a restart; codes and requests in flight do not.
Restart ==
    /\ codes' = {}
    /\ worker' = [w \in Worker |-> Idle]
    /\ UNCHANGED <<stores, rows, clock, nextToken, nextRow>>

-----------------------------------------------------------------------------
Init ==
    /\ access = {} /\ refreshes = {} /\ rows = {} /\ codes = {}
    /\ worker = [w \in Worker |-> Idle]
    /\ expired = {} /\ today = 1
    /\ nextToken = 1 /\ nextRow = 1

\* What a request already begun does next.
Step(w) ==
    \/ LookupNone(w) \/ LookupLive(w) \/ LookupExpired(w) \/ LookupAmbiguous(w)
    \/ Restore(w)
    \/ EnhanceFound(w) \/ EnhanceNotFound(w) \/ EnhanceAmbiguous(w)
    \/ EnhanceUpdate(w) \/ EnhanceUpdateVanished(w) \/ EnhanceCreate(w)
    \/ StoreAccess(w) \/ StoreAccessRejected(w) \/ StoreRefresh(w)
    \/ DoFilterPass(w) \/ DoFilterDeny(w) \/ Served(w)
    \/ ReadToken(w) \/ RevokeToken(w) \/ Merge(w) \/ MergeVanished(w)
    \/ DeleteRow(w) \/ RevokeDeleted(w)

\* What customers, third parties and administrators may ask for.
Begin(w) ==
    \/ \E c \in codes : ExchangeCode(w, c)
    \/ \E p \in Party : PasswordGrant(w, p) \/ GetOauthToken(w, p) \/ ClientGrant(w, p)
    \/ \E f \in refreshes : RefreshGrant(w, f) \/ RefreshExpired(w, f)
    \/ \E t \in access : LoadAuthentication(w, t) \/ LoadAuthenticationExpired(w, t)
                          \/ AdminRevoke(w, t)
    \/ \E x \in rows : RevokeRead(w, x) \/ DeleteRead(w, x)
    \/ \E x \in rows, d \in 1..MaxDay : EndDateRead(w, x, d)

Environment ==
    \/ \E p \in Party, d \in 0..MaxDay : Consent(p, d)
    \/ \E v \in Known : Expire(v)
    \/ NextDay

Fault == Restart \/ \E w \in Worker : Fail(w)

Next ==
    \/ \E w \in Worker : Step(w) \/ Begin(w)
    \/ Environment
    \/ Fault

Spec == Init /\ [][Next]_vars

\* Servlet threads run on; nobody is obliged to send a request, and nothing fails.
FairSpec ==
    /\ Init
    /\ [][(\E w \in Worker : Step(w) \/ Begin(w)) \/ Environment]_vars
    /\ \A w \in Worker : WF_vars(Step(w))

-----------------------------------------------------------------------------
(* Properties. *)

\* Every table holds records of its shape and every thread is at a known place.
TypeOK ==
    /\ access \subseteq AccessToken
    /\ refreshes \subseteq RefreshToken
    /\ rows \subseteq Authorization
    /\ codes \subseteq Code
    /\ worker \in [Worker -> Request]
    /\ expired \subseteq Nat
    /\ today \in Nat
    /\ nextToken \in Nat \ {0}
    /\ nextRow \in Nat \ {0}

\* What a request in flight holds in memory: the entity it has read, and the token it
\* is about to store, returns or was presented with.
Holding == {"restore", "enhance", "update", "create", "storeAccess", "storeRefresh",
            "filter", "serving"}

Carried(req) ==
    (IF req.row = NoRow THEN {} ELSE {Meaning(req.row)})
    \cup (IF req.at \in Holding THEN {Meaning(req)} ELSE {})

\* What access tokens stand for, wherever that is recorded.
Meanings == access \cup {Meaning(x) : x \in rows} \cup UNION {Carried(worker[w]) : w \in Worker}

\* An access token means one customer-client pair and one refresh token wherever it is
\* recorded, although the two databases are written by separate, interleaved requests.
\* (The filter combines a token found in one with an authorization found in the other.)
TokenMeansOne ==
    \A m, n \in Meanings : m.token = n.token => m = n

\* A request is answered under an authorization of the customer and client the
\* token store authenticated it as.
ServedUnderOwnAuthorization ==
    \A w \in Worker : At(w, "serving") => worker[w].row.party = worker[w].party

\* A refresh token renews one authorization only: findByRefreshToken has one answer.
RefreshTokenRenewsOne ==
    \A x, y \in rows :
        /\ x.refresh = y.refresh
        /\ Kind[x.party] = "authorization_code" /\ Kind[y.party] = "authorization_code"
        => x = y

\* No step turns a revoked authorization active again.
RevokedStaysRevoked ==
    [][\A x \in rows, y \in rows' : x.id = y.id /\ x.status = "0" => y.status = "0"]_vars

\* A customer's revocation that has begun leaves the authorization revoked (or deleted).
RevocationTakesEffect ==
    \A i \in 1..MaxRow :
        (\E w \in Worker : At(w, "readToken") /\ worker[w].row.id = i)
            ~> (\A x \in ById(i) : x.status = "0")

(* What the code's comments and pages say of it, and overlapping requests refute. *)

\* ResourceValidationFilter.java:107: "lookup the authorization -- we must have one to
\* correspond to an access token".  Of every stored token, when no request is in progress.
EveryTokenHasAuthorization ==
    (\A w \in Worker : At(w, "idle")) => \A t \in access : ByToken(t.token) # {}

\* EspiTokenEnhancer.java:208-211: finding an authorization by the refresh token means
\* "a refresh_token grant_type request", so that only the access token is to be updated.
FoundMeansRefreshRequest ==
    \A w \in Worker : At(w, "update") => worker[w].refreshing

=============================================================================

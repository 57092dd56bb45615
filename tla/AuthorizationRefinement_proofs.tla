---------------------- MODULE AuthorizationRefinement_proofs ----------------------
(***************************************************************************)
(* What holds when requests are handled one at a time, with failures,      *)
(* restarts and tokens expiring between any two steps of a request: the    *)
(* handlers implement AuthorizationContract, for any set of customers and  *)
(* clients and for any bounds.  With two threads all of it fails.          *)
(***************************************************************************)
EXTENDS AuthorizationRefinement, AuthorizationLifecycle_proofs

USE DEF NoValue

-----------------------------------------------------------------------------
(* None of the properties is inductive.  The handlers change an            *)
(* authorization by writing back an entity they have read before, so that  *)
(* all rests on the entity's still being what is in the table.             *)

\* The authorizations R, with n the next id: ids are used once, and periods have an end.
Sound(R, n) ==
    /\ \A x, y \in R : x.id = y.id => x = y
    /\ \A x \in R : 0 < x.id /\ x.id < n
    /\ \A x \in R : x.end <= MaxDay + DefaultDays

RenewsOne(R) ==
    \A x, y \in R :
        /\ x.refresh = y.refresh
        /\ Kind[x.party] = "authorization_code" /\ Kind[y.party] = "authorization_code"
        => x = y

Unchanged == {"serving", "readToken", "revokeToken", "delete"}

\* A request's entity is a row, but for what the handler has set.
Current(req, R) ==
    /\ req.at \in Unchanged => req.row \in R
    /\ req.at = "update" => \E y \in R : req.row = [y EXCEPT !.token = req.token]
    /\ req.at = "merge" => \E y \in R : \/ req.row = [y EXCEPT !.status = "0"]
                                        \/ \E d \in 1..MaxDay : req.row = [y EXCEPT !.end = d]

\* What the enhancer has looked up before it creates an authorization is still so.
Checked(req, R) ==
    req.at = "create" /\ Kind[req.party] = "authorization_code"
        => \A x \in R : x.refresh # req.refresh

Dates ==
    /\ today \in 1..MaxDay
    /\ \A c \in codes : c.end <= MaxDay /\ Kind[c.party] = "authorization_code"
    /\ \A f \in refreshes : f.end <= MaxDay

RequestOK(req, R) == req.end <= MaxDay /\ Current(req, R) /\ Checked(req, R)

SerialInv ==
    /\ TypeInv
    /\ Sound(rows, nextRow)
    /\ RenewsOne(rows)
    /\ Dates
    /\ \A w \in Worker : RequestOK(worker[w], rows)

-----------------------------------------------------------------------------
(* What becomes of the one request. *)

LEMMA IdleOK == ASSUME NEW R PROVE RequestOK(Idle, R)
  BY BoundAssumption DEF RequestOK, Current, Checked, Idle, Unchanged

LEMMA BecomesOK ==
    ASSUME NEW w, Worker = {w}, TypeInv, NEW req, Become(w, req), RequestOK(req, rows')
    PROVE  \A u \in Worker : RequestOK(worker[u], rows)'
<1>1. worker'[w] = req
  BY DEF Become, TypeInv, TypeOK
<1> QED BY <1>1

LEMMA FinishesOK ==
    ASSUME NEW w, Worker = {w}, TypeInv, Finish(w)
    PROVE  \A u \in Worker : RequestOK(worker[u], rows)'
BY IdleOK, BecomesOK DEF Finish

LEMMA RowsKept ==
    ASSUME SerialInv, TypeInv', UNCHANGED <<rows, nextRow>>, Dates',
           \A u \in Worker : RequestOK(worker[u], rows)'
    PROVE  SerialInv'
BY DEF SerialInv

LEMMA DatesKept ==
    ASSUME SerialInv, UNCHANGED today, codes' \subseteq codes, refreshes' \subseteq refreshes
    PROVE  Dates'
BY DEF SerialInv, Dates

LEMMA GrantSerial ==
    ASSUME NEW w, Worker = {w}, SerialInv, TypeInv',
           \/ \E c \in codes : ExchangeCode(w, c)
           \/ \E p \in Party : PasswordGrant(w, p) \/ GetOauthToken(w, p) \/ ClientGrant(w, p)
           \/ \E f \in refreshes : RefreshGrant(w, f) \/ RefreshExpired(w, f)
    PROVE  SerialInv'
<1> USE DEF stores, clock
<1>0. TypeInv /\ TypeOK
  BY DEF SerialInv, TypeInv
<1>1. ASSUME NEW c \in codes, ExchangeCode(w, c)
      PROVE  SerialInv'
  <2> DEFINE new == [Idle EXCEPT !.at = "lookup", !.party = c.party, !.end = c.end]
  <2>1. c.end <= MaxDay /\ Kind[c.party] = "authorization_code"
    BY DEF SerialInv, Dates
  <2>2. /\ new.at = "lookup" /\ new.party = c.party /\ new.end = c.end
    BY DEF Idle
  <2>3. RequestOK(new, rows')
    <3> HIDE DEF new
    <3> QED BY <2>1, <2>2 DEF RequestOK, Current, Checked, Unchanged
  <2>4. \A u \in Worker : RequestOK(worker[u], rows)'
    BY <1>0, <1>1, <2>3, BecomesOK DEF ExchangeCode
  <2> QED BY <1>1, <2>4, RowsKept, DatesKept DEF ExchangeCode
<1>2. ASSUME NEW p \in Party, PasswordGrant(w, p) \/ GetOauthToken(w, p) \/ ClientGrant(w, p)
      PROVE  SerialInv'
  <2> DEFINE new == [Idle EXCEPT !.at = "lookup", !.party = p]
  <2>1. new.at = "lookup" /\ new.party = p /\ new.end = 0
    BY DEF Idle
  <2>2. RequestOK(new, rows')
    <3> HIDE DEF new
    <3> QED BY <2>1, BoundAssumption DEF RequestOK, Current, Checked, Unchanged
  <2>3. \A u \in Worker : RequestOK(worker[u], rows)'
    BY <1>0, <1>2, <2>2, BecomesOK DEF PasswordGrant, GetOauthToken, ClientGrant
  <2> QED BY <1>2, <2>3, RowsKept, DatesKept DEF PasswordGrant, GetOauthToken, ClientGrant
<1>3. ASSUME NEW f \in refreshes, RefreshGrant(w, f)
      PROVE  SerialInv'
  <2> DEFINE new == [Idle EXCEPT !.at = "enhance", !.party = f.party, !.token = nextToken,
                        !.refresh = f.id, !.end = f.end, !.refreshing = TRUE]
  <2>1. f.end <= MaxDay
    BY DEF SerialInv, Dates
  <2>2. new.at = "enhance" /\ new.refreshing /\ new.end = f.end
    BY DEF Idle
  <2>3. RequestOK(new, rows')
    <3> HIDE DEF new
    <3> QED BY <2>1, <2>2 DEF RequestOK, Current, Checked, Unchanged
  <2>4. \A u \in Worker : RequestOK(worker[u], rows)'
    BY <1>0, <1>3, <2>3, BecomesOK DEF RefreshGrant
  <2> QED BY <1>3, <2>4, RowsKept, DatesKept DEF RefreshGrant
<1>4. ASSUME NEW f \in refreshes, RefreshExpired(w, f)
      PROVE  SerialInv'
  <2>1. \A u \in Worker : RequestOK(worker[u], rows)'
    BY <1>4 DEF RefreshExpired, SerialInv
  <2> QED BY <1>4, <2>1, RowsKept, DatesKept DEF RefreshExpired
<1> QED BY <1>1, <1>2, <1>3, <1>4

LEMMA IssueSerial ==
    ASSUME NEW w, Worker = {w}, SerialInv, At(w, "lookup"), NEW r \in Nat, Issue(w, r),
           rows' = rows
    PROVE  \A u \in Worker : RequestOK(worker[u], rows)'
<1> DEFINE req     == worker[w]
           renewed == IF r = NoValue /\ Kind[req.party] # "client_credentials"
                        THEN nextToken + 1 ELSE r
           new     == [req EXCEPT !.at = "enhance", !.token = nextToken, !.refresh = renewed]
<1>1. Become(w, new)
  BY DEF Issue
<1>2. TypeInv /\ req \in Request /\ RequestOK(req, rows) /\ req.at = "lookup"
  BY RequestAt DEF SerialInv, TypeInv, At
<1>3. /\ new.at = "enhance" /\ new.party = req.party /\ new.end = req.end
      /\ new.refreshing = req.refreshing
  <2> HIDE DEF renewed
  <2> QED BY <1>2 DEF Request
<1>4. RequestOK(new, rows')
  <2> HIDE DEF new
  <2> QED BY <1>2, <1>3 DEF RequestOK, Current, Checked, Unchanged
<1> QED BY <1>1, <1>2, <1>4, BecomesOK

LEMMA LookupSerial ==
    ASSUME NEW w, Worker = {w}, SerialInv, TypeInv',
           \/ LookupNone(w) \/ LookupLive(w) \/ LookupExpired(w) \/ LookupAmbiguous(w)
           \/ Restore(w)
    PROVE  SerialInv'
<1> USE DEF stores, clock
<1> DEFINE req == worker[w]
<1>0. TypeInv /\ TypeOK /\ req \in Request /\ RequestOK(req, rows)
  BY RequestAt DEF SerialInv, TypeInv
<1>1. CASE LookupNone(w)
  <2>1. \A u \in Worker : RequestOK(worker[u], rows)'
    BY <1>1, IssueSerial DEF LookupNone
  <2> QED BY <1>1, <2>1, RowsKept, DatesKept DEF LookupNone
<1>2. CASE LookupLive(w)
  <2>1. PICK t \in access : Become(w, [req EXCEPT !.at = "restore", !.token = t.token,
                                                   !.refresh = t.refresh])
    BY <1>2 DEF LookupLive, Held
  <2> DEFINE new == [req EXCEPT !.at = "restore", !.token = t.token, !.refresh = t.refresh]
  <2>2. new.at = "restore" /\ new.end = req.end
    BY <1>0 DEF Request
  <2>3. RequestOK(new, rows')
    <3> HIDE DEF new
    <3> QED BY <1>0, <2>2 DEF RequestOK, Current, Checked, Unchanged
  <2>4. \A u \in Worker : RequestOK(worker[u], rows)'
    BY <1>0, <2>1, <2>3, BecomesOK
  <2> QED BY <1>2, <2>4, RowsKept, DatesKept DEF LookupLive
<1>3. CASE LookupExpired(w)
  <2>1. PICK t \in access :
           /\ refreshes' = WithoutRefresh(t.refresh)
           /\ Issue(w, IF t.refresh \in expired THEN NoValue ELSE t.refresh)
    BY <1>3 DEF LookupExpired, Held
  <2>2. (IF t.refresh \in expired THEN NoValue ELSE t.refresh) \in Nat
    BY <1>0 DEF TypeOK, AccessToken
  <2>3. \A u \in Worker : RequestOK(worker[u], rows)'
    BY <1>3, <2>1, <2>2, IssueSerial DEF LookupExpired
  <2>4. Dates'
    BY <1>3, <2>1, DatesKept DEF LookupExpired, WithoutRefresh
  <2> QED BY <1>3, <2>3, <2>4, RowsKept DEF LookupExpired
<1>4. CASE LookupAmbiguous(w) \/ Restore(w)
  <2>1. \A u \in Worker : RequestOK(worker[u], rows)'
    BY <1>0, <1>4, FinishesOK DEF LookupAmbiguous, Restore
  <2> QED BY <1>4, <2>1, RowsKept, DatesKept DEF LookupAmbiguous, Restore
<1> QED BY <1>1, <1>2, <1>3, <1>4

\* A request that only goes on, and needs nothing of the tables to be so.
LEMMA GoesOnOK ==
    ASSUME NEW w, Worker = {w}, SerialInv,
           NEW place \in {"storeAccess", "storeRefresh", "revokeDeleted"}, Goto(w, place)
    PROVE  \A u \in Worker : RequestOK(worker[u], rows)'
<1> DEFINE new == [worker[w] EXCEPT !.at = place]
<1>1. TypeInv /\ worker[w] \in Request /\ RequestOK(worker[w], rows)
  BY RequestAt DEF SerialInv, TypeInv
<1>2. new.at = place /\ new.end = worker[w].end
  BY <1>1 DEF Request
<1>3. RequestOK(new, rows')
  <2> HIDE DEF new
  <2> QED BY <1>1, <1>2 DEF RequestOK, Current, Checked, Unchanged
<1> QED BY <1>1, <1>3, BecomesOK DEF Goto

\* Writing back an entity that is still what is in the table, but for what was set.
LEMMA Overwritten ==
    ASSUME NEW R \in SUBSET Authorization, NEW n \in Nat, Sound(R, n), RenewsOne(R),
           NEW y \in R, NEW x \in Authorization,
           x.id = y.id, x.refresh = y.refresh, x.party = y.party,
           x.end <= MaxDay + DefaultDays
    PROVE  LET S == {z \in R : z.id # x.id} \cup {x} IN Sound(S, n) /\ RenewsOne(S)
<1> DEFINE S == {z \in R : z.id # x.id} \cup {x}
<1>1. Sound(S, n)
  BY DEF Sound
<1>2. ASSUME NEW a \in R, a.id # x.id, a.refresh = x.refresh,
             Kind[a.party] = "authorization_code", Kind[x.party] = "authorization_code"
      PROVE  FALSE
  BY <1>2 DEF RenewsOne
<1>3. RenewsOne(S)
  BY <1>2 DEF RenewsOne
<1> QED BY <1>1, <1>3

LEMMA EnhanceSerial ==
    ASSUME NEW w, Worker = {w}, SerialInv, TypeInv',
           \/ EnhanceFound(w) \/ EnhanceNotFound(w) \/ EnhanceAmbiguous(w)
           \/ EnhanceUpdate(w) \/ EnhanceUpdateVanished(w) \/ EnhanceCreate(w)
    PROVE  SerialInv'
<1> USE DEF stores, clock
<1> DEFINE req == worker[w]
<1>0. /\ TypeInv /\ TypeOK /\ req \in Request /\ RequestOK(req, rows)
      /\ Sound(rows, nextRow) /\ RenewsOne(rows) /\ Dates
      /\ rows \in SUBSET Authorization /\ nextRow \in Nat
  BY RequestAt DEF SerialInv, TypeInv, TypeOK
<1>1. CASE EnhanceFound(w)
  <2>1. PICK x \in rows : Become(w, [req EXCEPT !.at = "update",
                                          !.row = [x EXCEPT !.token = req.token]])
    BY <1>1 DEF EnhanceFound, ByRefresh
  <2> DEFINE y   == [x EXCEPT !.token = req.token]
             new == [req EXCEPT !.at = "update", !.row = y]
  <2>2. new.at = "update" /\ new.end = req.end /\ new.row = y /\ new.token = req.token
    <3> HIDE DEF y
    <3> QED BY <1>0 DEF Request
  <2>3. x \in rows'
    BY <1>1 DEF EnhanceFound
  <2>4. RequestOK(new, rows')
    <3>1. new.row = [x EXCEPT !.token = new.token]
      BY <2>2
    <3> HIDE DEF new
    <3> QED BY <1>0, <2>2, <2>3, <3>1 DEF RequestOK, Current, Checked, Unchanged
  <2>5. \A u \in Worker : RequestOK(worker[u], rows)'
    BY <1>0, <2>1, <2>4, BecomesOK
  <2> QED BY <1>1, <2>5, RowsKept, DatesKept DEF EnhanceFound
<1>2. CASE EnhanceNotFound(w)
  <2> DEFINE new == [req EXCEPT !.at = "create"]
  <2>1. /\ new.at = "create" /\ new.end = req.end /\ new.party = req.party
        /\ new.refresh = req.refresh /\ new.refreshing = req.refreshing
    BY <1>0 DEF Request
  <2>2. RequestOK(new, rows')
    <3>1. Kind[req.party] = "authorization_code" => \A x \in rows' : x.refresh # req.refresh
      BY <1>2 DEF EnhanceNotFound, ByRefresh
    <3>2. req.at = "enhance" /\ rows' = rows
      BY <1>2 DEF EnhanceNotFound, At
    <3> HIDE DEF new
    <3> QED BY <1>0, <2>1, <3>1, <3>2 DEF RequestOK, Current, Checked, Unchanged
  <2>3. \A u \in Worker : RequestOK(worker[u], rows)'
    BY <1>0, <1>2, <2>2, BecomesOK DEF EnhanceNotFound, Goto
  <2> QED BY <1>2, <2>3, RowsKept, DatesKept DEF EnhanceNotFound
<1>3. CASE EnhanceAmbiguous(w) \/ EnhanceUpdateVanished(w)
  <2>1. \A u \in Worker : RequestOK(worker[u], rows)'
    BY <1>0, <1>3, FinishesOK DEF EnhanceAmbiguous, EnhanceUpdateVanished
  <2> QED BY <1>3, <2>1, RowsKept, DatesKept DEF EnhanceAmbiguous, EnhanceUpdateVanished
<1>4. CASE EnhanceUpdate(w)
  <2>1. PICK y \in rows : req.row = [y EXCEPT !.token = req.token]
    BY <1>0, <1>4 DEF EnhanceUpdate, At, RequestOK, Current
  <2>2. PICK x : x = req.row /\ x = [y EXCEPT !.token = req.token]
    BY <2>1
  <2>3. /\ x \in Authorization /\ x.id = y.id /\ x.refresh = y.refresh /\ x.party = y.party
        /\ x.end = y.end
    BY <1>0, <2>2 DEF Authorization, Request
  <2>4. x.end <= MaxDay + DefaultDays
    BY <1>0, <2>3 DEF Sound
  <2>5. rows' = {z \in rows : z.id # x.id} \cup {x} /\ nextRow' = nextRow
    BY <1>4, <2>2 DEF EnhanceUpdate, Overwrite
  <2>6. Sound(rows', nextRow') /\ RenewsOne(rows')
    BY <1>0, <2>3, <2>4, <2>5, Overwritten
  <2>7. \A u \in Worker : RequestOK(worker[u], rows)'
    BY <1>4, GoesOnOK DEF EnhanceUpdate
  <2>8. Dates'
    BY <1>4, DatesKept DEF EnhanceUpdate
  <2> QED BY <2>6, <2>7, <2>8 DEF SerialInv
<1>5. CASE EnhanceCreate(w)
  <2> DEFINE begun == IF Kind[req.party] = "client_credentials" THEN 0 ELSE today
             row == [id |-> nextRow, party |-> req.party, token |-> req.token,
                     refresh |-> req.refresh, status |-> "1", start |-> begun,
                     end |-> PeriodEnd(req.party, req.end)]
  <2>1. PICK x : x = row
    OBVIOUS
  <2>2. /\ x.id = nextRow /\ x.party = req.party /\ x.refresh = req.refresh
        /\ x.end = PeriodEnd(req.party, req.end)
    BY <2>1
  <2>3. rows' = rows \cup {x} /\ nextRow' = nextRow + 1
    BY <1>5, <2>1 DEF EnhanceCreate
  <2>4. PeriodEnd(req.party, req.end) <= MaxDay + DefaultDays
    <3>1. req.end \in Nat /\ req.end <= MaxDay /\ today \in Nat /\ today <= MaxDay
      BY <1>0, BoundAssumption DEF RequestOK, Request, Dates
    <3> QED BY <3>1, BoundAssumption DEF PeriodEnd
  <2>5. Sound(rows', nextRow')
    <3>1. nextRow \in Nat \ {0}
      BY <1>0 DEF TypeOK
    <3>2. \A y \in rows : y.id \in Nat
      BY <1>0 DEF Authorization
    <3> HIDE DEF row
    <3> QED BY <1>0, <2>2, <2>3, <2>4, <3>1, <3>2 DEF Sound
  <2>6. RenewsOne(rows')
    <3>1. Kind[req.party] = "authorization_code" => \A y \in rows : y.refresh # req.refresh
      BY <1>0, <1>5 DEF EnhanceCreate, At, RequestOK, Checked
    <3> HIDE DEF row
    <3> QED BY <1>0, <2>2, <2>3, <3>1 DEF RenewsOne
  <2>7. \A u \in Worker : RequestOK(worker[u], rows)'
    BY <1>5, GoesOnOK DEF EnhanceCreate
  <2>8. Dates'
    BY <1>5, DatesKept DEF EnhanceCreate
  <2> QED BY <2>5, <2>6, <2>7, <2>8 DEF SerialInv
<1> QED BY <1>1, <1>2, <1>3, <1>4, <1>5

LEMMA StoreSerial ==
    ASSUME NEW w, Worker = {w}, SerialInv, TypeInv',
           StoreAccess(w) \/ StoreAccessRejected(w) \/ StoreRefresh(w)
    PROVE  SerialInv'
<1> USE DEF stores, clock
<1> DEFINE req == worker[w]
<1>0. TypeInv /\ RequestOK(req, rows)
  BY DEF SerialInv
<1>1. \A u \in Worker : RequestOK(worker[u], rows)'
  BY <1>0, FinishesOK, GoesOnOK DEF StoreAccess, StoreAccessRejected, StoreRefresh
<1>2. CASE StoreAccess(w) \/ StoreAccessRejected(w)
  BY <1>1, <1>2, RowsKept, DatesKept DEF StoreAccess, StoreAccessRejected
<1>3. CASE StoreRefresh(w)
  <2> DEFINE f == [id |-> req.refresh, party |-> req.party, end |-> req.end]
  <2>1. f.end <= MaxDay
    BY <1>0 DEF RequestOK
  <2>2. refreshes' \subseteq refreshes \cup {f} /\ codes' = codes /\ today' = today
    BY <1>3 DEF StoreRefresh, WithoutRefresh
  <2>3. Dates'
    <3> HIDE DEF f
    <3> QED BY <2>1, <2>2 DEF Dates, SerialInv
  <2> QED BY <1>1, <1>3, <2>3, RowsKept DEF StoreRefresh
<1> QED BY <1>2, <1>3

LEMMA ResourceSerial ==
    ASSUME NEW w, Worker = {w}, SerialInv, TypeInv',
           \/ \E t \in access : LoadAuthentication(w, t) \/ LoadAuthenticationExpired(w, t)
                                \/ AdminRevoke(w, t)
           \/ DoFilterPass(w) \/ DoFilterDeny(w) \/ Served(w)
    PROVE  SerialInv'
<1> USE DEF stores, clock
<1> DEFINE req == worker[w]
<1>0. TypeInv /\ TypeOK /\ req \in Request /\ RequestOK(req, rows)
  BY RequestAt DEF SerialInv, TypeInv
<1>1. ASSUME NEW t \in access, LoadAuthentication(w, t)
      PROVE  SerialInv'
  <2> DEFINE new == [Idle EXCEPT !.at = "filter", !.party = t.party, !.token = t.token,
                                 !.refresh = t.refresh]
  <2>1. new.at = "filter" /\ new.end = 0
    BY DEF Idle
  <2>2. RequestOK(new, rows')
    <3> HIDE DEF new
    <3> QED BY <2>1, BoundAssumption DEF RequestOK, Current, Checked, Unchanged
  <2>3. \A u \in Worker : RequestOK(worker[u], rows)'
    BY <1>0, <1>1, <2>2, BecomesOK DEF LoadAuthentication
  <2> QED BY <1>1, <2>3, RowsKept, DatesKept DEF LoadAuthentication
<1>2. ASSUME NEW t \in access, LoadAuthenticationExpired(w, t) \/ AdminRevoke(w, t)
      PROVE  SerialInv'
  <2>1. \A u \in Worker : RequestOK(worker[u], rows)'
    BY <1>2 DEF LoadAuthenticationExpired, AdminRevoke, SerialInv
  <2> QED BY <1>2, <2>1, RowsKept, DatesKept
          DEF LoadAuthenticationExpired, AdminRevoke, RevokeStored
<1>3. CASE DoFilterPass(w)
  <2>1. PICK x \in rows : Become(w, [req EXCEPT !.at = "serving", !.row = x])
    BY <1>3 DEF DoFilterPass, ByToken
  <2> DEFINE new == [req EXCEPT !.at = "serving", !.row = x]
  <2>2. new.at = "serving" /\ new.end = req.end /\ new.row = x
    BY <1>0 DEF Request
  <2>3. x \in rows'
    BY <1>3 DEF DoFilterPass
  <2>4. RequestOK(new, rows')
    <3> HIDE DEF new
    <3> QED BY <1>0, <2>2, <2>3 DEF RequestOK, Current, Checked, Unchanged
  <2>5. \A u \in Worker : RequestOK(worker[u], rows)'
    BY <1>0, <2>1, <2>4, BecomesOK
  <2> QED BY <1>3, <2>5, RowsKept, DatesKept DEF DoFilterPass
<1>4. CASE DoFilterDeny(w) \/ Served(w)
  <2>1. \A u \in Worker : RequestOK(worker[u], rows)'
    BY <1>0, <1>4, FinishesOK DEF DoFilterDeny, Served
  <2> QED BY <1>4, <2>1, RowsKept, DatesKept DEF DoFilterDeny, Served
<1> QED BY <1>1, <1>2, <1>3, <1>4

\* An entity has just been read, and is put aside as it is.
LEMMA EntityRead ==
    ASSUME NEW w, Worker = {w}, SerialInv, NEW place \in Unchanged, NEW x \in rows, rows' = rows,
           Become(w, [Idle EXCEPT !.at = place, !.row = x])
    PROVE  \A u \in Worker : RequestOK(worker[u], rows)'
<1> DEFINE new == [Idle EXCEPT !.at = place, !.row = x]
<1>1. new.at = place /\ new.end = 0 /\ new.row = x
  BY DEF Idle
<1>2. RequestOK(new, rows')
  <2> HIDE DEF new
  <2> QED BY <1>1, BoundAssumption DEF RequestOK, Current, Checked, Unchanged
<1> QED BY <1>2, BecomesOK DEF SerialInv

LEMMA EntityKept ==
    ASSUME NEW w, Worker = {w}, SerialInv, worker[w].at \in Unchanged, rows' = rows,
           NEW place \in Unchanged, Goto(w, place)
    PROVE  \A u \in Worker : RequestOK(worker[u], rows)'
<1> DEFINE req == worker[w]
           new == [req EXCEPT !.at = place]
<1>1. TypeInv /\ req \in Request /\ RequestOK(req, rows)
  BY RequestAt DEF SerialInv, TypeInv
<1>2. new.at = place /\ new.end = req.end /\ new.row = req.row
  BY <1>1 DEF Request
<1>3. req.row \in rows'
  BY <1>1 DEF RequestOK, Current
<1>4. RequestOK(new, rows')
  <2> HIDE DEF new
  <2> QED BY <1>1, <1>2, <1>3 DEF RequestOK, Current, Checked, Unchanged
<1> QED BY <1>1, <1>4, BecomesOK DEF Goto

\* What a revocation is about to write back is the row, revoked.
LEMMA EntityRevoked ==
    ASSUME NEW w, Worker = {w}, SerialInv, worker[w].at \in Unchanged, rows' = rows,
           Become(w, [worker[w] EXCEPT !.at = "merge", !.row.status = "0"])
    PROVE  \A u \in Worker : RequestOK(worker[u], rows)'
<1> DEFINE req == worker[w]
           revoked == [req.row EXCEPT !.status = "0"]
           new == [req EXCEPT !.at = "merge", !.row.status = "0"]
<1>1. TypeInv /\ req \in Request /\ RequestOK(req, rows)
  BY RequestAt DEF SerialInv, TypeInv
<1>2. new.at = "merge" /\ new.end = req.end /\ new.row = revoked
  BY <1>1 DEF Request
<1>3. req.row \in rows'
  BY <1>1 DEF RequestOK, Current
<1>4. RequestOK(new, rows')
  <2> HIDE DEF new
  <2> QED BY <1>1, <1>2, <1>3 DEF RequestOK, Current, Checked, Unchanged
<1> QED BY <1>1, <1>4, BecomesOK

\* What an entity that is written back has of the row it was read from.
LEMMA Merging ==
    ASSUME NEW w, Worker = {w}, SerialInv, At(w, "merge")
    PROVE  LET x == worker[w].row IN
           /\ x \in Authorization /\ x.end <= MaxDay + DefaultDays
           /\ \E y \in rows : /\ x.id = y.id /\ x.refresh = y.refresh /\ x.party = y.party
                              /\ \/ x.status = "0" /\ x.end = y.end
                                 \/ x.status = y.status /\ x.end \in 0..MaxDay
<1>1. /\ worker[w].row \in Authorization /\ rows \in SUBSET Authorization
      /\ Sound(rows, nextRow)
  BY DEF SerialInv, TypeInv, TypeOK, WellFormed, At, WithEntity
<1>2. PICK x : x = worker[w].row
  OBVIOUS
<1>3. PICK y \in rows : x = [y EXCEPT !.status = "0"]
                        \/ \E d \in 1..MaxDay : x = [y EXCEPT !.end = d]
  BY <1>2 DEF SerialInv, RequestOK, Current, At
<1>4. y \in Authorization /\ y.end <= MaxDay + DefaultDays
  BY <1>1 DEF Sound
<1>5. CASE x = [y EXCEPT !.status = "0"]
  BY <1>1, <1>2, <1>4, <1>5 DEF Authorization
<1>6. ASSUME NEW d \in 1..MaxDay, x = [y EXCEPT !.end = d]
      PROVE  /\ x.id = y.id /\ x.refresh = y.refresh /\ x.party = y.party
             /\ x.status = y.status /\ x.end \in 0..MaxDay /\ x.end <= MaxDay + DefaultDays
  <2>1. x.end = d /\ d <= MaxDay + DefaultDays
    BY <1>4, <1>6, BoundAssumption DEF Authorization
  <2> QED BY <1>4, <1>6, <2>1 DEF Authorization
<1> QED BY <1>1, <1>2, <1>3, <1>5, <1>6

LEMMA ChangeSerial ==
    ASSUME NEW w, Worker = {w}, SerialInv, TypeInv',
           \/ \E x \in rows : RevokeRead(w, x) \/ DeleteRead(w, x)
           \/ \E x \in rows, d \in 1..MaxDay : EndDateRead(w, x, d)
           \/ ReadToken(w) \/ RevokeToken(w) \/ Merge(w) \/ MergeVanished(w)
           \/ DeleteRow(w) \/ RevokeDeleted(w)
    PROVE  SerialInv'
<1> USE DEF stores, clock
<1> DEFINE req == worker[w]
<1>0. /\ TypeInv /\ TypeOK /\ req \in Request /\ RequestOK(req, rows)
      /\ Sound(rows, nextRow) /\ RenewsOne(rows) /\ Dates
      /\ rows \in SUBSET Authorization /\ nextRow \in Nat
  BY RequestAt DEF SerialInv, TypeInv, TypeOK
<1>1. ASSUME NEW x \in rows, RevokeRead(w, x) \/ DeleteRead(w, x)
      PROVE  SerialInv'
  <2>1. \A u \in Worker : RequestOK(worker[u], rows)'
    BY <1>1, EntityRead DEF RevokeRead, DeleteRead, Unchanged
  <2> QED BY <1>1, <2>1, RowsKept, DatesKept DEF RevokeRead, DeleteRead
<1>2. ASSUME NEW x \in rows, NEW d \in 1..MaxDay, EndDateRead(w, x, d)
      PROVE  SerialInv'
  <2> DEFINE y   == [x EXCEPT !.end = d]
             new == [Idle EXCEPT !.at = "merge", !.row = y]
  <2>1. new.at = "merge" /\ new.end = 0 /\ new.row = y
    <3> HIDE DEF y
    <3> QED BY DEF Idle
  <2>2. x \in rows'
    BY <1>2 DEF EndDateRead
  <2>3. RequestOK(new, rows')
    <3> HIDE DEF new
    <3> QED BY <2>1, <2>2, BoundAssumption DEF RequestOK, Current, Checked, Unchanged
  <2>4. \A u \in Worker : RequestOK(worker[u], rows)'
    BY <1>0, <1>2, <2>3, BecomesOK DEF EndDateRead
  <2> QED BY <1>2, <2>4, RowsKept, DatesKept DEF EndDateRead
<1>3. CASE ReadToken(w)
  <2>1. At(w, "readToken") /\ rows' = rows
    BY <1>3 DEF ReadToken
  <2>2. \A u \in Worker : RequestOK(worker[u], rows)'
    <3>1. CASE Goto(w, "revokeToken")
      BY <2>1, <3>1, EntityKept DEF At, Unchanged
    <3>2. CASE Become(w, [req EXCEPT !.at = "merge", !.row.status = "0"])
      BY <2>1, <3>2, EntityRevoked DEF At, Unchanged
    <3> QED BY <1>3, <3>1, <3>2 DEF ReadToken
  <2> QED BY <1>3, <2>2, RowsKept, DatesKept DEF ReadToken
<1>4. CASE RevokeToken(w)
  <2>1. \A u \in Worker : RequestOK(worker[u], rows)'
    BY <1>0, <1>4, EntityRevoked, FinishesOK DEF RevokeToken, At, Unchanged
  <2> QED BY <1>4, <2>1, RowsKept, DatesKept DEF RevokeToken, RevokeStored
<1>5. CASE Merge(w)
  <2>1. PICK x : x = req.row
    OBVIOUS
  <2>2. PICK y \in rows : x.id = y.id /\ x.refresh = y.refresh /\ x.party = y.party
    BY <1>5, <2>1, Merging DEF Merge
  <2>3. x \in Authorization /\ x.end <= MaxDay + DefaultDays
    BY <1>5, <2>1, Merging DEF Merge
  <2>4. rows' = {z \in rows : z.id # x.id} \cup {x} /\ nextRow' = nextRow
    BY <1>5, <2>1 DEF Merge, Overwrite
  <2>5. Sound(rows', nextRow') /\ RenewsOne(rows')
    BY <1>0, <2>2, <2>3, <2>4, Overwritten
  <2>6. \A u \in Worker : RequestOK(worker[u], rows)'
    BY <1>0, <1>5, FinishesOK DEF Merge
  <2>7. Dates'
    BY <1>5, DatesKept DEF Merge
  <2> QED BY <2>5, <2>6, <2>7 DEF SerialInv
<1>6. ~MergeVanished(w)
  BY Merging DEF MergeVanished, ById
<1>7. CASE DeleteRow(w)
  <2>1. rows' \subseteq rows /\ nextRow' = nextRow
    BY <1>7 DEF DeleteRow
  <2>2. Sound(rows', nextRow') /\ RenewsOne(rows')
    BY <1>0, <2>1 DEF Sound, RenewsOne
  <2>3. \A u \in Worker : RequestOK(worker[u], rows)'
    BY <1>0, <1>7, GoesOnOK, FinishesOK DEF DeleteRow
  <2>4. Dates'
    BY <1>7, DatesKept DEF DeleteRow
  <2> QED BY <2>2, <2>3, <2>4 DEF SerialInv
<1>8. CASE RevokeDeleted(w)
  <2>1. \A u \in Worker : RequestOK(worker[u], rows)'
    BY <1>0, <1>8, FinishesOK DEF RevokeDeleted
  <2> QED BY <1>8, <2>1, RowsKept, DatesKept DEF RevokeDeleted, RevokeStored
<1> QED BY <1>1, <1>2, <1>3, <1>4, <1>5, <1>6, <1>7, <1>8

LEMMA EnvironmentSerial ==
    ASSUME NEW w, Worker = {w}, SerialInv, TypeInv', Environment \/ Restart \/ Fail(w)
    PROVE  SerialInv'
<1> USE DEF stores, clock
<1>0. TypeInv /\ Dates
  BY DEF SerialInv
<1>1. ASSUME NEW p \in Party, NEW d \in 0..MaxDay, Consent(p, d)
      PROVE  SerialInv'
  <2>1. \A u \in Worker : RequestOK(worker[u], rows)'
    BY <1>1 DEF Consent, SerialInv
  <2>2. Dates'
    <3> DEFINE c == [party |-> p, end |-> d]
    <3>1. c.end <= MaxDay /\ Kind[c.party] = "authorization_code"
      BY <1>1, BoundAssumption DEF Consent
    <3>2. codes' = codes \cup {c} /\ refreshes' = refreshes /\ today' = today
      BY <1>1 DEF Consent
    <3> HIDE DEF c
    <3> QED BY <1>0, <3>1, <3>2 DEF Dates
  <2> QED BY <1>1, <2>1, <2>2, RowsKept DEF Consent
<1>2. ASSUME NEW v \in Known, Expire(v)
      PROVE  SerialInv'
  <2>1. \A u \in Worker : RequestOK(worker[u], rows)'
    BY <1>2 DEF Expire, SerialInv
  <2> QED BY <1>2, <2>1, RowsKept, DatesKept DEF Expire
<1>3. CASE NextDay
  <2>1. \A u \in Worker : RequestOK(worker[u], rows)'
    BY <1>3 DEF NextDay, SerialInv
  <2>2. Dates'
    BY <1>0, <1>3, BoundAssumption DEF NextDay, Dates
  <2> QED BY <1>3, <2>1, <2>2, RowsKept DEF NextDay
<1>4. CASE Restart
  <2>1. \A u \in Worker : RequestOK(worker[u], rows)'
    BY <1>4, IdleOK DEF Restart
  <2> QED BY <1>4, <2>1, RowsKept, DatesKept DEF Restart
<1>5. CASE Fail(w)
  <2>1. \A u \in Worker : RequestOK(worker[u], rows)'
    BY <1>0, <1>5, FinishesOK DEF Fail
  <2> QED BY <1>5, <2>1, RowsKept, DatesKept DEF Fail
<1> QED BY <1>1, <1>2, <1>3, <1>4, <1>5 DEF Environment

LEMMA SerialInit ==
    ASSUME NEW w, Worker = {w}, MaxDay > 0, Init
    PROVE  SerialInv
<1>1. TypeInv
  BY TypeInit
<1>2. Sound(rows, nextRow) /\ RenewsOne(rows)
  BY DEF Init, Sound, RenewsOne
<1>3. Dates
  BY BoundAssumption DEF Init, Dates
<1>4. \A u \in Worker : RequestOK(worker[u], rows)
  BY IdleOK DEF Init
<1> QED BY <1>1, <1>2, <1>3, <1>4 DEF SerialInv

LEMMA SerialStep ==
    ASSUME NEW w, Worker = {w}, SerialInv, [Next]_vars
    PROVE  SerialInv'
<1>1. TypeInv'
  BY TypeStep DEF SerialInv
<1>2. CASE Step(w) \/ Begin(w)
  BY <1>1, <1>2, GrantSerial, LookupSerial, EnhanceSerial, StoreSerial, ResourceSerial,
     ChangeSerial DEF Step, Begin
<1>3. CASE Environment \/ Restart \/ Fail(w)
  BY <1>1, <1>3, EnvironmentSerial
<1>4. CASE UNCHANGED vars
  BY <1>4, <1>1 DEF vars, SerialInv, Dates
<1> QED BY <1>2, <1>3, <1>4 DEF Next, Fault

\* Spec has the invariant when requests are handled one at a time, and there is a day to
\* handle them on.
LEMMA SerialCorrect ==
    ASSUME NEW w, Worker = {w}, MaxDay > 0
    PROVE  Spec => []SerialInv
<1>1. Init => SerialInv
  BY SerialInit
<1>2. SerialInv /\ [Next]_vars => SerialInv'
  BY SerialStep
<1> QED BY <1>1, <1>2, PTL DEF Spec

\* One at a time, a refresh token renews one authorization: findByRefreshToken, which the
\* enhancer asks before it writes, has one answer for every order of requests.
THEOREM RenewalIsUnique ==
    ASSUME NEW w, Worker = {w}, MaxDay > 0
    PROVE  Spec => []RefreshTokenRenewsOne
<1>1. SerialInv => RefreshTokenRenewsOne
  BY DEF SerialInv, RenewsOne, RefreshTokenRenewsOne
<1> QED BY <1>1, SerialCorrect, PTL

-----------------------------------------------------------------------------
(* What a step does to the authorizations, in the terms of the contract.  *)

Created(R, S, n, x) ==
    /\ S = R \cup {x}
    /\ x.id = n /\ x.status = "1"
    /\ x.end = 0 \/ x.end >= today
    /\ x.end \in 0..(MaxDay + DefaultDays)

Rewritten(R, S, x, y) ==
    /\ y \in R /\ x \in Authorization /\ x.id = y.id
    /\ S = {z \in R : z.id # x.id} \cup {x}

Same(x, y)       == x.status = y.status /\ x.end = y.end
Revoked(x, y)    == x.status = "0" /\ x.end = y.end
Prolonged(x, y)  == x.status = y.status /\ x.end \in 0..(MaxDay + DefaultDays)

Removed(R, S, y) == y \in R /\ S = {z \in R : z.id # y.id}

LEMMA UpdateStep ==
    ASSUME NEW w, Worker = {w}, SerialInv, EnhanceUpdate(w)
    PROVE  \E x, y : Rewritten(rows, rows', x, y) /\ Same(x, y)
<1> DEFINE req == worker[w]
<1>1. req \in Request /\ req.row \in Authorization /\ rows \in SUBSET Authorization
  BY RequestAt DEF SerialInv, TypeInv, TypeOK, WellFormed, EnhanceUpdate, At, WithEntity
<1>2. PICK y \in rows : req.row = [y EXCEPT !.token = req.token]
  BY DEF SerialInv, EnhanceUpdate, At, RequestOK, Current
<1>3. PICK x : x = req.row
  OBVIOUS
<1>4. x.id = y.id /\ x.status = y.status /\ x.end = y.end /\ x \in Authorization
  BY <1>1, <1>2, <1>3 DEF Authorization
<1>5. rows' = {z \in rows : z.id # x.id} \cup {x}
  BY <1>3 DEF EnhanceUpdate, Overwrite
<1> QED BY <1>4, <1>5 DEF Rewritten, Same

LEMMA MergeStep ==
    ASSUME NEW w, Worker = {w}, SerialInv, Merge(w)
    PROVE  \E x, y : Rewritten(rows, rows', x, y) /\ (Revoked(x, y) \/ Prolonged(x, y))
<1>1. PICK x : x = worker[w].row
  OBVIOUS
<1>2. rows' = {z \in rows : z.id # x.id} \cup {x}
  BY <1>1 DEF Merge, Overwrite
<1>3. /\ x \in Authorization
      /\ \E y \in rows : /\ x.id = y.id
                         /\ \/ x.status = "0" /\ x.end = y.end
                            \/ x.status = y.status /\ x.end \in 0..MaxDay
  BY <1>1, Merging DEF Merge
<1>4. 0..MaxDay \subseteq 0..(MaxDay + DefaultDays)
  BY BoundAssumption
<1> QED BY <1>2, <1>3, <1>4 DEF Rewritten, Revoked, Prolonged

LEMMA CreateStep ==
    ASSUME NEW w, Worker = {w}, SerialInv, EnhanceCreate(w)
    PROVE  nextRow' = nextRow + 1 /\ \E x : Created(rows, rows', nextRow, x)
<1> DEFINE req == worker[w]
           until == PeriodEnd(req.party, req.end)
           begun == IF Kind[req.party] = "client_credentials" THEN 0 ELSE today
           row == [id |-> nextRow, party |-> req.party, token |-> req.token,
                   refresh |-> req.refresh, status |-> "1", start |-> begun, end |-> until]
<1>1. rows' = rows \cup {row} /\ nextRow' = nextRow + 1
  BY DEF EnhanceCreate
<1>2. (until = 0 \/ until >= today) /\ until \in 0..(MaxDay + DefaultDays)
  <2>1. req.end \in Nat /\ req.end <= MaxDay /\ today \in 1..MaxDay
    BY RequestAt DEF SerialInv, TypeInv, RequestOK, Request, Dates
  <2> QED BY <2>1, BoundAssumption DEF PeriodEnd
<1>3. row.id = nextRow /\ row.status = "1" /\ row.end = until
  OBVIOUS
<1> HIDE DEF row
<1> QED BY <1>1, <1>2, <1>3 DEF Created

LEMMA DeleteStep ==
    ASSUME NEW w, Worker = {w}, SerialInv, DeleteRow(w)
    PROVE  \E y : Removed(rows, rows', y)
<1>1. worker[w].row \in rows
  BY DEF SerialInv, DeleteRow, At, RequestOK, Current, Unchanged
<1>2. rows' = {z \in rows : z.id # worker[w].row.id}
  BY DEF DeleteRow, ById
<1> QED BY <1>1, <1>2 DEF Removed

LEMMA RowsSteps ==
    ASSUME NEW w, Worker = {w}, SerialInv, [Next]_vars
    PROVE  \/ UNCHANGED <<rows, nextRow>>
           \/ EnhanceCreate(w) \/ EnhanceUpdate(w) \/ Merge(w) \/ DeleteRow(w)
<1> USE DEF stores, clock
<1>1. CASE Step(w)
  <2>1. ~MergeVanished(w)
    BY Merging DEF MergeVanished, ById
  <2> QED BY <1>1, <2>1 DEF Step, LookupNone, LookupLive, LookupExpired, LookupAmbiguous,
        Restore, EnhanceFound, EnhanceNotFound, EnhanceAmbiguous, EnhanceUpdateVanished,
        StoreAccess, StoreAccessRejected, StoreRefresh, DoFilterPass, DoFilterDeny, Served,
        ReadToken, RevokeToken, RevokeDeleted
<1>2. CASE Begin(w)
  BY <1>2 DEF Begin, ExchangeCode, PasswordGrant, GetOauthToken, ClientGrant, RefreshGrant, RefreshExpired,
     LoadAuthentication, LoadAuthenticationExpired, AdminRevoke, RevokeRead, DeleteRead,
     EndDateRead
<1>3. CASE Environment \/ Fault
  BY <1>3 DEF Environment, Fault, Consent, Expire, NextDay, Restart, Fail
<1> QED BY <1>1, <1>2, <1>3 DEF Next, vars

LEMMA RevokedStep ==
    ASSUME NEW w, Worker = {w}, SerialInv, [Next]_vars
    PROVE  \A x \in rows, y \in rows' : x.id = y.id /\ x.status = "0" => y.status = "0"
<1>1. Sound(rows, nextRow)
  BY DEF SerialInv
<1>2. CASE UNCHANGED <<rows, nextRow>>
  BY <1>1, <1>2 DEF Sound
<1>3. CASE EnhanceCreate(w)
  <2>1. PICK x : Created(rows, rows', nextRow, x)
    BY <1>3, CreateStep
  <2>2. \A y \in rows : y.id # x.id
    BY <1>1, <2>1 DEF Created, Sound, SerialInv, TypeInv, TypeOK, Authorization
  <2> QED BY <1>1, <2>1, <2>2 DEF Created, Sound
<1>4. CASE EnhanceUpdate(w) \/ Merge(w)
  <2>1. PICK x, y : /\ Rewritten(rows, rows', x, y)
                    /\ Same(x, y) \/ Revoked(x, y) \/ Prolonged(x, y)
    BY <1>4, UpdateStep, MergeStep
  <2>2. y.status = "0" => x.status = "0"
    BY <2>1 DEF Same, Revoked, Prolonged
  <2> QED BY <1>1, <2>1, <2>2 DEF Rewritten, Sound
<1>5. CASE DeleteRow(w)
  BY <1>1, <1>5, DeleteStep DEF Removed, Sound
<1> QED BY <1>2, <1>3, <1>4, <1>5, RowsSteps

\* One at a time, no step turns a revoked authorization active again: what a handler writes
\* back, whatever it changes, has the status that is in the table.
THEOREM RevocationIsFinal ==
    ASSUME NEW w, Worker = {w}, MaxDay > 0
    PROVE  Spec => RevokedStaysRevoked
<1>1. SerialInv /\ [Next]_vars
      => [\A x \in rows, y \in rows' : x.id = y.id /\ x.status = "0" => y.status = "0"]_vars
  BY RevokedStep
<1> QED BY <1>1, SerialCorrect, PTL DEF Spec, RevokedStaysRevoked

-----------------------------------------------------------------------------
(* The refinement.  How the authorizations R, with n the next id, stand. *)

StandingOf(R, n) ==
    [i \in RowId |-> IF \E x \in R : x.id = i /\ x.status = "1" THEN "active"
                     ELSE IF \E x \in R : x.id = i THEN "revoked"
                     ELSE IF i < n THEN "gone" ELSE "unused"]

UntilOf(R) ==
    [i \in RowId |-> IF {x \in R : x.id = i} = {} THEN 0 ELSE (CHOOSE x \in R : x.id = i).end]

Filed(R, n) == R \in SUBSET Authorization /\ n \in Nat /\ Sound(R, n)

LEMMA UntilFunction ==
    ASSUME NEW R
    PROVE  UntilOf(R) = [i \in RowId |-> UntilOf(R)[i]]
BY DEF UntilOf

LEMMA ChangedAt ==
    ASSUME NEW D, NEW f, NEW g, f = [i \in D |-> f[i]], g = [i \in D |-> g[i]],
           NEW k \in D, \A i \in D : i # k => g[i] = f[i]
    PROVE  g = [f EXCEPT ![k] = g[k]]
OBVIOUS

LEMMA UntilIs ==
    ASSUME RowId = Nat \ {0}, NEW R, NEW n, Filed(R, n), NEW x \in R
    PROVE  x.id \in RowId /\ UntilOf(R)[x.id] = x.end
<1>1. x.id \in RowId
  BY DEF Filed, Sound, Authorization
<1>2. (CHOOSE y \in R : y.id = x.id) = x
  BY DEF Filed, Sound
<1> QED BY <1>1, <1>2 DEF UntilOf

LEMMA UntilNone ==
    ASSUME NEW R, NEW i \in RowId, \A x \in R : x.id # i
    PROVE  UntilOf(R)[i] = 0
BY DEF UntilOf

LEMMA StandsAs ==
    ASSUME RowId = Nat \ {0}, NEW R, NEW n, Filed(R, n), NEW x \in R
    PROVE  StandingOf(R, n)[x.id] = IF x.status = "1" THEN "active" ELSE "revoked"
<1>1. x.id \in RowId
  BY DEF Filed, Sound, Authorization
<1>2. \A y \in R : y.id = x.id => y = x
  BY DEF Filed, Sound
<1> QED BY <1>1, <1>2 DEF StandingOf

LEMMA Adding ==
    ASSUME RowId = Nat \ {0}, NEW R, NEW n, Filed(R, n), n # 0,
           NEW x, x.id = n, x.status = "1", NEW S, S = R \cup {x}, Filed(S, n + 1)
    PROVE  /\ n \in RowId
           /\ StandingOf(R, n)[n] = "unused"
           /\ \A j \in RowId : j < n => StandingOf(R, n)[j] # "unused"
           /\ StandingOf(S, n + 1) = [StandingOf(R, n) EXCEPT ![n] = "active"]
           /\ UntilOf(S) = [UntilOf(R) EXCEPT ![n] = x.end]
<1>1. n \in RowId /\ \A y \in R : y.id \in Nat /\ y.id < n
  BY DEF Filed, Sound, Authorization
<1>2. StandingOf(R, n)[n] = "unused" /\ \A j \in RowId : j < n => StandingOf(R, n)[j] # "unused"
  BY <1>1 DEF StandingOf
<1>3. StandingOf(S, n + 1) = [StandingOf(R, n) EXCEPT ![n] = "active"]
  <2>1. ASSUME NEW i \in RowId
        PROVE  StandingOf(S, n + 1)[i] = [StandingOf(R, n) EXCEPT ![n] = "active"][i]
    <3>1. (i < n + 1) <=> (i < n \/ i = n)
      BY <1>1
    <3> QED BY <1>1, <3>1 DEF StandingOf
  <2> QED BY <2>1 DEF StandingOf
<1>4. UntilOf(S) = [UntilOf(R) EXCEPT ![n] = x.end]
  <2>1. UntilOf(S)[n] = x.end
    BY UntilIs
  <2>2. ASSUME NEW i \in RowId, i # n
        PROVE  UntilOf(S)[i] = UntilOf(R)[i]
    <3>1. CASE \E y \in R : y.id = i
      BY <3>1, UntilIs
    <3>2. CASE ~\E y \in R : y.id = i
      BY <2>2, <3>2, UntilNone
    <3> QED BY <3>1, <3>2
  <2>3. PICK f, g : f = UntilOf(R) /\ g = UntilOf(S)
    OBVIOUS
  <2>4. f = [i \in RowId |-> f[i]] /\ g = [i \in RowId |-> g[i]]
    BY <2>3, UntilFunction
  <2>5. g = [f EXCEPT ![n] = g[n]]
    BY <1>1, <2>2, <2>3, <2>4, ChangedAt
  <2> QED BY <2>1, <2>3, <2>5
<1> QED BY <1>1, <1>2, <1>3, <1>4

LEMMA Rewriting ==
    ASSUME RowId = Nat \ {0}, NEW R, NEW n, Filed(R, n), NEW S, Filed(S, n),
           NEW x, NEW y, Rewritten(R, S, x, y)
    PROVE  /\ x.id \in RowId
           /\ StandingOf(S, n) = [StandingOf(R, n) EXCEPT ![x.id] =
                                    IF x.status = "1" THEN "active" ELSE "revoked"]
           /\ UntilOf(S) = [UntilOf(R) EXCEPT ![x.id] = x.end]
           /\ StandingOf(R, n)[x.id] = IF y.status = "1" THEN "active" ELSE "revoked"
           /\ UntilOf(R)[x.id] = y.end
<1>1. x \in S /\ y \in R /\ x.id = y.id /\ \A z : z.id # x.id => (z \in S <=> z \in R)
  BY DEF Rewritten
<1>2. x.id \in RowId /\ UntilOf(R)[x.id] = y.end /\ UntilOf(S)[x.id] = x.end
  BY <1>1, UntilIs
<1>3. /\ StandingOf(R, n)[x.id] = IF y.status = "1" THEN "active" ELSE "revoked"
      /\ StandingOf(S, n)[x.id] = IF x.status = "1" THEN "active" ELSE "revoked"
  BY <1>1, StandsAs
<1>4. ASSUME NEW i \in RowId, i # x.id
      PROVE  UntilOf(S)[i] = UntilOf(R)[i] /\ StandingOf(S, n)[i] = StandingOf(R, n)[i]
  <2>1. UntilOf(S)[i] = UntilOf(R)[i]
    <3>1. CASE \E z \in R : z.id = i
      BY <1>1, <1>4, <3>1, UntilIs
    <3>2. CASE ~\E z \in R : z.id = i
      BY <1>1, <1>4, <3>2, UntilNone
    <3> QED BY <3>1, <3>2
  <2>2. StandingOf(S, n)[i] = StandingOf(R, n)[i]
    BY <1>1, <1>4 DEF StandingOf
  <2> QED BY <2>1, <2>2
<1>5. StandingOf(S, n) = [StandingOf(R, n) EXCEPT ![x.id] =
                            IF x.status = "1" THEN "active" ELSE "revoked"]
  BY <1>2, <1>3, <1>4 DEF StandingOf
<1>6. UntilOf(S) = [UntilOf(R) EXCEPT ![x.id] = x.end]
  BY <1>2, <1>4, UntilFunction, ChangedAt
<1> QED BY <1>2, <1>3, <1>5, <1>6

LEMMA Removing ==
    ASSUME RowId = Nat \ {0}, NEW R, NEW n, Filed(R, n), NEW S, Filed(S, n),
           NEW y, Removed(R, S, y)
    PROVE  /\ y.id \in RowId
           /\ StandingOf(R, n)[y.id] \in {"active", "revoked"}
           /\ StandingOf(S, n) = [StandingOf(R, n) EXCEPT ![y.id] = "gone"]
           /\ UntilOf(S) = [UntilOf(R) EXCEPT ![y.id] = 0]
<1>1. y \in R /\ y.id < n /\ (\A z \in S : z.id # y.id) /\ \A z : z.id # y.id => (z \in S <=> z \in R)
  BY DEF Removed, Filed, Sound
<1>2. y.id \in RowId /\ UntilOf(S)[y.id] = 0
  BY <1>1, UntilIs, UntilNone
<1>3. StandingOf(R, n)[y.id] \in {"active", "revoked"} /\ StandingOf(S, n)[y.id] = "gone"
  BY <1>1, <1>2, StandsAs DEF StandingOf
<1>4. ASSUME NEW i \in RowId, i # y.id
      PROVE  UntilOf(S)[i] = UntilOf(R)[i] /\ StandingOf(S, n)[i] = StandingOf(R, n)[i]
  <2>1. UntilOf(S)[i] = UntilOf(R)[i]
    <3>1. CASE \E z \in R : z.id = i
      BY <1>1, <1>4, <3>1, UntilIs
    <3>2. CASE ~\E z \in R : z.id = i
      BY <1>1, <1>4, <3>2, UntilNone
    <3> QED BY <3>1, <3>2
  <2>2. StandingOf(S, n)[i] = StandingOf(R, n)[i]
    BY <1>1, <1>4 DEF StandingOf
  <2> QED BY <2>1, <2>2
<1>5. StandingOf(S, n) = [StandingOf(R, n) EXCEPT ![y.id] = "gone"]
  BY <1>2, <1>3, <1>4 DEF StandingOf
<1>6. UntilOf(S) = [UntilOf(R) EXCEPT ![y.id] = 0]
  BY <1>2, <1>4, UntilFunction, ChangedAt
<1> QED BY <1>2, <1>3, <1>5, <1>6

-----------------------------------------------------------------------------
(* Each step of a handler is a step of the contract, or changes nothing it *)
(* speaks of.                                                              *)

Standings == [i \in RowId |-> RowStanding(i)]
Untils    == [i \in RowId |-> RowUntil(i)]
Answering == {worker[w].row.id : w \in {u \in Worker : At(u, "serving")}}

LEMMA StandingsAre == Standings = StandingOf(rows, nextRow) /\ Untils = UntilOf(rows)
BY DEF Standings, Untils, RowStanding, RowUntil, StandingOf, UntilOf, ById

LEMMA StandingsWillBe ==
    Standings' = StandingOf(rows', nextRow') /\ Untils' = UntilOf(rows')
BY DEF Standings, Untils, RowStanding, RowUntil, StandingOf, UntilOf, ById

LEMMA AnsweringIs ==
    ASSUME NEW w, Worker = {w}
    PROVE  Answering = IF worker[w].at = "serving" THEN {worker[w].row.id} ELSE {}
BY DEF Answering, At

LEMMA AnsweringWillBe ==
    ASSUME NEW w, Worker = {w}
    PROVE  Answering' = IF worker'[w].at = "serving" THEN {worker'[w].row.id} ELSE {}
BY DEF Answering, At

LEMMA FiledBoth ==
    ASSUME NEW w, Worker = {w}, SerialInv, [Next]_vars
    PROVE  Filed(rows, nextRow) /\ nextRow # 0 /\ Filed(rows', nextRow')
<1>1. SerialInv'
  BY SerialStep
<1>2. rows \in SUBSET Authorization /\ nextRow \in Nat \ {0} /\ Sound(rows, nextRow)
  BY DEF SerialInv, TypeInv, TypeOK
<1>3. rows' \in SUBSET Authorization /\ nextRow' \in Nat /\ Sound(rows', nextRow')
  BY <1>1 DEF SerialInv, TypeInv, TypeOK
<1> QED BY <1>2, <1>3 DEF Filed

LEMMA CreateContract ==
    ASSUME NEW w, Worker = {w}, RowId = Nat \ {0}, SerialInv, [Next]_vars, EnhanceCreate(w)
    PROVE  Contract!Next
<1>1. PICK x : nextRow' = nextRow + 1 /\ Created(rows, rows', nextRow, x)
  BY CreateStep
<1>2. /\ nextRow \in RowId
      /\ StandingOf(rows, nextRow)[nextRow] = "unused"
      /\ \A j \in RowId : j < nextRow => StandingOf(rows, nextRow)[j] # "unused"
      /\ StandingOf(rows', nextRow') = [StandingOf(rows, nextRow) EXCEPT ![nextRow] = "active"]
      /\ UntilOf(rows') = [UntilOf(rows) EXCEPT ![nextRow] = x.end]
  <2>1. Filed(rows, nextRow) /\ nextRow # 0 /\ Filed(rows', nextRow + 1)
    BY <1>1, FiledBoth
  <2>2. rows' = rows \cup {x} /\ x.id = nextRow /\ x.status = "1"
    BY <1>1 DEF Created
  <2> QED BY <1>1, <2>1, <2>2, Adding
<1>3. Answering' = Answering /\ today' = today
  <2>1. worker'[w].at = "storeAccess"
    BY RequestAt DEF EnhanceCreate, Goto, Become, SerialInv, TypeInv, TypeOK, Request
  <2> QED BY <2>1, AnsweringIs, AnsweringWillBe DEF EnhanceCreate, At, clock
<1>4. (x.end = 0 \/ x.end >= today) /\ x.end \in 0..(MaxDay + DefaultDays)
  BY <1>1 DEF Created
<1>5. PICK i, d : i = nextRow /\ d = x.end
  OBVIOUS
<1>6. Contract!Grant(i, d)
  BY <1>2, <1>3, <1>4, <1>5, StandingsAre, StandingsWillBe
     DEF Contract!Grant, Standings, Untils, Answering
<1> QED BY <1>2, <1>4, <1>5, <1>6 DEF Contract!Next

\* Giving up, or going on anywhere but to the answer.
LEMMA NotServing ==
    ASSUME NEW w \in Worker, TypeInv, NEW req, req.at # "serving", Become(w, req)
    PROVE  worker'[w].at # "serving"
BY DEF Become, TypeInv, TypeOK

LEMMA FinishNotServing ==
    ASSUME NEW w \in Worker, TypeInv, Finish(w)
    PROVE  worker'[w].at # "serving"
BY NotServing DEF Finish, Idle

LEMMA GotoNotServing ==
    ASSUME NEW w \in Worker, TypeInv, NEW place, place # "serving", Goto(w, place)
    PROVE  worker'[w].at # "serving"
<1>1. [worker[w] EXCEPT !.at = place].at = place
  BY RequestAt DEF TypeInv, Request
<1> QED BY <1>1, NotServing DEF Goto

LEMMA BeginNotServing ==
    ASSUME NEW w \in Worker, TypeInv, Begin(w)
    PROVE  worker' = worker \/ worker'[w].at # "serving"
<1> USE DEF Idle
<1>1. ASSUME NEW c \in codes, ExchangeCode(w, c)
      PROVE  worker'[w].at # "serving"
  <2> DEFINE new == [Idle EXCEPT !.at = "lookup", !.party = c.party, !.end = c.end]
  <2>1. new.at # "serving" /\ Become(w, new)
    BY <1>1 DEF ExchangeCode
  <2> HIDE DEF new
  <2> QED BY <2>1, NotServing
<1>2. ASSUME NEW p \in Party, PasswordGrant(w, p) \/ GetOauthToken(w, p) \/ ClientGrant(w, p)
      PROVE  worker'[w].at # "serving"
  <2> DEFINE new == [Idle EXCEPT !.at = "lookup", !.party = p]
  <2>1. new.at # "serving" /\ Become(w, new)
    BY <1>2 DEF PasswordGrant, GetOauthToken, ClientGrant
  <2> HIDE DEF new
  <2> QED BY <2>1, NotServing
<1>3. ASSUME NEW f \in refreshes, RefreshGrant(w, f)
      PROVE  worker'[w].at # "serving"
  <2> DEFINE new == [Idle EXCEPT !.at = "enhance", !.party = f.party, !.token = nextToken,
                        !.refresh = f.id, !.end = f.end, !.refreshing = TRUE]
  <2>1. new.at # "serving" /\ Become(w, new)
    BY <1>3 DEF RefreshGrant
  <2> HIDE DEF new
  <2> QED BY <2>1, NotServing
<1>4. ASSUME NEW f \in refreshes, RefreshExpired(w, f)
      PROVE  worker' = worker
  BY <1>4 DEF RefreshExpired
<1>5. ASSUME NEW t \in access, LoadAuthentication(w, t)
      PROVE  worker'[w].at # "serving"
  <2> DEFINE new == [Idle EXCEPT !.at = "filter", !.party = t.party, !.token = t.token,
                                 !.refresh = t.refresh]
  <2>1. new.at # "serving" /\ Become(w, new)
    BY <1>5 DEF LoadAuthentication
  <2> HIDE DEF new
  <2> QED BY <2>1, NotServing
<1>6. ASSUME NEW t \in access, LoadAuthenticationExpired(w, t) \/ AdminRevoke(w, t)
      PROVE  worker' = worker
  BY <1>6 DEF LoadAuthenticationExpired, AdminRevoke
<1>7. ASSUME NEW x \in rows, RevokeRead(w, x)
      PROVE  worker'[w].at # "serving"
  <2> DEFINE new == [Idle EXCEPT !.at = "readToken", !.row = x]
  <2>1. new.at # "serving" /\ Become(w, new)
    BY <1>7 DEF RevokeRead
  <2> HIDE DEF new
  <2> QED BY <2>1, NotServing
<1>8. ASSUME NEW x \in rows, DeleteRead(w, x)
      PROVE  worker'[w].at # "serving"
  <2> DEFINE new == [Idle EXCEPT !.at = "delete", !.row = x]
  <2>1. new.at # "serving" /\ Become(w, new)
    BY <1>8 DEF DeleteRead
  <2> HIDE DEF new
  <2> QED BY <2>1, NotServing
<1>9. ASSUME NEW x \in rows, NEW d \in 1..MaxDay, EndDateRead(w, x, d)
      PROVE  worker'[w].at # "serving"
  <2>1. PICK y : y = [x EXCEPT !.end = d]
    OBVIOUS
  <2> DEFINE new == [Idle EXCEPT !.at = "merge", !.row = y]
  <2>2. new.at # "serving" /\ Become(w, new)
    BY <1>9, <2>1 DEF EndDateRead
  <2> HIDE DEF new
  <2> QED BY <2>2, NotServing
<1> QED BY <1>1, <1>2, <1>3, <1>4, <1>5, <1>6, <1>7, <1>8, <1>9 DEF Begin

LEMMA StepNotServing ==
    ASSUME NEW w \in Worker, TypeInv, Step(w), ~DoFilterPass(w)
    PROVE  worker'[w].at # "serving"
<1> DEFINE req == worker[w]
<1>0. req \in Request
  BY RequestAt DEF TypeInv
<1>1. ASSUME NEW r, Issue(w, r)
      PROVE  worker'[w].at # "serving"
  <2>1. PICK renewed : Become(w, [req EXCEPT !.at = "enhance", !.token = nextToken,
                                             !.refresh = renewed])
    BY <1>1 DEF Issue
  <2> DEFINE new == [req EXCEPT !.at = "enhance", !.token = nextToken, !.refresh = renewed]
  <2>2. new.at # "serving"
    BY <1>0 DEF Request
  <2> QED BY <2>1, <2>2, NotServing DEF new
<1>2. CASE LookupNone(w) \/ LookupExpired(w)
  BY <1>1, <1>2 DEF LookupNone, LookupExpired
<1>3. CASE LookupLive(w)
  <2>1. PICK t \in access : Become(w, [req EXCEPT !.at = "restore", !.token = t.token,
                                                   !.refresh = t.refresh])
    BY <1>3 DEF LookupLive, Held
  <2> DEFINE new == [req EXCEPT !.at = "restore", !.token = t.token, !.refresh = t.refresh]
  <2>2. new.at # "serving" /\ Become(w, new)
    BY <1>0, <2>1 DEF Request
  <2> HIDE DEF new
  <2> QED BY <2>2, NotServing
<1>4. CASE EnhanceFound(w)
  <2>1. PICK x \in rows : Become(w, [req EXCEPT !.at = "update",
                                          !.row = [x EXCEPT !.token = req.token]])
    BY <1>4 DEF EnhanceFound, ByRefresh
  <2>2. PICK y : y = [x EXCEPT !.token = req.token]
    OBVIOUS
  <2> DEFINE new == [req EXCEPT !.at = "update", !.row = y]
  <2>3. new.at # "serving" /\ Become(w, new)
    BY <1>0, <2>1, <2>2 DEF Request
  <2> HIDE DEF new
  <2> QED BY <2>3, NotServing
<1>5. CASE ReadToken(w) \/ RevokeToken(w)
  <2> DEFINE new == [req EXCEPT !.at = "merge", !.row.status = "0"]
  <2>1. Goto(w, "revokeToken") \/ Finish(w) \/ Become(w, new)
    BY <1>5 DEF ReadToken, RevokeToken
  <2>2. new.at # "serving"
    BY <1>0 DEF Request
  <2> HIDE DEF new
  <2> QED BY <2>1, <2>2, NotServing, GotoNotServing, FinishNotServing
<1>6. CASE EnhanceNotFound(w) \/ EnhanceUpdate(w) \/ EnhanceCreate(w) \/ StoreAccess(w)
           \/ DeleteRow(w)
  <2>1. \E place \in {"create", "storeAccess", "storeRefresh", "revokeDeleted"} :
           Goto(w, place) \/ Finish(w)
    BY <1>6 DEF EnhanceNotFound, EnhanceUpdate, EnhanceCreate, StoreAccess, DeleteRow
  <2> QED BY <2>1, GotoNotServing, FinishNotServing
<1>7. CASE \/ LookupAmbiguous(w) \/ Restore(w) \/ EnhanceAmbiguous(w)
           \/ EnhanceUpdateVanished(w) \/ StoreAccessRejected(w) \/ StoreRefresh(w)
           \/ DoFilterDeny(w) \/ Served(w) \/ Merge(w) \/ MergeVanished(w) \/ RevokeDeleted(w)
  BY <1>7, FinishNotServing
     DEF LookupAmbiguous, Restore, EnhanceAmbiguous, EnhanceUpdateVanished,
         StoreAccessRejected, StoreRefresh, DoFilterDeny, Served, Merge, MergeVanished,
         RevokeDeleted
<1> QED BY <1>2, <1>3, <1>4, <1>5, <1>6, <1>7 DEF Step

LEMMA NextNotServing ==
    ASSUME NEW w, Worker = {w}, TypeInv, [Next]_vars, ~DoFilterPass(w)
    PROVE  worker' = worker \/ worker'[w].at # "serving"
<1>1. CASE Step(w) \/ Begin(w)
  BY <1>1, StepNotServing, BeginNotServing
<1>2. CASE Environment
  BY <1>2 DEF Environment, Consent, Expire, NextDay
<1>3. CASE Restart
  BY <1>3 DEF Restart, Idle
<1>4. CASE Fail(w)
  BY <1>4, FinishNotServing DEF Fail
<1>5. CASE UNCHANGED vars
  BY <1>5 DEF vars
<1> QED BY <1>1, <1>2, <1>3, <1>4, <1>5 DEF Next, Fault

\* A token that is updated, a row written back with what was set, a row deleted: nothing is
\* answered meanwhile, and the day stays.
LEMMA NothingAnswered ==
    ASSUME NEW w, Worker = {w}, SerialInv,
           EnhanceUpdate(w) \/ Merge(w) \/ DeleteRow(w)
    PROVE  Answering' = Answering /\ today' = today
<1>1. TypeInv /\ worker[w].at # "serving"
  BY DEF SerialInv, EnhanceUpdate, Merge, DeleteRow, At
<1>2. worker'[w].at # "serving"
  BY <1>1, GotoNotServing, FinishNotServing DEF EnhanceUpdate, Merge, DeleteRow
<1> QED BY <1>1, <1>2, AnsweringIs, AnsweringWillBe DEF EnhanceUpdate, Merge, DeleteRow, clock

LEMMA RewriteContract ==
    ASSUME NEW w, Worker = {w}, RowId = Nat \ {0}, SerialInv, [Next]_vars,
           EnhanceUpdate(w) \/ Merge(w)
    PROVE  [Contract!Next]_(Contract!contract)
<1>1. PICK x, y : /\ Rewritten(rows, rows', x, y)
                  /\ Same(x, y) \/ Revoked(x, y) \/ Prolonged(x, y)
  BY UpdateStep, MergeStep
<1>2. nextRow' = nextRow
  BY DEF EnhanceUpdate, Merge
<1>3. Filed(rows, nextRow) /\ Filed(rows', nextRow)
  BY <1>2, FiledBoth
<1>4. PICK i, s, t, f, g :
         /\ i = x.id
         /\ s = StandingOf(rows, nextRow) /\ t = StandingOf(rows', nextRow)
         /\ f = UntilOf(rows) /\ g = UntilOf(rows')
  OBVIOUS
<1>5. /\ i \in RowId
      /\ t = [s EXCEPT ![i] = IF x.status = "1" THEN "active" ELSE "revoked"]
      /\ g = [f EXCEPT ![i] = x.end]
      /\ s[i] = IF y.status = "1" THEN "active" ELSE "revoked"
      /\ f[i] = y.end
  BY <1>1, <1>3, <1>4, Rewriting
<1>6. s = [j \in RowId |-> s[j]] /\ f = [j \in RowId |-> f[j]]
  BY <1>4 DEF StandingOf, UntilOf
<1>7. /\ Standings = s /\ Untils = f /\ Standings' = t /\ Untils' = g
      /\ Answering' = Answering /\ today' = today
  BY <1>2, <1>4, NothingAnswered, StandingsAre, StandingsWillBe
<1>8. s[i] \in {"active", "revoked"}
  BY <1>5
<1>9. CASE Same(x, y)
  <2>1. t = s /\ g = f
    BY <1>5, <1>6, <1>9 DEF Same
  <2> QED BY <1>7, <2>1 DEF Contract!contract, Standings, Untils, Answering
<1>10. CASE Revoked(x, y)
  <2>1. t = [s EXCEPT ![i] = "revoked"] /\ g = f
    BY <1>5, <1>6, <1>10 DEF Revoked
  <2>2. Contract!Revoke(i)
    BY <1>7, <1>8, <2>1 DEF Contract!Revoke, Contract!Exists, Standings, Untils, Answering
  <2> QED BY <1>5, <2>2 DEF Contract!Next
<1>11. CASE Prolonged(x, y)
  <2>1. t = s /\ g = [f EXCEPT ![i] = x.end] /\ x.end \in 0..(MaxDay + DefaultDays)
    BY <1>5, <1>6, <1>11 DEF Prolonged
  <2>2. PICK d \in 0..(MaxDay + DefaultDays) : d = x.end
    BY <2>1
  <2>3. Contract!ChangeEnd(i, d)
    BY <1>7, <1>8, <2>1, <2>2
       DEF Contract!ChangeEnd, Contract!Exists, Standings, Untils, Answering
  <2> QED BY <1>5, <2>3 DEF Contract!Next
<1> QED BY <1>1, <1>9, <1>10, <1>11

LEMMA DeleteContract ==
    ASSUME NEW w, Worker = {w}, RowId = Nat \ {0}, SerialInv, [Next]_vars, DeleteRow(w)
    PROVE  Contract!Next
<1>1. PICK y : Removed(rows, rows', y)
  BY DeleteStep
<1>2. nextRow' = nextRow
  BY DEF DeleteRow
<1>3. Filed(rows, nextRow) /\ Filed(rows', nextRow)
  BY <1>2, FiledBoth
<1>4. PICK i : i = y.id
  OBVIOUS
<1>5. /\ i \in RowId
      /\ StandingOf(rows, nextRow)[i] \in {"active", "revoked"}
      /\ StandingOf(rows', nextRow) = [StandingOf(rows, nextRow) EXCEPT ![i] = "gone"]
      /\ UntilOf(rows') = [UntilOf(rows) EXCEPT ![i] = 0]
  BY <1>1, <1>3, <1>4, Removing
<1>6. Contract!Delete(i)
  BY <1>2, <1>5, NothingAnswered, StandingsAre, StandingsWillBe
     DEF Contract!Delete, Contract!Exists, Standings, Untils, Answering
<1> QED BY <1>5, <1>6 DEF Contract!Next

LEMMA AnswerContract ==
    ASSUME NEW w, Worker = {w}, RowId = Nat \ {0}, SerialInv, [Next]_vars, DoFilterPass(w)
    PROVE  Contract!Next
<1>0. TypeInv /\ worker[w] \in Request /\ worker[w].at # "serving"
  BY RequestAt DEF SerialInv, TypeInv, DoFilterPass, At
<1>1. PICK x \in rows : /\ Valid(x)
                        /\ Become(w, [worker[w] EXCEPT !.at = "serving", !.row = x])
  BY DEF DoFilterPass, ByToken
<1>2. worker'[w].row = x /\ worker'[w].at = "serving"
  BY <1>0, <1>1 DEF Become, TypeInv, TypeOK, Request
<1>3. UNCHANGED <<rows, nextRow, today>>
  BY DEF DoFilterPass, clock
<1>4. Filed(rows, nextRow)
  BY FiledBoth
<1>5. PICK i : i = x.id
  OBVIOUS
<1>6. /\ i \in RowId /\ StandingOf(rows, nextRow)[i] = "active"
      /\ UntilOf(rows)[i] = 0 \/ UntilOf(rows)[i] >= today
  BY <1>1, <1>4, <1>5, StandsAs, UntilIs DEF Valid
<1>7. Answering = {} /\ Answering' = {i}
  BY <1>0, <1>2, <1>5, AnsweringIs, AnsweringWillBe
<1>8. Contract!Answer(i)
  <2>1. Standings' = Standings /\ Untils' = Untils
    BY <1>3, StandingsAre, StandingsWillBe
  <2> QED BY <1>3, <1>6, <1>7, <2>1, StandingsAre
          DEF Contract!Answer, Standings, Untils, Answering
<1> QED BY <1>6, <1>8 DEF Contract!Next

\* Whatever else a step does, the contract speaks of at most the end of an answer, or the day.
LEMMA OtherContract ==
    ASSUME NEW w, Worker = {w}, SerialInv, [Next]_vars, UNCHANGED <<rows, nextRow>>,
           ~DoFilterPass(w)
    PROVE  [Contract!Next]_(Contract!contract)
<1>1. Standings' = Standings /\ Untils' = Untils
  BY StandingsAre, StandingsWillBe
<1>2. Answering' = Answering \/ Answering' = {}
  BY NextNotServing, AnsweringIs, AnsweringWillBe DEF SerialInv
<1>3. CASE NextDay
  <2>1. Answering' = Answering
    BY <1>3 DEF NextDay, Answering, At
  <2>2. Contract!NextDay
    BY <1>1, <1>3, <2>1 DEF NextDay, Contract!NextDay, Standings, Untils, Answering
  <2> QED BY <2>2 DEF Contract!Next
<1>4. CASE UNCHANGED today
  <2>1. CASE Answering' = Answering
    BY <1>1, <1>4, <2>1 DEF Contract!contract, Standings, Untils, Answering
  <2>2. CASE Answering' = {}
    <3>1. PICK S : S = Answering
      OBVIOUS
    <3>2. Contract!Answered(S)
      BY <1>1, <1>4, <2>2, <3>1 DEF Contract!Answered, Standings, Untils, Answering
    <3> QED BY <3>1, <3>2 DEF Contract!Next, Answering
  <2> QED BY <1>2, <2>1, <2>2
<1>5. NextDay \/ UNCHANGED today
  <2>1. CASE Step(w) \/ Begin(w)
    BY <2>1 DEF Step, Begin, clock, LookupNone, LookupLive, LookupExpired, LookupAmbiguous,
        Restore, EnhanceFound, EnhanceNotFound, EnhanceAmbiguous, EnhanceUpdate,
        EnhanceUpdateVanished, EnhanceCreate, StoreAccess, StoreAccessRejected, StoreRefresh,
        DoFilterPass, DoFilterDeny, Served, ReadToken, RevokeToken, Merge, MergeVanished,
        DeleteRow, RevokeDeleted, ExchangeCode, PasswordGrant, GetOauthToken, ClientGrant, RefreshGrant,
        RefreshExpired, LoadAuthentication, LoadAuthenticationExpired, AdminRevoke,
        RevokeRead, DeleteRead, EndDateRead
  <2>2. CASE Environment \/ Fault \/ UNCHANGED vars
    BY <2>2 DEF Environment, Fault, clock, vars, Consent, Expire, Restart, Fail
  <2> QED BY <2>1, <2>2 DEF Next
<1> QED BY <1>3, <1>4, <1>5

LEMMA ContractInit ==
    ASSUME NEW w, Worker = {w}, RowId = Nat \ {0}, Init
    PROVE  Contract!Init
<1>1. rows = {} /\ nextRow = 1 /\ worker[w].at # "serving" /\ today = 1
  BY DEF Init, Idle
<1>2. Standings = [i \in RowId |-> "unused"] /\ Untils = [i \in RowId |-> 0]
  BY <1>1, StandingsAre DEF StandingOf, UntilOf
<1>3. Answering = {}
  BY <1>1, AnsweringIs
<1> QED BY <1>1, <1>2, <1>3 DEF Contract!Init, Standings, Untils, Answering

\* One at a time, the authorization handlers keep the promise made to the customer of every
\* authorization: AuthorizationLifecycle implements AuthorizationContract.
THEOREM HandlersKeepTheContract ==
    ASSUME NEW w, Worker = {w}, MaxDay > 0, RowId = Nat \ {0}
    PROVE  Spec => ContractKept
<1>1. Init => Contract!Init
  BY ContractInit
<1>2. SerialInv /\ [Next]_vars => [Contract!Next]_(Contract!contract)
  <2> SUFFICES ASSUME SerialInv, [Next]_vars
               PROVE  [Contract!Next]_(Contract!contract)
    OBVIOUS
  <2>1. CASE EnhanceCreate(w)
    BY <2>1, CreateContract
  <2>2. CASE EnhanceUpdate(w) \/ Merge(w)
    BY <2>2, RewriteContract
  <2>3. CASE DeleteRow(w)
    BY <2>3, DeleteContract
  <2>4. CASE DoFilterPass(w)
    BY <2>4, AnswerContract
  <2>5. CASE UNCHANGED <<rows, nextRow>> /\ ~DoFilterPass(w)
    BY <2>5, OtherContract
  <2> QED BY <2>1, <2>2, <2>3, <2>4, <2>5, RowsSteps
<1> QED BY <1>1, <1>2, SerialCorrect, PTL DEF Spec, ContractKept, Contract!Spec
===================================================================================

---------------------- MODULE AuthorizationLifecycle_proofs ----------------------
(***************************************************************************)
(* Proofs about AuthorizationLifecycle, for any set of customers, clients  *)
(* and request threads and for any bounds.                                 *)
(***************************************************************************)
EXTENDS AuthorizationLifecycle, TLAPS

USE DEF NoValue

\* A thread that works on an entity or for a party has one.
Working    == Holding \cup {"lookup"}
WithEntity == {"update", "serving", "readToken", "revokeToken", "merge", "delete",
               "revokeDeleted"}

WellFormed ==
    \A w \in Worker :
        /\ worker[w].at \in Working => worker[w].party \in Party
        /\ worker[w].at \in WithEntity => worker[w].row \in Authorization

TypeInv == TypeOK /\ WellFormed

LEMMA RequestAt ==
    ASSUME TypeOK, NEW w \in Worker
    PROVE  worker[w] \in Request
BY DEF TypeOK

LEMMA IdleRequest == Idle \in Request
BY DEF Idle, Request, Places, NoRow

\* Every action that changes one thread gives it a well-formed request.
LEMMA BecomeOK ==
    ASSUME TypeInv, NEW w \in Worker, NEW req \in Request, Become(w, req),
           req.at \in Working => req.party \in Party,
           req.at \in WithEntity => req.row \in Authorization
    PROVE  worker' \in [Worker -> Request] /\ WellFormed'
BY DEF TypeInv, TypeOK, WellFormed, Become

LEMMA FinishOK ==
    ASSUME TypeInv, NEW w \in Worker, Finish(w)
    PROVE  worker' \in [Worker -> Request] /\ WellFormed'
<1>1. Idle.at \notin Working /\ Idle.at \notin WithEntity
  BY DEF Idle, Working, Holding, WithEntity
<1> QED BY <1>1, IdleRequest, BecomeOK DEF Finish

LEMMA TypeInit == Init => TypeInv
<1> SUFFICES ASSUME Init PROVE TypeInv
  OBVIOUS
<1>1. TypeOK
  BY IdleRequest DEF Init, TypeOK
<1>2. WellFormed
  BY DEF Init, WellFormed, Idle, Working, Holding, WithEntity
<1> QED BY <1>1, <1>2 DEF TypeInv

-----------------------------------------------------------------------------
(* Type correctness, one lemma for each kind of request. *)

LEMMA IssueOK ==
    ASSUME TypeInv, NEW w \in Worker, NEW r \in Nat, worker[w].party \in Party, Issue(w, r)
    PROVE  /\ worker' \in [Worker -> Request] /\ WellFormed'
           /\ nextToken' \in Nat \ {0}
<1> DEFINE req     == worker[w]
           renewed == IF r = NoValue /\ Kind[req.party] # "client_credentials"
                        THEN nextToken + 1 ELSE r
           new     == [req EXCEPT !.at = "enhance", !.token = nextToken, !.refresh = renewed]
<1>1. Become(w, new)
  BY DEF Issue
<1>2. req \in Request /\ nextToken \in Nat \ {0}
  BY RequestAt DEF TypeInv, TypeOK
<1>3. new \in Request /\ new.party \in Party /\ new.at = "enhance"
  <2>1. renewed \in Nat
    BY <1>2
  <2> HIDE DEF renewed
  <2> QED BY <1>2, <2>1 DEF Request, Places
<1>4. worker' \in [Worker -> Request] /\ WellFormed'
  BY <1>1, <1>3, BecomeOK DEF WithEntity
<1>5. nextToken' \in Nat \ {0}
  BY <1>2 DEF Issue
<1> QED BY <1>4, <1>5

LEMMA GrantType ==
    ASSUME TypeInv, NEW w \in Worker,
           \/ \E c \in codes : ExchangeCode(w, c)
           \/ \E p \in Party : PasswordGrant(w, p) \/ GetOauthToken(w, p) \/ ClientGrant(w, p)
           \/ \E f \in refreshes : RefreshGrant(w, f) \/ RefreshExpired(w, f)
    PROVE  TypeInv'
<1> USE DEF TypeInv, stores, clock
<1>1. ASSUME NEW c \in codes, ExchangeCode(w, c)
      PROVE  TypeInv'
  <2> DEFINE new == [Idle EXCEPT !.at = "lookup", !.party = c.party, !.end = c.end]
  <2>1. c \in Code
    BY DEF TypeOK
  <2>2. new \in Request /\ new.party \in Party /\ new.at = "lookup"
    BY <2>1 DEF Request, Code, Idle, Places, NoRow
  <2>3. worker' \in [Worker -> Request] /\ WellFormed'
    BY <1>1, <2>2, BecomeOK DEF ExchangeCode, WithEntity
  <2>4. codes' \subseteq Code
    BY <1>1 DEF ExchangeCode, TypeOK
  <2> QED BY <1>1, <2>3, <2>4 DEF TypeOK, ExchangeCode
<1>2. ASSUME NEW p \in Party, PasswordGrant(w, p) \/ GetOauthToken(w, p) \/ ClientGrant(w, p)
      PROVE  TypeInv'
  <2> DEFINE new == [Idle EXCEPT !.at = "lookup", !.party = p]
  <2>1. new \in Request /\ new.party \in Party /\ new.at = "lookup"
    BY DEF Request, Idle, Places, NoRow
  <2>2. worker' \in [Worker -> Request] /\ WellFormed'
    BY <1>2, <2>1, BecomeOK DEF PasswordGrant, GetOauthToken, ClientGrant, WithEntity
  <2> QED BY <1>2, <2>2 DEF TypeOK, PasswordGrant, GetOauthToken, ClientGrant
<1>3. ASSUME NEW f \in refreshes, RefreshGrant(w, f)
      PROVE  TypeInv'
  <2> DEFINE new == [Idle EXCEPT !.at = "enhance", !.party = f.party, !.token = nextToken,
                        !.refresh = f.id, !.end = f.end, !.refreshing = TRUE]
  <2>1. f \in RefreshToken /\ nextToken \in Nat \ {0}
    BY DEF TypeOK
  <2>2. new \in Request /\ new.party \in Party /\ new.at = "enhance"
    BY <2>1 DEF Request, RefreshToken, Idle, Places, NoRow
  <2>3. worker' \in [Worker -> Request] /\ WellFormed'
    BY <1>3, <2>2, BecomeOK DEF RefreshGrant, WithEntity
  <2>4. access' \subseteq AccessToken
    BY <1>3 DEF RefreshGrant, TypeOK
  <2>5. nextToken' \in Nat \ {0}
    <3>1. nextToken' = nextToken + 1
      BY <1>3 DEF RefreshGrant
    <3> QED BY <2>1, <3>1
  <2> QED BY <1>3, <2>3, <2>4, <2>5 DEF TypeOK, RefreshGrant
<1>4. ASSUME NEW f \in refreshes, RefreshExpired(w, f)
      PROVE  TypeInv'
  BY <1>4 DEF TypeOK, RefreshExpired, WellFormed
<1> QED BY <1>1, <1>2, <1>3, <1>4

LEMMA LookupType ==
    ASSUME TypeInv, NEW w \in Worker,
           \/ LookupNone(w) \/ LookupLive(w) \/ LookupExpired(w) \/ LookupAmbiguous(w)
           \/ Restore(w)
    PROVE  TypeInv'
<1> USE DEF TypeInv, stores, clock
<1> DEFINE req == worker[w]
<1>1. req \in Request
  BY RequestAt
<1>2. req.at \in Working => req.party \in Party
  BY DEF WellFormed
<1>3. CASE LookupNone(w)
  <2>1. req.party \in Party
    BY <1>2, <1>3 DEF LookupNone, At, Working
  <2>2. worker' \in [Worker -> Request] /\ WellFormed' /\ nextToken' \in Nat \ {0}
    BY <1>3, <2>1, IssueOK DEF LookupNone
  <2> QED BY <1>3, <2>2 DEF LookupNone, TypeOK
<1>4. CASE LookupLive(w)
  <2>1. req.party \in Party
    BY <1>2, <1>4 DEF LookupLive, At, Working
  <2>2. PICK t \in access : Become(w, [req EXCEPT !.at = "restore", !.token = t.token,
                                                   !.refresh = t.refresh])
    BY <1>4 DEF LookupLive, Held
  <2> DEFINE new == [req EXCEPT !.at = "restore", !.token = t.token, !.refresh = t.refresh]
  <2>3. t \in AccessToken
    BY DEF TypeOK
  <2>4. new \in Request /\ new.party \in Party /\ new.at = "restore"
    BY <1>1, <2>1, <2>3 DEF Request, AccessToken, Places
  <2>5. worker' \in [Worker -> Request] /\ WellFormed'
    BY <2>2, <2>4, BecomeOK DEF WithEntity
  <2> QED BY <1>4, <2>5 DEF LookupLive, TypeOK
<1>5. CASE LookupExpired(w)
  <2>1. req.party \in Party
    BY <1>2, <1>5 DEF LookupExpired, At, Working
  <2>2. PICK t \in access :
           /\ access' = access \ {t}
           /\ refreshes' = WithoutRefresh(t.refresh)
           /\ Issue(w, IF t.refresh \in expired THEN NoValue ELSE t.refresh)
    BY <1>5 DEF LookupExpired, Held
  <2>3. (IF t.refresh \in expired THEN NoValue ELSE t.refresh) \in Nat
    BY DEF TypeOK, AccessToken
  <2>4. worker' \in [Worker -> Request] /\ WellFormed' /\ nextToken' \in Nat \ {0}
    BY <2>1, <2>2, <2>3, IssueOK
  <2>5. access' \subseteq AccessToken /\ refreshes' \subseteq RefreshToken
    BY <2>2 DEF TypeOK, WithoutRefresh
  <2> QED BY <1>5, <2>4, <2>5 DEF LookupExpired, TypeOK
<1>6. CASE LookupAmbiguous(w)
  BY <1>6, FinishOK DEF LookupAmbiguous, TypeOK
<1>7. CASE Restore(w)
  <2>1. req.party \in Party
    BY <1>2, <1>7 DEF Restore, At, Working, Holding
  <2>2. Meaning(req) \in AccessToken
    BY <1>1, <2>1 DEF Meaning, AccessToken, Request
  <2>3. access' \subseteq AccessToken
    BY <1>7, <2>2 DEF Restore, TypeOK
  <2> QED BY <1>7, <2>3, FinishOK DEF Restore, TypeOK
<1> QED BY <1>3, <1>4, <1>5, <1>6, <1>7

LEMMA EnhanceType ==
    ASSUME TypeInv, NEW w \in Worker,
           \/ EnhanceFound(w) \/ EnhanceNotFound(w) \/ EnhanceAmbiguous(w)
           \/ EnhanceUpdate(w) \/ EnhanceUpdateVanished(w) \/ EnhanceCreate(w)
    PROVE  TypeInv'
<1> USE DEF TypeInv, stores, clock
<1> DEFINE req == worker[w]
<1>1. req \in Request
  BY RequestAt
<1>2. /\ req.at \in Working => req.party \in Party
      /\ req.at \in WithEntity => req.row \in Authorization
  BY DEF WellFormed
<1>3. CASE EnhanceFound(w)
  <2>1. req.party \in Party
    BY <1>2, <1>3 DEF EnhanceFound, At, Working, Holding
  <2>2. PICK x \in rows : Become(w, [req EXCEPT !.at = "update",
                                          !.row = [x EXCEPT !.token = req.token]])
    BY <1>3 DEF EnhanceFound, ByRefresh
  <2> DEFINE y   == [x EXCEPT !.token = req.token]
             new == [req EXCEPT !.at = "update", !.row = y]
  <2>3. y \in Authorization
    BY <1>1 DEF TypeOK, Authorization, Request
  <2>4. new \in Request /\ new.party \in Party /\ new.row \in Authorization
    <3> HIDE DEF y
    <3> QED BY <1>1, <2>1, <2>3 DEF Request, Places
  <2>5. worker' \in [Worker -> Request] /\ WellFormed'
    BY <2>2, <2>4, BecomeOK
  <2> QED BY <1>3, <2>5 DEF EnhanceFound, TypeOK
<1>4. CASE EnhanceNotFound(w)
  <2> DEFINE new == [req EXCEPT !.at = "create"]
  <2>1. new \in Request /\ new.party \in Party /\ new.at = "create"
    BY <1>1, <1>2, <1>4 DEF EnhanceNotFound, At, Working, Holding, Request, Places
  <2>2. worker' \in [Worker -> Request] /\ WellFormed'
    BY <1>4, <2>1, BecomeOK DEF EnhanceNotFound, Goto, WithEntity
  <2> QED BY <1>4, <2>2 DEF EnhanceNotFound, TypeOK
<1>5. CASE EnhanceAmbiguous(w)
  BY <1>5, FinishOK DEF EnhanceAmbiguous, TypeOK
<1>6. CASE EnhanceUpdate(w)
  <2> DEFINE new == [req EXCEPT !.at = "storeAccess"]
  <2>1. req.row \in Authorization
    BY <1>2, <1>6 DEF EnhanceUpdate, At, WithEntity
  <2>2. new \in Request /\ new.party \in Party /\ new.at = "storeAccess"
    BY <1>1, <1>2, <1>6 DEF EnhanceUpdate, At, Working, Holding, Request, Places
  <2>3. worker' \in [Worker -> Request] /\ WellFormed'
    BY <1>6, <2>2, BecomeOK DEF EnhanceUpdate, Goto, WithEntity
  <2>4. rows' \subseteq Authorization
    BY <1>6, <2>1 DEF EnhanceUpdate, Overwrite, TypeOK
  <2> QED BY <1>6, <2>3, <2>4 DEF EnhanceUpdate, TypeOK
<1>7. CASE EnhanceUpdateVanished(w)
  BY <1>7, FinishOK DEF EnhanceUpdateVanished, TypeOK
<1>8. CASE EnhanceCreate(w)
  <2> DEFINE new == [req EXCEPT !.at = "storeAccess"]
             begun == IF Kind[req.party] = "client_credentials" THEN 0 ELSE today
             x == [id |-> nextRow, party |-> req.party, token |-> req.token,
                   refresh |-> req.refresh, status |-> "1", start |-> begun,
                   end |-> PeriodEnd(req.party, req.end)]
  <2>1. new \in Request /\ new.party \in Party /\ new.at = "storeAccess"
    BY <1>1, <1>2, <1>8 DEF EnhanceCreate, At, Working, Holding, Request, Places
  <2>2. worker' \in [Worker -> Request] /\ WellFormed'
    BY <1>8, <2>1, BecomeOK DEF EnhanceCreate, Goto, WithEntity
  <2>3. PeriodEnd(req.party, req.end) \in Nat /\ begun \in Nat
    BY <1>1, BoundAssumption DEF PeriodEnd, TypeOK, Request
  <2>4. x \in Authorization
    <3>1. req.party \in Party /\ req.token \in Nat /\ req.refresh \in Nat /\ nextRow \in Nat
      BY <1>1, <2>1 DEF TypeOK, Request
    <3> HIDE DEF begun
    <3> QED BY <2>3, <3>1 DEF Authorization, Status
  <2>5. rows' = rows \cup {x} /\ nextRow' = nextRow + 1
    BY <1>8 DEF EnhanceCreate
  <2>6. rows' \subseteq Authorization /\ nextRow' \in Nat \ {0}
    <3> HIDE DEF x
    <3> QED BY <2>4, <2>5 DEF TypeOK
  <2> QED BY <1>8, <2>2, <2>6 DEF EnhanceCreate, TypeOK
<1> QED BY <1>3, <1>4, <1>5, <1>6, <1>7, <1>8

LEMMA StoreType ==
    ASSUME TypeInv, NEW w \in Worker,
           StoreAccess(w) \/ StoreAccessRejected(w) \/ StoreRefresh(w)
    PROVE  TypeInv'
<1> USE DEF TypeInv, stores, clock
<1> DEFINE req == worker[w]
<1>1. req \in Request
  BY RequestAt
<1>2. req.party \in Party
  BY DEF WellFormed, StoreAccess, StoreAccessRejected, StoreRefresh, At, Working, Holding
<1>3. CASE StoreAccess(w)
  <2> DEFINE new == [req EXCEPT !.at = "storeRefresh"]
  <2>1. new \in Request /\ new.party \in Party /\ new.at = "storeRefresh"
    BY <1>1, <1>2 DEF Request, Places
  <2>2. Goto(w, "storeRefresh") => worker' \in [Worker -> Request] /\ WellFormed'
    BY <2>1, BecomeOK DEF Goto, WithEntity
  <2>3. worker' \in [Worker -> Request] /\ WellFormed'
    BY <1>3, <2>2, FinishOK DEF StoreAccess
  <2>4. Meaning(req) \in AccessToken
    BY <1>1, <1>2 DEF Meaning, AccessToken, Request
  <2>5. access' \subseteq AccessToken
    BY <1>3, <2>4 DEF StoreAccess, TypeOK
  <2> QED BY <1>3, <2>3, <2>5 DEF StoreAccess, TypeOK
<1>4. CASE StoreAccessRejected(w)
  BY <1>4, FinishOK DEF StoreAccessRejected, TypeOK
<1>5. CASE StoreRefresh(w)
  <2>1. [id |-> req.refresh, party |-> req.party, end |-> req.end] \in RefreshToken
    BY <1>1, <1>2 DEF RefreshToken, Request
  <2>2. refreshes' \subseteq RefreshToken
    BY <1>5, <2>1 DEF StoreRefresh, WithoutRefresh, TypeOK
  <2> QED BY <1>5, <2>2, FinishOK DEF StoreRefresh, TypeOK
<1> QED BY <1>3, <1>4, <1>5

LEMMA ResourceType ==
    ASSUME TypeInv, NEW w \in Worker,
           \/ \E t \in access : LoadAuthentication(w, t) \/ LoadAuthenticationExpired(w, t)
                                \/ AdminRevoke(w, t)
           \/ DoFilterPass(w) \/ DoFilterDeny(w) \/ Served(w)
    PROVE  TypeInv'
<1> USE DEF TypeInv, stores, clock
<1> DEFINE req == worker[w]
<1>1. req \in Request
  BY RequestAt
<1>2. ASSUME NEW t \in access, LoadAuthentication(w, t)
      PROVE  TypeInv'
  <2> DEFINE new == [Idle EXCEPT !.at = "filter", !.party = t.party, !.token = t.token,
                                 !.refresh = t.refresh]
  <2>1. t \in AccessToken
    BY DEF TypeOK
  <2>2. new \in Request /\ new.party \in Party /\ new.at = "filter"
    BY <2>1 DEF AccessToken, Request, Idle, Places, NoRow
  <2>3. worker' \in [Worker -> Request] /\ WellFormed'
    BY <1>2, <2>2, BecomeOK DEF LoadAuthentication, WithEntity
  <2> QED BY <1>2, <2>3 DEF LoadAuthentication, TypeOK
<1>3. ASSUME NEW t \in access, LoadAuthenticationExpired(w, t) \/ AdminRevoke(w, t)
      PROVE  TypeInv'
  BY <1>3 DEF LoadAuthenticationExpired, AdminRevoke, RevokeStored, WellFormed, TypeOK
<1>4. CASE DoFilterPass(w)
  <2>1. PICK x \in rows : Become(w, [req EXCEPT !.at = "serving", !.row = x])
    BY <1>4 DEF DoFilterPass, ByToken
  <2> DEFINE new == [req EXCEPT !.at = "serving", !.row = x]
  <2>2. x \in Authorization
    BY DEF TypeOK
  <2>3. req.party \in Party
    BY <1>4 DEF DoFilterPass, WellFormed, At, Working, Holding
  <2>4. new \in Request /\ new.party \in Party /\ new.row \in Authorization
    BY <1>1, <2>2, <2>3 DEF Request, Places
  <2>5. worker' \in [Worker -> Request] /\ WellFormed'
    BY <2>1, <2>4, BecomeOK
  <2> QED BY <1>4, <2>5 DEF DoFilterPass, TypeOK
<1>5. CASE DoFilterDeny(w) \/ Served(w)
  BY <1>5, FinishOK DEF DoFilterDeny, Served, TypeOK
<1> QED BY <1>2, <1>3, <1>4, <1>5

\* An entity read into memory for a later write is well formed whatever the request sets.
LEMMA EntityRequest ==
    ASSUME TypeInv, NEW w \in Worker, NEW x \in Authorization, NEW place \in Places \ Working,
           Become(w, [Idle EXCEPT !.at = place, !.row = x])
    PROVE  worker' \in [Worker -> Request] /\ WellFormed'
<1> DEFINE new == [Idle EXCEPT !.at = place, !.row = x]
<1>1. new \in Request /\ new.at \notin Working /\ new.row \in Authorization
  BY DEF Idle, Request
<1> QED BY <1>1, BecomeOK

LEMMA RevokeStoredOK ==
    ASSUME TypeOK, NEW v, RevokeStored(v)
    PROVE  access' \subseteq AccessToken /\ refreshes' \subseteq RefreshToken
BY DEF TypeOK, RevokeStored

LEMMA ChangeType ==
    ASSUME TypeInv, NEW w \in Worker,
           \/ \E x \in rows : RevokeRead(w, x) \/ DeleteRead(w, x)
           \/ \E x \in rows, d \in 1..MaxDay : EndDateRead(w, x, d)
           \/ ReadToken(w) \/ RevokeToken(w) \/ Merge(w) \/ MergeVanished(w)
           \/ DeleteRow(w) \/ RevokeDeleted(w)
    PROVE  TypeInv'
<1> USE DEF TypeInv, stores, clock
<1> DEFINE req     == worker[w]
           revoked == [req.row EXCEPT !.status = "0"]
           merging == [req EXCEPT !.at = "merge", !.row.status = "0"]
<1>1. req \in Request
  BY RequestAt
<1>2. req.at \in WithEntity => req.row \in Authorization
  BY DEF WellFormed
<1>3. req.row \in Authorization /\ Become(w, merging)
      => worker' \in [Worker -> Request] /\ WellFormed'
  <2> HAVE req.row \in Authorization /\ Become(w, merging)
  <2>1. revoked \in Authorization
    BY DEF Authorization, Status
  <2>2. merging = [req EXCEPT !.at = "merge", !.row = revoked]
    BY <1>1 DEF Request
  <2>3. merging \in Request /\ merging.at = "merge" /\ merging.row \in Authorization
    <3> HIDE DEF revoked, merging
    <3> QED BY <1>1, <2>1, <2>2 DEF Request, Places
  <2> QED BY <2>3, BecomeOK DEF Working, Holding
<1>4. ASSUME NEW x \in rows, RevokeRead(w, x) \/ DeleteRead(w, x)
      PROVE  TypeInv'
  <2>1. x \in Authorization
    BY DEF TypeOK
  <2>2. {"readToken", "delete"} \subseteq Places \ Working
    BY DEF Places, Working, Holding
  <2>3. worker' \in [Worker -> Request] /\ WellFormed'
    BY <1>4, <2>1, <2>2, EntityRequest DEF RevokeRead, DeleteRead
  <2> QED BY <1>4, <2>3 DEF RevokeRead, DeleteRead, TypeOK
<1>5. ASSUME NEW x \in rows, NEW d \in 1..MaxDay, EndDateRead(w, x, d)
      PROVE  TypeInv'
  <2>1. [x EXCEPT !.end = d] \in Authorization
    BY BoundAssumption DEF TypeOK, Authorization
  <2>2. "merge" \in Places \ Working
    BY DEF Places, Working, Holding
  <2>3. worker' \in [Worker -> Request] /\ WellFormed'
    BY <1>5, <2>1, <2>2, EntityRequest DEF EndDateRead
  <2> QED BY <1>5, <2>3 DEF EndDateRead, TypeOK
<1>6. CASE ReadToken(w)
  <2> DEFINE new == [req EXCEPT !.at = "revokeToken"]
  <2>1. req.row \in Authorization
    BY <1>2, <1>6 DEF ReadToken, At, WithEntity
  <2>2. new \in Request /\ new.at = "revokeToken" /\ new.row \in Authorization
    BY <1>1, <2>1 DEF Request, Places
  <2>3. Goto(w, "revokeToken") => worker' \in [Worker -> Request] /\ WellFormed'
    BY <2>2, BecomeOK DEF Goto, Working, Holding
  <2>4. worker' \in [Worker -> Request] /\ WellFormed'
    <3>1. Goto(w, "revokeToken") \/ Become(w, merging)
      BY <1>6 DEF ReadToken
    <3> HIDE DEF merging
    <3> QED BY <1>3, <2>1, <2>3, <3>1
  <2> QED BY <1>6, <2>4 DEF ReadToken, TypeOK
<1>7. CASE RevokeToken(w)
  <2>1. req.row \in Authorization
    BY <1>2, <1>7 DEF RevokeToken, At, WithEntity
  <2>2. worker' \in [Worker -> Request] /\ WellFormed'
    <3>1. Finish(w) \/ Become(w, merging)
      BY <1>7 DEF RevokeToken
    <3> HIDE DEF merging
    <3> QED BY <1>3, <2>1, <3>1, FinishOK
  <2>3. access' \subseteq AccessToken /\ refreshes' \subseteq RefreshToken
    BY <1>7, RevokeStoredOK DEF RevokeToken
  <2> QED BY <1>7, <2>2, <2>3 DEF RevokeToken, TypeOK
<1>8. CASE Merge(w) \/ MergeVanished(w)
  <2>1. req.row \in Authorization
    BY <1>2, <1>8 DEF Merge, MergeVanished, At, WithEntity
  <2>2. [req.row EXCEPT !.id = nextRow] \in Authorization
    BY <2>1 DEF Authorization, TypeOK
  <2>3. rows' \subseteq Authorization
    BY <1>8, <2>1, <2>2 DEF Merge, MergeVanished, Overwrite, TypeOK
  <2>4. nextRow' \in Nat \ {0}
    <3>1. nextRow' = nextRow \/ nextRow' = nextRow + 1
      BY <1>8 DEF Merge, MergeVanished
    <3> QED BY <3>1 DEF TypeOK
  <2> QED BY <1>8, <2>3, <2>4, FinishOK DEF Merge, MergeVanished, TypeOK
<1>9. CASE DeleteRow(w)
  <2> DEFINE new == [req EXCEPT !.at = "revokeDeleted"]
  <2>1. req.row \in Authorization
    BY <1>2, <1>9 DEF DeleteRow, At, WithEntity
  <2>2. new \in Request /\ new.at = "revokeDeleted" /\ new.row \in Authorization
    BY <1>1, <2>1 DEF Request, Places
  <2>3. Goto(w, "revokeDeleted") => worker' \in [Worker -> Request] /\ WellFormed'
    BY <2>2, BecomeOK DEF Goto, Working, Holding
  <2>4. worker' \in [Worker -> Request] /\ WellFormed'
    BY <1>9, <2>3, FinishOK DEF DeleteRow
  <2> QED BY <1>9, <2>4 DEF DeleteRow, TypeOK
<1>10. CASE RevokeDeleted(w)
  BY <1>10, FinishOK, RevokeStoredOK DEF RevokeDeleted, TypeOK
<1> QED BY <1>4, <1>5, <1>6, <1>7, <1>8, <1>9, <1>10

LEMMA EnvironmentType ==
    ASSUME TypeInv, Environment \/ Restart
    PROVE  TypeInv'
<1> USE DEF TypeInv, stores, clock
<1>1. ASSUME NEW p \in Party, NEW d \in 0..MaxDay, Consent(p, d)
      PROVE  TypeInv'
  BY <1>1, BoundAssumption DEF Consent, Code, WellFormed, TypeOK
<1>2. ASSUME NEW v \in Known, Expire(v)
      PROVE  TypeInv'
  <2>1. v \in Nat
    BY RequestAt DEF Known, TypeOK, AccessToken, RefreshToken, Request
  <2> QED BY <1>2, <2>1 DEF Expire, WellFormed, TypeOK
<1>3. CASE NextDay
  <2>1. today' \in Nat
    BY <1>3 DEF NextDay, TypeOK
  <2> QED BY <1>3, <2>1 DEF NextDay, WellFormed, TypeOK
<1>4. CASE Restart
  <2>1. worker' \in [Worker -> Request]
    BY <1>4, IdleRequest DEF Restart
  <2>2. WellFormed'
    BY <1>4 DEF Restart, WellFormed, Idle, Working, Holding, WithEntity
  <2> QED BY <1>4, <2>1, <2>2 DEF Restart, TypeOK
<1> QED BY <1>1, <1>2, <1>3, <1>4 DEF Environment

LEMMA TypeStep == TypeInv /\ [Next]_vars => TypeInv'
<1> SUFFICES ASSUME TypeInv, [Next]_vars
             PROVE  TypeInv'
  OBVIOUS
<1>1. ASSUME NEW w \in Worker, Step(w) \/ Begin(w)
      PROVE  TypeInv'
  BY <1>1, GrantType, LookupType, EnhanceType, StoreType, ResourceType, ChangeType
     DEF Step, Begin
<1>2. ASSUME NEW w \in Worker, Fail(w)
      PROVE  TypeInv'
  BY <1>2, FinishOK DEF TypeInv, TypeOK, Fail, stores, clock
<1>3. CASE Environment \/ Restart
  BY <1>3, EnvironmentType
<1>4. CASE UNCHANGED vars
  BY <1>4 DEF TypeInv, TypeOK, WellFormed, vars
<1> QED BY <1>1, <1>2, <1>3, <1>4 DEF Next, Fault

\* In every state the two databases and the threads hold records of the declared shapes,
\* and a handler past its first read has an entity, or a party, to go on with.
THEOREM TypeCorrect == Spec => []TypeOK
<1>1. TypeInv => TypeOK
  BY DEF TypeInv
<1> QED BY TypeInit, TypeStep, <1>1, PTL DEF Spec

-----------------------------------------------------------------------------
(* An access token means one thing.  The invariant that makes it so: every token *)
(* value in use is below nextToken, and every refresh token belongs to one       *)
(* party, in both databases and in every thread's memory.                        *)

OwnerOf(m) == [refresh |-> m.refresh, party |-> m.party]

\* Which party each refresh token belongs to, wherever that is recorded.
Owners == {OwnerOf(m) : m \in Meanings} \cup {[refresh |-> f.id, party |-> f.party] : f \in refreshes}

RefreshHasOneOwner ==
    \A a, b \in Owners : a.refresh = b.refresh /\ a.refresh # NoValue => a = b

ValuesWereIssued ==
    /\ \A m \in Meanings : m.token < nextToken
    /\ \A a \in Owners : a.refresh < nextToken

\* A request about to look for, or to store, a refresh token has one.
HasRefresh(req) ==
    /\ req.at = "storeRefresh" => req.refresh # NoValue
    /\ req.at = "enhance" /\ Kind[req.party] = "authorization_code" => req.refresh # NoValue

TokenInv ==
    /\ TokenMeansOne
    /\ RefreshHasOneOwner
    /\ ValuesWereIssued
    /\ \A f \in refreshes : f.id # NoValue
    /\ \A w \in Worker : HasRefresh(worker[w])

LEMMA MeaningsTyped == TypeInv => Meanings \subseteq AccessToken
<1> SUFFICES ASSUME TypeInv PROVE Meanings \subseteq AccessToken
  OBVIOUS
<1>1. \A x \in rows : Meaning(x) \in AccessToken
  BY DEF TypeInv, TypeOK, Authorization, AccessToken, Meaning
<1>2. ASSUME NEW w \in Worker PROVE Carried(worker[w]) \subseteq AccessToken
  <2>1. worker[w] \in Request
    BY RequestAt DEF TypeInv
  <2>2. worker[w].row # NoRow => Meaning(worker[w].row) \in AccessToken
    BY <2>1 DEF Request, Authorization, AccessToken, Meaning
  <2>3. worker[w].at \in Holding => Meaning(worker[w]) \in AccessToken
    BY <2>1 DEF TypeInv, WellFormed, Working, Request, AccessToken, Meaning
  <2> QED BY <2>2, <2>3 DEF Carried
<1> QED BY <1>1, <1>2 DEF Meanings, TypeInv, TypeOK

LEMMA OwnersTyped == TypeInv => Owners \subseteq [refresh : Nat, party : Party]
BY MeaningsTyped DEF Owners, OwnerOf, AccessToken, TypeInv, TypeOK, RefreshToken

-----------------------------------------------------------------------------
(* What a step adds to the meanings. *)

\* A thread's next request adds what it carries, and the tables what is written to them.
LEMMA MeaningsOfStep ==
    ASSUME TypeInv, NEW w \in Worker, NEW req, Become(w, req), NEW S,
           Meanings \subseteq S, Carried(req) \subseteq S, access' \subseteq S,
           \A x \in rows' : Meaning(x) \in S
    PROVE  Meanings' \subseteq S
<1>1. ASSUME NEW u \in Worker PROVE Carried(worker'[u]) \subseteq S
  <2>1. worker'[u] = IF u = w THEN req ELSE worker[u]
    BY DEF Become, TypeInv, TypeOK
  <2>2. Carried(worker[u]) \subseteq Meanings
    BY DEF Meanings
  <2> QED BY <2>1, <2>2
<1>2. UNION {Carried(worker'[u]) : u \in Worker} \subseteq S
  BY <1>1
<1>3. Meanings' = access' \cup {Meaning(x) : x \in rows'}
                   \cup UNION {Carried(worker'[u]) : u \in Worker}
  BY DEF Meanings, Carried, Meaning
<1> QED BY <1>2, <1>3

\* A step that records only meanings already recorded keeps the invariant.
LEMMA NothingNew ==
    ASSUME TypeInv, TokenInv, Meanings' \subseteq Meanings,
           \A f \in refreshes' : f.id # NoValue /\ [refresh |-> f.id, party |-> f.party] \in Owners,
           nextToken' = nextToken,
           \A w \in Worker : HasRefresh(worker'[w])
    PROVE  TokenInv'
<1>1. Owners' \subseteq Owners
  BY DEF Owners, OwnerOf
<1>2. TokenMeansOne'
  BY DEF TokenInv, TokenMeansOne
<1>3. RefreshHasOneOwner' /\ ValuesWereIssued'
  BY <1>1 DEF TokenInv, RefreshHasOneOwner, ValuesWereIssued
<1>4. \A w \in Worker : HasRefresh(worker[w])'
  BY DEF HasRefresh
<1> QED BY <1>2, <1>3, <1>4 DEF TokenInv

LEMMA QuietStep ==
    ASSUME TypeInv, TokenInv, NEW w \in Worker, NEW req, Become(w, req),
           Carried(req) \subseteq Meanings, HasRefresh(req), access' \subseteq Meanings,
           \A x \in rows' : Meaning(x) \in Meanings,
           \A f \in refreshes' : f.id # NoValue /\ [refresh |-> f.id, party |-> f.party] \in Owners,
           nextToken' = nextToken
    PROVE  TokenInv'
<1>1. Meanings' \subseteq Meanings
  BY MeaningsOfStep
<1>2. \A u \in Worker : HasRefresh(worker'[u])
  BY DEF Become, TypeInv, TypeOK, TokenInv
<1> QED BY <1>1, <1>2, NothingNew

\* What is recorded now, in the terms in which QuietStep asks for it.
LEMMA Recorded ==
    ASSUME TokenInv
    PROVE  /\ access \subseteq Meanings
           /\ \A x \in rows : Meaning(x) \in Meanings
           /\ \A w \in Worker : Carried(worker[w]) \subseteq Meanings
           /\ \A f \in refreshes :
                 f.id # NoValue /\ [refresh |-> f.id, party |-> f.party] \in Owners
BY DEF Meanings, Owners, TokenInv

LEMMA IdleIsQuiet == Carried(Idle) = {} /\ HasRefresh(Idle)
BY DEF Carried, HasRefresh, Idle, Holding

LEMMA FinishStep ==
    ASSUME TypeInv, TokenInv, NEW w \in Worker, Finish(w), access' \subseteq Meanings,
           \A x \in rows' : Meaning(x) \in Meanings, refreshes' \subseteq refreshes,
           nextToken' = nextToken
    PROVE  TokenInv'
BY QuietStep, IdleIsQuiet, Recorded DEF Finish

\* A new access token under a refresh token that is its party's, or new, or absent.
LEMMA FreshStep ==
    ASSUME TypeInv, TokenInv, NEW w \in Worker, NEW req, Become(w, req), NEW m \in AccessToken,
           Carried(req) \subseteq Meanings \cup {m}, HasRefresh(req),
           m.token = nextToken, nextToken' \in Nat, nextToken' > nextToken,
           \/ m.refresh = NoValue
           \/ OwnerOf(m) \in Owners
           \/ m.refresh > nextToken /\ m.refresh < nextToken',
           access' \subseteq access, refreshes' \subseteq refreshes, rows' = rows
    PROVE  TokenInv'
<1>1. Meanings' \subseteq Meanings \cup {m}
  <2> DEFINE S == Meanings \cup {m}
  <2>1. Meanings \subseteq S /\ Carried(req) \subseteq S /\ access' \subseteq S
        /\ \A x \in rows' : Meaning(x) \in S
    BY Recorded
  <2> HIDE DEF S
  <2>2. Meanings' \subseteq S
    BY <2>1, MeaningsOfStep
  <2> QED BY <2>2 DEF S
<1>2. Owners' \subseteq Owners \cup {OwnerOf(m)}
  BY <1>1 DEF Owners, OwnerOf
<1>3. Meanings \subseteq AccessToken /\ Owners \subseteq [refresh : Nat, party : Party]
      /\ nextToken \in Nat /\ m.refresh \in Nat
  BY MeaningsTyped, OwnersTyped DEF TypeInv, TypeOK, AccessToken
<1>4. \A n \in Meanings : n.token \in Nat /\ n.token < nextToken
  BY <1>3 DEF TokenInv, ValuesWereIssued, AccessToken
<1>5. \A a \in Owners : a.refresh \in Nat /\ a.refresh < nextToken
  BY <1>3 DEF TokenInv, ValuesWereIssued
<1>6. TokenMeansOne'
  BY <1>1, <1>3, <1>4 DEF TokenInv, TokenMeansOne
<1>7. RefreshHasOneOwner'
  <2> SUFFICES ASSUME NEW a \in Owners', NEW b \in Owners', a.refresh = b.refresh,
                      a.refresh # NoValue
               PROVE  a = b
    BY DEF RefreshHasOneOwner
  <2>1. OwnerOf(m).refresh = m.refresh
    BY DEF OwnerOf
  <2>2. CASE OwnerOf(m) \in Owners \/ (a \in Owners /\ b \in Owners)
    BY <1>2, <2>2 DEF TokenInv, RefreshHasOneOwner
  <2>3. CASE OwnerOf(m) \notin Owners /\ (a \notin Owners \/ b \notin Owners)
    BY <1>2, <1>3, <1>5, <2>1, <2>3
  <2> QED BY <2>2, <2>3
<1>8. ValuesWereIssued'
  <2>1. OwnerOf(m).refresh = m.refresh
    BY DEF OwnerOf
  <2>2. m.refresh < nextToken'
    <3>1. CASE m.refresh = NoValue
      BY <1>3, <3>1
    <3>2. CASE OwnerOf(m) \in Owners
      <4>1. m.refresh < nextToken
        BY <1>5, <2>1, <3>2
      <4> QED BY <1>3, <4>1
    <3> QED BY <3>1, <3>2
  <2>3. \A n \in Meanings' : n.token < nextToken'
    BY <1>1, <1>3, <1>4
  <2>4. \A a \in Owners' : a.refresh < nextToken'
    BY <1>2, <1>3, <1>5, <2>1, <2>2
  <2> QED BY <2>3, <2>4 DEF ValuesWereIssued
<1>9. \A u \in Worker : HasRefresh(worker[u])'
  <2>1. \A u \in Worker : HasRefresh(worker'[u])
    BY DEF Become, TypeInv, TypeOK, TokenInv
  <2> QED BY <2>1 DEF HasRefresh
<1> QED BY <1>6, <1>7, <1>8, <1>9 DEF TokenInv

LEMMA IssueStep ==
    ASSUME TypeInv, TokenInv, NEW w \in Worker, NEW r \in Nat, Issue(w, r),
           worker[w].party \in Party,
           r # NoValue => [refresh |-> r, party |-> worker[w].party] \in Owners,
           access' \subseteq access, refreshes' \subseteq refreshes, rows' = rows
    PROVE  TokenInv'
<1> DEFINE req     == worker[w]
           fresh   == r = NoValue /\ Kind[req.party] # "client_credentials"
           renewed == IF fresh THEN nextToken + 1 ELSE r
           new     == [req EXCEPT !.at = "enhance", !.token = nextToken, !.refresh = renewed]
           m       == [token |-> nextToken, party |-> req.party, refresh |-> renewed]
<1>1. req \in Request /\ nextToken \in Nat /\ nextToken > 0
  BY RequestAt DEF TypeInv, TypeOK
<1>2. renewed \in Nat
  BY <1>1
<1>3. Become(w, new) /\ nextToken' = nextToken + (IF fresh THEN 2 ELSE 1)
  BY DEF Issue
<1>4. nextToken' \in Nat /\ nextToken' > nextToken
  BY <1>1, <1>3
<1>5. /\ new.row = req.row /\ new.at = "enhance" /\ new.party = req.party
      /\ new.refresh = renewed /\ new.token = nextToken
  BY <1>1 DEF Request
<1>6. Carried(new) \subseteq Meanings \cup {m}
  <2> HIDE DEF new, renewed
  <2>1. Meaning(new) = m
    BY <1>5 DEF Meaning
  <2>2. req.row # NoRow => Meaning(req.row) \in Meanings
    BY Recorded DEF Carried
  <2> QED BY <1>5, <2>1, <2>2 DEF Carried
<1>7. HasRefresh(new)
  <2>1. ASSUME Kind[req.party] = "authorization_code" PROVE renewed # NoValue
    <3>1. CASE r = NoValue
      <4>1. renewed = nextToken + 1
        BY <2>1, <3>1
      <4> QED BY <1>1, <4>1
    <3>2. CASE r # NoValue
      BY <3>2
    <3> QED BY <3>1, <3>2
  <2> HIDE DEF new, renewed
  <2> QED BY <1>5, <2>1 DEF HasRefresh
<1>8. m \in AccessToken /\ m.token = nextToken /\ m.refresh = renewed
  <2> HIDE DEF renewed
  <2> QED BY <1>1, <1>2 DEF AccessToken
<1>9. \/ m.refresh = NoValue
      \/ OwnerOf(m) \in Owners
      \/ m.refresh > nextToken /\ m.refresh < nextToken'
  <2>1. CASE fresh
    BY <1>1, <1>3, <1>8, <2>1
  <2>2. CASE ~fresh
    BY <1>8, <2>2 DEF OwnerOf
  <2> QED BY <2>1, <2>2
<1> HIDE DEF new, m
<1> QED BY <1>3, <1>4, <1>6, <1>7, <1>8, <1>9, FreshStep

-----------------------------------------------------------------------------
(* The invariant is kept, one lemma for each kind of request. *)

LEMMA TokenInit == Init => TokenInv
<1> SUFFICES ASSUME Init PROVE TokenInv
  OBVIOUS
<1>1. \A w \in Worker : Carried(worker[w]) = {} /\ HasRefresh(worker[w])
  BY IdleIsQuiet DEF Init
<1>2. Meanings = {} /\ Owners = {} /\ refreshes = {}
  BY <1>1 DEF Init, Meanings, Owners
<1> QED BY <1>1, <1>2 DEF TokenInv, TokenMeansOne, RefreshHasOneOwner, ValuesWereIssued

LEMMA GrantTokens ==
    ASSUME TypeInv, TokenInv, NEW w \in Worker,
           \/ \E c \in codes : ExchangeCode(w, c)
           \/ \E p \in Party : PasswordGrant(w, p) \/ GetOauthToken(w, p) \/ ClientGrant(w, p)
           \/ \E f \in refreshes : RefreshGrant(w, f) \/ RefreshExpired(w, f)
    PROVE  TokenInv'
<1> USE DEF stores, clock
<1>1. ASSUME NEW req, req.at = "lookup", req.row = NoRow, Become(w, req),
             UNCHANGED <<stores, rows, nextToken>>
      PROVE  TokenInv'
  <2>1. Carried(req) = {} /\ HasRefresh(req)
    BY <1>1 DEF Carried, HasRefresh, Holding
  <2> QED BY <1>1, <2>1, Recorded, QuietStep
<1>2. ASSUME NEW p \in Party, PasswordGrant(w, p) \/ GetOauthToken(w, p) \/ ClientGrant(w, p)
      PROVE  TokenInv'
  <2> DEFINE new == [Idle EXCEPT !.at = "lookup", !.party = p]
  <2>1. new.at = "lookup" /\ new.row = NoRow
    BY DEF Idle
  <2> QED BY <1>1, <1>2, <2>1 DEF PasswordGrant, GetOauthToken, ClientGrant
<1>3. ASSUME NEW f \in refreshes, RefreshGrant(w, f)
      PROVE  TokenInv'
  <2> DEFINE new == [Idle EXCEPT !.at = "enhance", !.party = f.party, !.token = nextToken,
                        !.refresh = f.id, !.end = f.end, !.refreshing = TRUE]
             m   == [token |-> nextToken, party |-> f.party, refresh |-> f.id]
  <2>1. f \in RefreshToken /\ nextToken \in Nat
    BY DEF TypeInv, TypeOK
  <2>2. new.at = "enhance" /\ new.row = NoRow /\ new.refresh = f.id /\ Meaning(new) = m
    BY DEF Idle, Meaning
  <2>3. Carried(new) \subseteq Meanings \cup {m} /\ HasRefresh(new)
    <3>1. f.id # NoValue
      BY Recorded
    <3> HIDE DEF new, m
    <3> QED BY <2>2, <3>1 DEF Carried, HasRefresh
  <2>4. m \in AccessToken /\ m.token = nextToken /\ OwnerOf(m) \in Owners
    BY <2>1, Recorded DEF AccessToken, RefreshToken, OwnerOf
  <2>5. nextToken' \in Nat /\ nextToken' > nextToken
    <3>1. nextToken' = nextToken + 1
      BY <1>3 DEF RefreshGrant
    <3> QED BY <2>1, <3>1
  <2>6. Become(w, new) /\ access' \subseteq access /\ refreshes' \subseteq refreshes /\ rows' = rows
    BY <1>3 DEF RefreshGrant
  <2> HIDE DEF new, m
  <2> QED BY <2>3, <2>4, <2>5, <2>6, FreshStep
<1>4. ASSUME NEW f \in refreshes, RefreshExpired(w, f)
      PROVE  TokenInv'
  <2>1. worker' = worker /\ rows' = rows /\ nextToken' = nextToken
        /\ access' \subseteq access /\ refreshes' \subseteq refreshes
    BY <1>4 DEF RefreshExpired
  <2>2. Meanings' \subseteq Meanings
    BY <2>1 DEF Meanings, Carried
  <2>3. \A u \in Worker : HasRefresh(worker'[u])
    BY <2>1 DEF TokenInv
  <2> QED BY <2>1, <2>2, <2>3, Recorded, NothingNew
<1>5. ASSUME NEW c \in codes, ExchangeCode(w, c)
      PROVE  TokenInv'
  <2> DEFINE new == [Idle EXCEPT !.at = "lookup", !.party = c.party, !.end = c.end]
  <2>1. new.at = "lookup" /\ new.row = NoRow
    BY DEF Idle
  <2> QED BY <1>1, <1>5, <2>1 DEF ExchangeCode
<1> QED BY <1>2, <1>3, <1>4, <1>5

LEMMA LookupTokens ==
    ASSUME TypeInv, TokenInv, NEW w \in Worker,
           \/ LookupNone(w) \/ LookupLive(w) \/ LookupExpired(w) \/ LookupAmbiguous(w)
           \/ Restore(w)
    PROVE  TokenInv'
<1> USE DEF stores, clock
<1> DEFINE req == worker[w]
<1>1. req \in Request /\ (req.at = "lookup" => req.party \in Party)
  BY RequestAt DEF TypeInv, WellFormed, Working
<1>2. CASE LookupNone(w)
  BY <1>1, <1>2, IssueStep DEF LookupNone, At
<1>3. CASE LookupLive(w)
  <2>1. PICK t \in access :
          t.party = req.party /\ Become(w, [req EXCEPT !.at = "restore", !.token = t.token,
                                                       !.refresh = t.refresh])
    BY <1>3 DEF LookupLive, Held
  <2> DEFINE new == [req EXCEPT !.at = "restore", !.token = t.token, !.refresh = t.refresh]
  <2>2. t \in AccessToken
    BY DEF TypeInv, TypeOK
  <2>3. new.at = "restore" /\ new.row = req.row /\ Meaning(new) = t
    BY <1>1, <2>1, <2>2 DEF Request, AccessToken, Meaning
  <2>4. Carried(new) \subseteq Meanings /\ HasRefresh(new)
    <3>1. t \in Meanings /\ (req.row # NoRow => Meaning(req.row) \in Meanings)
      BY Recorded DEF Carried
    <3> HIDE DEF new
    <3> QED BY <2>3, <3>1 DEF Carried, HasRefresh
  <2>5. Become(w, new) /\ access' = access /\ refreshes' = refreshes /\ rows' = rows
        /\ nextToken' = nextToken
    BY <1>3, <2>1 DEF LookupLive
  <2> HIDE DEF new
  <2> QED BY <2>4, <2>5, Recorded, QuietStep
<1>4. CASE LookupExpired(w)
  <2>1. PICK t \in access :
           /\ t.party = req.party
           /\ access' = access \ {t}
           /\ refreshes' = WithoutRefresh(t.refresh)
           /\ Issue(w, IF t.refresh \in expired THEN NoValue ELSE t.refresh)
    BY <1>4 DEF LookupExpired, Held
  <2> DEFINE r == IF t.refresh \in expired THEN NoValue ELSE t.refresh
  <2>2. t \in AccessToken /\ t \in Meanings
    BY Recorded DEF TypeInv, TypeOK
  <2>3. r \in Nat /\ (r = NoValue \/ r = t.refresh)
    BY <2>2 DEF AccessToken
  <2>4. [refresh |-> t.refresh, party |-> req.party] \in Owners
    BY <2>1, <2>2 DEF Owners, OwnerOf
  <2>5. Issue(w, r) /\ access' \subseteq access /\ refreshes' \subseteq refreshes /\ rows' = rows
    BY <1>4, <2>1 DEF LookupExpired, WithoutRefresh
  <2>6. req.party \in Party
    BY <1>1, <1>4 DEF LookupExpired, At
  <2> HIDE DEF r
  <2> QED BY <2>3, <2>4, <2>5, <2>6, IssueStep
<1>5. CASE LookupAmbiguous(w)
  BY <1>5, FinishStep, Recorded DEF LookupAmbiguous
<1>6. CASE Restore(w)
  <2>1. Meaning(req) \in Meanings
    BY <1>6, Recorded DEF Restore, At, Carried, Holding
  <2>2. access' \subseteq Meanings
    BY <1>6, <2>1, Recorded DEF Restore
  <2> QED BY <1>6, <2>2, FinishStep, Recorded DEF Restore
<1> QED BY <1>2, <1>3, <1>4, <1>5, <1>6

LEMMA EnhanceTokens ==
    ASSUME TypeInv, TokenInv, NEW w \in Worker,
           \/ EnhanceFound(w) \/ EnhanceNotFound(w) \/ EnhanceAmbiguous(w)
           \/ EnhanceUpdate(w) \/ EnhanceUpdateVanished(w) \/ EnhanceCreate(w)
           \/ StoreAccess(w) \/ StoreAccessRejected(w) \/ StoreRefresh(w)
    PROVE  TokenInv'
<1> USE DEF stores, clock
<1> DEFINE req == worker[w]
<1>1. req \in Request /\ Carried(req) \subseteq Meanings /\ HasRefresh(req)
  BY RequestAt, Recorded DEF TypeInv, TokenInv
<1>2. /\ req.at \in Working => req.party \in Party
      /\ req.at \in WithEntity => req.row \in Authorization /\ req.row # NoRow
  BY PartyAssumption DEF TypeInv, WellFormed, Authorization, NoRow
<1>3. /\ req.at \in Holding => Meaning(req) \in Meanings
      /\ req.row # NoRow => Meaning(req.row) \in Meanings
  BY <1>1 DEF Carried
<1>4. ASSUME NEW place, place \in Holding, req.at \in Holding, Goto(w, place),
             place # "enhance", place = "storeRefresh" => req.refresh # NoValue,
             access' \subseteq Meanings, \A x \in rows' : Meaning(x) \in Meanings,
             refreshes' = refreshes, nextToken' = nextToken
      PROVE  TokenInv'
  <2> DEFINE new == [req EXCEPT !.at = place]
  <2>1. new.at = place /\ new.row = req.row /\ new.refresh = req.refresh /\ Meaning(new) = Meaning(req)
    BY <1>1 DEF Request, Meaning
  <2>2. Carried(new) \subseteq Meanings /\ HasRefresh(new)
    <3> HIDE DEF new
    <3> QED BY <1>3, <1>4, <2>1 DEF Carried, HasRefresh
  <2>3. Become(w, new)
    BY <1>4 DEF Goto
  <2> HIDE DEF new
  <2> QED BY <1>4, <2>2, <2>3, Recorded, QuietStep
<1>5. CASE EnhanceFound(w)
  <2>1. PICK x \in rows :
          /\ x.refresh = req.refresh
          /\ Become(w, [req EXCEPT !.at = "update", !.row = [x EXCEPT !.token = req.token]])
    BY <1>5 DEF EnhanceFound, ByRefresh
  <2> DEFINE y   == [x EXCEPT !.token = req.token]
             new == [req EXCEPT !.at = "update", !.row = y]
  <2>2. x \in Authorization /\ Meaning(x) \in Meanings
    BY Recorded DEF TypeInv, TypeOK
  <2>3. Meaning(req) \in Meanings /\ req.refresh # NoValue
    BY <1>1, <1>3, <1>5 DEF EnhanceFound, At, Holding, HasRefresh
  <2>4. x.party = req.party
    \* One refresh token, one owner.
    <3>1. OwnerOf(Meaning(x)) \in Owners /\ OwnerOf(Meaning(req)) \in Owners
      BY <2>2, <2>3 DEF Owners
    <3>2. OwnerOf(Meaning(x)) = [refresh |-> x.refresh, party |-> x.party]
          /\ OwnerOf(Meaning(req)) = [refresh |-> req.refresh, party |-> req.party]
      BY DEF OwnerOf, Meaning
    <3> QED BY <2>1, <2>3, <3>1, <3>2 DEF TokenInv, RefreshHasOneOwner
  <2>5. y.token = req.token /\ y.party = x.party /\ y.refresh = x.refresh
    BY <2>2 DEF Authorization
  <2>6. Meaning(y) = Meaning(req)
    <3> HIDE DEF y
    <3> QED BY <2>1, <2>4, <2>5 DEF Meaning
  <2>7. new.at = "update" /\ new.row = y /\ Meaning(new) = Meaning(req)
    <3> HIDE DEF y
    <3> QED BY <1>1 DEF Request, Meaning
  <2>8. Carried(new) \subseteq Meanings /\ HasRefresh(new)
    <3> HIDE DEF y, new
    <3> QED BY <2>3, <2>6, <2>7 DEF Carried, HasRefresh
  <2>9. Become(w, new) /\ access' = access /\ refreshes' = refreshes /\ rows' = rows
        /\ nextToken' = nextToken
    BY <1>5, <2>1 DEF EnhanceFound
  <2> HIDE DEF new, y
  <2> QED BY <2>8, <2>9, Recorded, QuietStep
<1>6. CASE EnhanceNotFound(w)
  <2>1. req.at \in Holding /\ "create" \in Holding /\ Goto(w, "create") /\ access' = access
        /\ rows' = rows /\ refreshes' = refreshes /\ nextToken' = nextToken
    BY <1>6 DEF EnhanceNotFound, At, Holding
  <2> QED BY <1>4, <2>1, Recorded
<1>7. CASE EnhanceAmbiguous(w) \/ EnhanceUpdateVanished(w) \/ StoreAccessRejected(w)
  BY <1>7, FinishStep, Recorded DEF EnhanceAmbiguous, EnhanceUpdateVanished, StoreAccessRejected
<1>8. CASE EnhanceUpdate(w)
  <2>1. req.at \in Holding /\ "storeAccess" \in Holding /\ Goto(w, "storeAccess")
        /\ access' = access /\ refreshes' = refreshes /\ nextToken' = nextToken
    BY <1>8 DEF EnhanceUpdate, At, Holding
  <2>2. \A x \in rows' : Meaning(x) \in Meanings
    BY <1>2, <1>3, <1>8, Recorded DEF EnhanceUpdate, At, WithEntity, Overwrite
  <2> QED BY <1>4, <2>1, <2>2, Recorded
<1>9. CASE EnhanceCreate(w)
  <2>1. req.at \in Holding /\ "storeAccess" \in Holding /\ Goto(w, "storeAccess")
        /\ access' = access /\ refreshes' = refreshes /\ nextToken' = nextToken
    BY <1>9 DEF EnhanceCreate, At, Holding
  <2> DEFINE x == [id |-> nextRow, party |-> req.party, token |-> req.token,
                   refresh |-> req.refresh, status |-> "1",
                   start |-> IF Kind[req.party] = "client_credentials" THEN 0 ELSE today,
                   end |-> PeriodEnd(req.party, req.end)]
  <2>2. rows' = rows \cup {x} /\ Meaning(x) = Meaning(req)
    BY <1>9 DEF EnhanceCreate, Meaning
  <2>3. \A y \in rows' : Meaning(y) \in Meanings
    <3> HIDE DEF x
    <3> QED BY <1>3, <2>1, <2>2, Recorded
  <2> QED BY <1>4, <2>1, <2>3, Recorded
<1>10. CASE StoreAccess(w)
  <2>1. req.at \in Holding /\ "storeRefresh" \in Holding
    BY <1>10 DEF StoreAccess, At, Holding
  <2>2. access' \subseteq Meanings /\ rows' = rows /\ refreshes' = refreshes /\ nextToken' = nextToken
    BY <1>3, <1>10, <2>1, Recorded DEF StoreAccess
  <2>3. CASE Finish(w)
    BY <2>2, <2>3, Recorded, FinishStep
  <2>4. CASE Goto(w, "storeRefresh") /\ req.refresh # NoValue
    BY <1>4, <2>1, <2>2, <2>4, Recorded
  <2> QED BY <1>10, <2>3, <2>4 DEF StoreAccess
<1>11. CASE StoreRefresh(w)
  <2>1. Meaning(req) \in Meanings /\ req.refresh # NoValue
    BY <1>1, <1>3, <1>11 DEF StoreRefresh, At, Holding, HasRefresh
  <2>2. [refresh |-> req.refresh, party |-> req.party] \in Owners
    BY <2>1 DEF Owners, OwnerOf, Meaning
  <2>3. \A f \in refreshes' : f.id # NoValue /\ [refresh |-> f.id, party |-> f.party] \in Owners
    <3> DEFINE g == [id |-> req.refresh, party |-> req.party, end |-> req.end]
    <3>1. g.id = req.refresh /\ g.party = req.party
      OBVIOUS
    <3>2. refreshes' \subseteq refreshes \cup {g}
      BY <1>11 DEF StoreRefresh, WithoutRefresh
    <3> HIDE DEF g
    <3> QED BY <2>1, <2>2, <3>1, <3>2, Recorded
  <2>4. Become(w, Idle) /\ access' = access /\ rows' = rows /\ nextToken' = nextToken
    BY <1>11 DEF StoreRefresh, Finish
  <2> QED BY <2>3, <2>4, IdleIsQuiet, Recorded, QuietStep
<1> QED BY <1>5, <1>6, <1>7, <1>8, <1>9, <1>10, <1>11

LEMMA ResourceTokens ==
    ASSUME TypeInv, TokenInv, NEW w \in Worker,
           \/ \E t \in access : LoadAuthentication(w, t) \/ LoadAuthenticationExpired(w, t)
                                \/ AdminRevoke(w, t)
           \/ DoFilterPass(w) \/ DoFilterDeny(w) \/ Served(w)
    PROVE  TokenInv'
<1> USE DEF stores, clock
<1> DEFINE req == worker[w]
<1>1. req \in Request /\ Carried(req) \subseteq Meanings
  BY RequestAt, Recorded DEF TypeInv
<1>2. ASSUME NEW t \in access, LoadAuthentication(w, t)
      PROVE  TokenInv'
  <2> DEFINE new == [Idle EXCEPT !.at = "filter", !.party = t.party, !.token = t.token,
                                 !.refresh = t.refresh]
  <2>1. t \in AccessToken
    BY DEF TypeInv, TypeOK
  <2>2. new.at = "filter" /\ new.row = NoRow /\ Meaning(new) = t
    BY <2>1 DEF Idle, Meaning, AccessToken
  <2>3. Carried(new) \subseteq Meanings /\ HasRefresh(new)
    <3> HIDE DEF new
    <3> QED BY <2>2, Recorded DEF Carried, HasRefresh
  <2>4. Become(w, new) /\ access' = access /\ refreshes' = refreshes /\ rows' = rows
        /\ nextToken' = nextToken
    BY <1>2 DEF LoadAuthentication
  <2> HIDE DEF new
  <2> QED BY <2>3, <2>4, Recorded, QuietStep
<1>3. ASSUME NEW t \in access, LoadAuthenticationExpired(w, t) \/ AdminRevoke(w, t)
      PROVE  TokenInv'
  <2>1. worker' = worker /\ rows' = rows /\ nextToken' = nextToken
        /\ access' \subseteq access /\ refreshes' \subseteq refreshes
    BY <1>3 DEF LoadAuthenticationExpired, AdminRevoke, RevokeStored
  <2>2. Meanings' \subseteq Meanings
    BY <2>1 DEF Meanings, Carried
  <2>3. \A u \in Worker : HasRefresh(worker'[u])
    BY <2>1 DEF TokenInv
  <2> QED BY <2>1, <2>2, <2>3, Recorded, NothingNew
<1>4. CASE DoFilterPass(w)
  <2>1. PICK x \in rows : Become(w, [req EXCEPT !.at = "serving", !.row = x])
    BY <1>4 DEF DoFilterPass, ByToken
  <2> DEFINE new == [req EXCEPT !.at = "serving", !.row = x]
  <2>2. new.at = "serving" /\ new.row = x /\ Meaning(new) = Meaning(req)
    BY <1>1 DEF Request, Meaning
  <2>3. Meaning(req) \in Meanings
    BY <1>1, <1>4 DEF DoFilterPass, At, Carried, Holding
  <2>4. Carried(new) \subseteq Meanings /\ HasRefresh(new)
    <3> HIDE DEF new
    <3> QED BY <2>2, <2>3, Recorded DEF Carried, HasRefresh
  <2>5. Become(w, new) /\ access' = access /\ refreshes' = refreshes /\ rows' = rows
        /\ nextToken' = nextToken
    BY <1>4, <2>1 DEF DoFilterPass
  <2> HIDE DEF new
  <2> QED BY <2>4, <2>5, Recorded, QuietStep
<1>5. CASE DoFilterDeny(w) \/ Served(w)
  BY <1>5, FinishStep, Recorded DEF DoFilterDeny, Served
<1> QED BY <1>2, <1>3, <1>4, <1>5

LEMMA ChangeTokens ==
    ASSUME TypeInv, TokenInv, NEW w \in Worker,
           \/ \E x \in rows : RevokeRead(w, x) \/ DeleteRead(w, x)
           \/ \E x \in rows, d \in 1..MaxDay : EndDateRead(w, x, d)
           \/ ReadToken(w) \/ RevokeToken(w) \/ Merge(w) \/ MergeVanished(w)
           \/ DeleteRow(w) \/ RevokeDeleted(w)
    PROVE  TokenInv'
<1> USE DEF stores, clock
<1> DEFINE req == worker[w]
<1>1. req \in Request /\ Carried(req) \subseteq Meanings
  BY RequestAt, Recorded DEF TypeInv
<1>2. req.at \in WithEntity => req.row \in Authorization /\ Meaning(req.row) \in Meanings
  <2> HAVE req.at \in WithEntity
  <2>1. req.row \in Authorization
    BY DEF TypeInv, WellFormed
  <2>2. req.row # NoRow
    BY <2>1, PartyAssumption DEF Authorization, NoRow
  <2> QED BY <1>1, <2>1, <2>2 DEF Carried
\* The handlers' next requests hold an entity whose meaning is recorded, and no token.
<1>3. ASSUME NEW new, Become(w, new), new.at \notin Holding, Meaning(new.row) \in Meanings,
             access' \subseteq access, refreshes' \subseteq refreshes, rows' \subseteq rows,
             nextToken' = nextToken
      PROVE  TokenInv'
  <2>1. Carried(new) \subseteq Meanings /\ HasRefresh(new)
    BY <1>3 DEF Carried, HasRefresh, Holding
  <2> QED BY <1>3, <2>1, Recorded, QuietStep
<1>4. ASSUME NEW x, Meaning(x) \in Meanings, NEW place,
             Become(w, [Idle EXCEPT !.at = place, !.row = x]), place \notin Holding,
             UNCHANGED <<stores, rows, nextToken>>
      PROVE  TokenInv'
  <2> DEFINE new == [Idle EXCEPT !.at = place, !.row = x]
  <2>1. new.at = place /\ new.row = x
    BY DEF Idle
  <2> HIDE DEF new
  <2> QED BY <1>3, <1>4, <2>1 DEF new
<1>5. ASSUME NEW place, Goto(w, place), place \notin Holding, req.at \in WithEntity,
             access' \subseteq access, refreshes' \subseteq refreshes, rows' \subseteq rows,
             nextToken' = nextToken
      PROVE  TokenInv'
  <2> DEFINE new == [req EXCEPT !.at = place]
  <2>1. new.at = place /\ new.row = req.row
    BY <1>1 DEF Request
  <2>2. Become(w, new)
    BY <1>5 DEF Goto
  <2> HIDE DEF new
  <2> QED BY <1>2, <1>3, <1>5, <2>1, <2>2
<1>6. ASSUME Become(w, [req EXCEPT !.at = "merge", !.row.status = "0"]), req.at \in WithEntity,
             access' \subseteq access, refreshes' \subseteq refreshes, rows' \subseteq rows,
             nextToken' = nextToken
      PROVE  TokenInv'
  <2> DEFINE new == [req EXCEPT !.at = "merge", !.row.status = "0"]
             y   == [req.row EXCEPT !.status = "0"]
  <2>1. new.at = "merge" /\ new.row = y
    BY <1>1 DEF Request
  <2>2. Meaning(y) = Meaning(req.row)
    BY <1>2, <1>6 DEF Meaning, Authorization
  <2>3. new.at \notin Holding
    BY <2>1 DEF Holding
  <2> HIDE DEF new, y
  <2> QED BY <1>2, <1>3, <1>6, <2>1, <2>2, <2>3 DEF new
<1>7. ASSUME NEW x \in rows, RevokeRead(w, x) \/ DeleteRead(w, x)
      PROVE  TokenInv'
  <2>1. Meaning(x) \in Meanings /\ "readToken" \notin Holding /\ "delete" \notin Holding
    BY Recorded DEF Holding
  <2> QED BY <1>4, <1>7, <2>1 DEF RevokeRead, DeleteRead
<1>8. ASSUME NEW x \in rows, NEW d \in 1..MaxDay, EndDateRead(w, x, d)
      PROVE  TokenInv'
  <2>1. Meaning([x EXCEPT !.end = d]) = Meaning(x)
    BY DEF Meaning, TypeInv, TypeOK, Authorization
  <2>2. Meaning(x) \in Meanings /\ "merge" \notin Holding
    BY Recorded DEF Holding
  <2> QED BY <1>4, <1>8, <2>1, <2>2 DEF EndDateRead
<1>9. CASE ReadToken(w)
  <2>1. "revokeToken" \notin Holding /\ req.at \in WithEntity
    BY <1>9 DEF ReadToken, At, Holding, WithEntity
  <2> QED BY <1>5, <1>6, <1>9, <2>1 DEF ReadToken
<1>10. CASE RevokeToken(w)
  <2>1. access' \subseteq access /\ refreshes' \subseteq refreshes /\ rows' = rows
        /\ nextToken' = nextToken /\ req.at \in WithEntity
    BY <1>10 DEF RevokeToken, RevokeStored, At, WithEntity
  <2>2. CASE Finish(w)
    BY <2>1, <2>2, FinishStep, Recorded
  <2>3. CASE Become(w, [req EXCEPT !.at = "merge", !.row.status = "0"])
    BY <1>6, <2>1, <2>3
  <2> QED BY <1>10, <2>2, <2>3 DEF RevokeToken
<1>11. CASE Merge(w) \/ MergeVanished(w)
  <2>1. req.row \in Authorization /\ Meaning(req.row) \in Meanings
    BY <1>2, <1>11 DEF Merge, MergeVanished, At, WithEntity
  <2>2. Meaning([req.row EXCEPT !.id = nextRow]) = Meaning(req.row)
    BY <2>1 DEF Meaning, Authorization
  <2>3. \A x \in rows' : Meaning(x) \in Meanings
    BY <1>11, <2>1, <2>2, Recorded DEF Merge, MergeVanished, Overwrite
  <2> QED BY <1>11, <2>3, FinishStep, Recorded DEF Merge, MergeVanished
<1>12. CASE DeleteRow(w)
  <2>1. "revokeDeleted" \notin Holding /\ req.at \in WithEntity /\ rows' \subseteq rows
        /\ access' = access /\ refreshes' = refreshes /\ nextToken' = nextToken
    BY <1>12 DEF DeleteRow, At, Holding, WithEntity
  <2>2. CASE Finish(w)
    BY <2>1, <2>2, FinishStep, Recorded
  <2>3. CASE Goto(w, "revokeDeleted")
    BY <1>5, <2>1, <2>3
  <2> QED BY <1>12, <2>2, <2>3 DEF DeleteRow
<1>13. CASE RevokeDeleted(w)
  <2>1. access' \subseteq access /\ refreshes' \subseteq refreshes
    BY <1>13 DEF RevokeDeleted, RevokeStored
  <2> QED BY <1>13, <2>1, FinishStep, Recorded DEF RevokeDeleted
<1> QED BY <1>7, <1>8, <1>9, <1>10, <1>11, <1>12, <1>13

LEMMA EnvironmentTokens ==
    ASSUME TypeInv, TokenInv, Environment \/ Restart
    PROVE  TokenInv'
<1>1. CASE Environment
  <2>1. UNCHANGED <<access, refreshes, rows, worker, nextToken>>
    BY <1>1 DEF Environment, Consent, Expire, NextDay, stores
  <2>2. Meanings' \subseteq Meanings
    BY <2>1 DEF Meanings, Carried
  <2>3. \A u \in Worker : HasRefresh(worker'[u])
    BY <2>1 DEF TokenInv
  <2> QED BY <2>1, <2>2, <2>3, Recorded, NothingNew
<1>2. CASE Restart
  <2>1. UNCHANGED <<access, refreshes, rows, nextToken>>
        /\ \A u \in Worker : worker'[u] = Idle
    BY <1>2 DEF Restart, stores
  <2>2. \A u \in Worker : Carried(worker'[u]) = {} /\ HasRefresh(worker'[u])
    BY <2>1, IdleIsQuiet
  <2>3. Meanings' = access' \cup {Meaning(x) : x \in rows'}
                     \cup UNION {Carried(worker'[u]) : u \in Worker}
    BY DEF Meanings, Carried, Meaning
  <2>4. Meanings' \subseteq Meanings
    BY <2>1, <2>2, <2>3, Recorded
  <2> QED BY <2>1, <2>2, <2>4, Recorded, NothingNew
<1> QED BY <1>1, <1>2

LEMMA TokenStep == TypeInv /\ TokenInv /\ [Next]_vars => TokenInv'
<1> SUFFICES ASSUME TypeInv, TokenInv, [Next]_vars
             PROVE  TokenInv'
  OBVIOUS
<1>1. ASSUME NEW w \in Worker, Step(w) \/ Begin(w)
      PROVE  TokenInv'
  BY <1>1, GrantTokens, LookupTokens, EnhanceTokens, ResourceTokens, ChangeTokens
     DEF Step, Begin
<1>2. ASSUME NEW w \in Worker, Fail(w)
      PROVE  TokenInv'
  BY <1>2, FinishStep, Recorded DEF Fail, stores
<1>3. CASE Environment \/ Restart
  BY <1>3, EnvironmentTokens
<1>4. CASE UNCHANGED vars
  <2>1. UNCHANGED <<access, refreshes, rows, worker, nextToken>>
    BY <1>4 DEF vars
  <2>2. Meanings' \subseteq Meanings
    BY <2>1 DEF Meanings, Carried
  <2>3. \A u \in Worker : HasRefresh(worker'[u])
    BY <2>1 DEF TokenInv
  <2> QED BY <2>1, <2>2, <2>3, Recorded, NothingNew
<1> QED BY <1>1, <1>2, <1>3, <1>4 DEF Next, Fault

\* However the requests of any number of threads interleave, fail or are cut off by a
\* restart, an access token value means one customer-client pair and one refresh token in
\* both databases and in memory.
THEOREM TokensMeanOne == Spec => []TokenMeansOne
<1>1. Init => TypeInv /\ TokenInv
  BY TypeInit, TokenInit
<1>2. TypeInv /\ TokenInv /\ [Next]_vars => (TypeInv /\ TokenInv)'
  BY TypeStep, TokenStep
<1>3. TokenInv => TokenMeansOne
  BY DEF TokenInv
<1> QED BY <1>1, <1>2, <1>3, PTL DEF Spec

-----------------------------------------------------------------------------
(* A request is answered under its own authorization. *)

\* The filter chose the authorization by the request's token.
ServedByToken == \A w \in Worker : At(w, "serving") => worker[w].row.token = worker[w].token

LEMMA BecomeServes ==
    ASSUME TypeInv, ServedByToken, NEW w \in Worker, NEW req, Become(w, req),
           req.at = "serving" => req.row.token = req.token
    PROVE  ServedByToken'
BY DEF TypeInv, TypeOK, ServedByToken, Become, At

LEMMA GotoServes ==
    ASSUME TypeInv, ServedByToken, NEW w \in Worker, NEW place, place # "serving", Goto(w, place)
    PROVE  ServedByToken'
<1> DEFINE new == [worker[w] EXCEPT !.at = place]
<1>1. worker[w] \in Request
  BY RequestAt DEF TypeInv
<1>2. new.at = place
  BY <1>1 DEF Request
<1>3. Become(w, new)
  BY DEF Goto
<1> HIDE DEF new
<1> QED BY <1>2, <1>3, BecomeServes

LEMMA FinishServes ==
    ASSUME TypeInv, ServedByToken, NEW w \in Worker, Finish(w)
    PROVE  ServedByToken'
<1>1. Idle.at # "serving"
  BY DEF Idle
<1> QED BY <1>1, BecomeServes DEF Finish

\* Every other next request of a thread is at a place other than "serving".
LEMMA ElsewhereServes ==
    ASSUME TypeInv, ServedByToken, NEW w \in Worker, NEW place, place # "serving",
           NEW req, req.at = place, Become(w, req)
    PROVE  ServedByToken'
BY BecomeServes

LEMMA ServeStep == TypeInv /\ ServedByToken /\ [Next]_vars => ServedByToken'
<1> SUFFICES ASSUME TypeInv, ServedByToken, [Next]_vars
             PROVE  ServedByToken'
  OBVIOUS
<1> DEFINE Stays == ServedByToken'
<1>1. worker' = worker => Stays
  BY DEF ServedByToken, At
<1>2. ASSUME NEW w \in Worker, Begin(w)
      PROVE  Stays
  <2>1. ASSUME NEW c \in codes, ExchangeCode(w, c) PROVE Stays
    <3> DEFINE new == [Idle EXCEPT !.at = "lookup", !.party = c.party, !.end = c.end]
    <3>1. new.at = "lookup"
      BY DEF Idle
    <3>2. Become(w, new)
      BY <2>1 DEF ExchangeCode
    <3> HIDE DEF new
    <3> QED BY <3>1, <3>2, ElsewhereServes
  <2>2. ASSUME NEW p \in Party, PasswordGrant(w, p) \/ GetOauthToken(w, p) \/ ClientGrant(w, p) PROVE Stays
    <3> DEFINE new == [Idle EXCEPT !.at = "lookup", !.party = p]
    <3>1. new.at = "lookup"
      BY DEF Idle
    <3>2. Become(w, new)
      BY <2>2 DEF PasswordGrant, GetOauthToken, ClientGrant
    <3> HIDE DEF new
    <3> QED BY <3>1, <3>2, ElsewhereServes
  <2>3. ASSUME NEW f \in refreshes, RefreshGrant(w, f) \/ RefreshExpired(w, f) PROVE Stays
    <3> DEFINE new == [Idle EXCEPT !.at = "enhance", !.party = f.party, !.token = nextToken,
                          !.refresh = f.id, !.end = f.end, !.refreshing = TRUE]
    <3>1. new.at = "enhance"
      BY DEF Idle
    <3>2. Become(w, new) \/ worker' = worker
      BY <2>3 DEF RefreshGrant, RefreshExpired
    <3> HIDE DEF new
    <3> QED BY <1>1, <3>1, <3>2, ElsewhereServes
  <2>4. ASSUME NEW t \in access, LoadAuthentication(w, t) \/ LoadAuthenticationExpired(w, t)
                                  \/ AdminRevoke(w, t)
        PROVE Stays
    <3> DEFINE new == [Idle EXCEPT !.at = "filter", !.party = t.party, !.token = t.token,
                                   !.refresh = t.refresh]
    <3>1. new.at = "filter"
      BY DEF Idle
    <3>2. Become(w, new) \/ worker' = worker
      BY <2>4 DEF LoadAuthentication, LoadAuthenticationExpired, AdminRevoke
    <3> HIDE DEF new
    <3> QED BY <1>1, <3>1, <3>2, ElsewhereServes
  <2>5. ASSUME NEW x \in rows, RevokeRead(w, x) \/ DeleteRead(w, x) PROVE Stays
    <3> DEFINE new(place) == [Idle EXCEPT !.at = place, !.row = x]
    <3>1. new("readToken").at = "readToken" /\ new("delete").at = "delete"
      BY DEF Idle
    <3>2. Become(w, new("readToken")) \/ Become(w, new("delete"))
      BY <2>5 DEF RevokeRead, DeleteRead
    <3> HIDE DEF new
    <3> QED BY <3>1, <3>2, ElsewhereServes
  <2>6. ASSUME NEW x \in rows, NEW d \in 1..MaxDay, EndDateRead(w, x, d) PROVE Stays
    <3> DEFINE new == [Idle EXCEPT !.at = "merge", !.row = [x EXCEPT !.end = d]]
    <3>1. new.at = "merge"
      BY DEF Idle
    <3>2. Become(w, new)
      BY <2>6 DEF EndDateRead
    <3> HIDE DEF new
    <3> QED BY <3>1, <3>2, ElsewhereServes
  <2> QED BY <1>2, <2>1, <2>2, <2>3, <2>4, <2>5, <2>6 DEF Begin
<1>3. ASSUME NEW w \in Worker, Step(w)
      PROVE  Stays
  <2> DEFINE req == worker[w]
  <2>1. req \in Request
    BY RequestAt DEF TypeInv
  <2>2. CASE LookupNone(w) \/ LookupLive(w) \/ LookupExpired(w)
    <3> DEFINE new(place, t, r) == [req EXCEPT !.at = place, !.token = t, !.refresh = r]
    <3>1. \A place, t, r : new(place, t, r).at = place
      BY <2>1 DEF Request
    <3>2. ASSUME NEW r, Issue(w, r) PROVE \E t, q : Become(w, new("enhance", t, q))
      BY <3>2 DEF Issue
    <3>3. LookupLive(w) => \E t : Become(w, new("restore", t.token, t.refresh))
      BY DEF LookupLive
    <3>4. LookupNone(w) \/ LookupExpired(w) => \E r : Issue(w, r)
      BY DEF LookupNone, LookupExpired
    <3> HIDE DEF new
    <3> QED BY <2>2, <3>1, <3>2, <3>3, <3>4, ElsewhereServes
  <2>3. CASE EnhanceFound(w) \/ DoFilterPass(w)
    <3>1. CASE EnhanceFound(w)
      <4>1. PICK y : Become(w, [req EXCEPT !.at = "update", !.row = y])
        BY <3>1 DEF EnhanceFound
      <4>2. [req EXCEPT !.at = "update", !.row = y].at = "update"
        BY <2>1 DEF Request
      <4> QED BY <4>1, <4>2, ElsewhereServes
    <3>2. CASE DoFilterPass(w)
      <4>1. PICK x : x.token = req.token /\ Become(w, [req EXCEPT !.at = "serving", !.row = x])
        BY <3>2 DEF DoFilterPass, ByToken
      <4> DEFINE new == [req EXCEPT !.at = "serving", !.row = x]
      <4>2. new.row = x /\ new.token = req.token
        BY <2>1 DEF Request
      <4> HIDE DEF new
      <4> QED BY <4>1, <4>2, BecomeServes DEF new
    <3> QED BY <2>3, <3>1, <3>2
  <2>4. CASE EnhanceNotFound(w) \/ EnhanceUpdate(w) \/ EnhanceCreate(w) \/ StoreAccess(w)
             \/ DeleteRow(w)
    BY <2>4, GotoServes, FinishServes
       DEF EnhanceNotFound, EnhanceUpdate, EnhanceCreate, StoreAccess, DeleteRow
  <2>5. CASE ReadToken(w) \/ RevokeToken(w)
    <3> DEFINE new == [req EXCEPT !.at = "merge", !.row.status = "0"]
    <3>1. new.at = "merge"
      BY <2>1 DEF Request
    <3>2. Goto(w, "revokeToken") \/ Finish(w) \/ Become(w, new)
      BY <2>5 DEF ReadToken, RevokeToken
    <3> HIDE DEF new
    <3> QED BY <3>1, <3>2, GotoServes, FinishServes, ElsewhereServes
  <2>6. CASE Finish(w)
    BY <2>6, FinishServes
  <2> QED BY <1>3, <2>2, <2>3, <2>4, <2>5, <2>6
          DEF Step, LookupAmbiguous, Restore, EnhanceAmbiguous, EnhanceUpdateVanished,
              StoreAccessRejected, StoreRefresh, DoFilterDeny, Served, Merge, MergeVanished,
              RevokeDeleted
<1>4. CASE Environment
  BY <1>1, <1>4 DEF Environment, Consent, Expire, NextDay
<1>5. CASE Restart
  BY <1>5 DEF Restart, ServedByToken, At, Idle
<1>6. ASSUME NEW w \in Worker, Fail(w) PROVE Stays
  BY <1>6, FinishServes DEF Fail
<1>7. CASE UNCHANGED vars
  BY <1>1, <1>7 DEF vars
<1> QED BY <1>2, <1>3, <1>4, <1>5, <1>6, <1>7 DEF Next, Fault

LEMMA ServedOwn == TypeInv /\ TokenInv /\ ServedByToken => ServedUnderOwnAuthorization
<1> SUFFICES ASSUME TypeInv, TokenInv, ServedByToken, NEW w \in Worker, At(w, "serving")
             PROVE  worker[w].row.party = worker[w].party
  BY DEF ServedUnderOwnAuthorization
<1>1. worker[w].row # NoRow /\ worker[w].at \in Holding
  BY PartyAssumption DEF TypeInv, WellFormed, At, WithEntity, Holding, Authorization, NoRow
<1>2. Meaning(worker[w].row) \in Meanings /\ Meaning(worker[w]) \in Meanings
  BY <1>1, Recorded DEF Carried
<1>3. Meaning(worker[w].row).token = Meaning(worker[w]).token
  BY DEF ServedByToken, Meaning
<1>4. Meaning(worker[w].row) = Meaning(worker[w])
  BY <1>2, <1>3 DEF TokenInv, TokenMeansOne
<1> QED BY <1>4 DEF Meaning

\* A third party is answered only under an authorization of the customer and the client
\* that the token store authenticated, although the filter takes the authorization from the
\* other database and other requests rewrite both meanwhile.
THEOREM ServedUnderOwn == Spec => []ServedUnderOwnAuthorization
<1>1. Init => TypeInv /\ TokenInv /\ ServedByToken
  BY TypeInit, TokenInit DEF Init, ServedByToken, At, Idle
<1>2. TypeInv /\ TokenInv /\ ServedByToken /\ [Next]_vars
        => (TypeInv /\ TokenInv /\ ServedByToken)'
  BY TypeStep, TokenStep, ServeStep
<1> QED BY <1>1, <1>2, ServedOwn, PTL DEF Spec
=============================================================================

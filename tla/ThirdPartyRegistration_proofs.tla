-------------------- MODULE ThirdPartyRegistration_proofs --------------------
(***************************************************************************)
(* For any number of browsers, client ids and secrets: a client that can   *)
(* authenticate has an application with the same secret, and submissions   *)
(* that do not overlap register a client id once.                          *)
(***************************************************************************)
EXTENDS ThirdPartyRegistration, FiniteSetTheorems, TLAPS

Submitted == {"check", "persist", "load", "add", "update", "confirmed", "rejected"}

\* A form that was submitted has a client id and a secret.
FormInv ==
    /\ TypeOK
    /\ \A b \in Browser :
          page[b] \in Submitted => form[b].client \in Client /\ form[b].secret \in Secret

Persisted(f) == \E x \in Named(f.client) : x.secret = f.secret

\* Client details are about to be written only after the application was.
KeptInv ==
    /\ FormInv
    /\ DetailsMatchApplication
    /\ \A b \in Browser : 
          page[b] \in {"load", "add", "update"} =>
             form[b].client \in deleted \/ Persisted(form[b])

LEMMA InitForm == Init => FormInv
  BY DEF Init, FormInv, TypeOK, Form, Blank, Pages, Submitted

LEMMA BrowseForm ==
    ASSUME FormInv, NEW b \in Browser, Browse(b)
    PROVE  FormInv'
  <1> USE DEF FormInv, TypeOK, history, Form, Pages, Submitted, WithForm, Running
  <1>1. ASSUME NEW c \in Client, DrawClientId(b, c) PROVE FormInv'
    BY <1>1 DEF DrawClientId, Advance, Goto
  <1>2. ASSUME NEW s \in Secret, OpenForm(b, s) PROVE FormInv'
    BY <1>2 DEF OpenForm, Advance, Goto, Show
  <1>3. ASSUME NEW x \in apps, FindAppInfo(b, x) PROVE FormInv'
    <2>1. x.client \in Client /\ x.secret \in Secret BY DEF Application
    <2> QED BY <1>3, <2>1 DEF FindAppInfo, Goto, Show
  <1>4. CASE FindNothing(b)
    BY <1>4 DEF FindNothing, Goto, Show, Blank
  <1>5. ASSUME NEW c \in Client, NEW s \in Secret, Submit(b, c, s) PROVE FormInv'
    BY <1>5 DEF Submit, Goto, Show
  <1> QED BY <1>1, <1>2, <1>3, <1>4, <1>5 DEF Browse

LEMMA AddForm ==
    ASSUME FormInv, NEW b \in Browser, AddAppInfo(b) \/ LookupFails(b)
    PROVE  FormInv'
  <1> USE DEF FormInv, TypeOK, history, Pages, Submitted, WithForm, Running, Advance, Goto
  <1>1. CASE CheckRejects(b) BY <1>1 DEF CheckRejects
  <1>2. CASE CheckPasses(b) \/ LookupFails(b)
    <2>1. CASE CheckPasses(b) BY <2>1 DEF CheckPasses
    <2>2. CASE LookupFails(b) BY <2>2 DEF LookupFails
    <2> QED BY <1>2, <2>1, <2>2
  <1>3. CASE Persist(b)
    <2>1. form[b].client \in Client /\ form[b].secret \in Secret BY <1>3 DEF Persist
    <2>2. apps' \subseteq Application BY <1>3, <2>1 DEF Persist, Application
    <2> QED BY <1>3, <2>2 DEF Persist
  <1>4. CASE LoadClient(b) BY <1>4 DEF LoadClient
  <1>5. CASE AddClientDetails(b) BY <1>5 DEF AddClientDetails
  <1>6. CASE AddRefused(b) BY <1>6 DEF AddRefused, Show, Blank, Form
  <1>7. CASE UpdateClientDetails(b) BY <1>7 DEF UpdateClientDetails
  <1> QED BY <1>1, <1>2, <1>3, <1>4, <1>5, <1>6, <1>7 DEF AddAppInfo

LEMMA FailForm ==
    ASSUME FormInv, NEW b \in Browser, Fail(b)
    PROVE  FormInv'
  BY DEF FormInv, TypeOK, history, Fail, Goto, Show, Blank, Form, Pages, Submitted

LEMMA NextForm == FormInv /\ [Next]_vars => FormInv'
  <1> SUFFICES ASSUME FormInv, [Next]_vars PROVE FormInv'
      OBVIOUS
  <1>1. ASSUME NEW x \in apps, DeleteApplication(x) PROVE FormInv'
    BY <1>1 DEF DeleteApplication, FormInv, TypeOK, Application
  <1>2. CASE UNCHANGED vars
    BY <1>2 DEF vars, history, FormInv, TypeOK
  <1> QED BY <1>1, <1>2, BrowseForm, AddForm, FailForm DEF Next, Register, Delete

\* Both databases, the generator's buffer and every form hold values of their types.
THEOREM TypeCorrect == Spec => []TypeOK
  <1>1. FormInv => TypeOK BY DEF FormInv
  <1> QED BY <1>1, InitForm, NextForm, PTL DEF Spec

-----------------------------------------------------------------------------
(* Client details match an application that was not deleted. *)

LEMMA InitKept == Init => KeptInv
  BY InitForm DEF Init, KeptInv, DetailsMatchApplication

\* A step that removes no application, gives no client details and brings nobody to
\* the writing of client details.
LEMMA NothingWritten ==
    ASSUME KeptInv, FormInv', apps \subseteq apps', UNCHANGED <<details, deleted>>,
           \A b \in Browser : page'[b] \in {"load", "add", "update"} =>
              page[b] \in {"load", "add", "update"} /\ form'[b] = form[b]
    PROVE  KeptInv'
  BY DEF KeptInv, DetailsMatchApplication, Named, Persisted

LEMMA NextKept == KeptInv /\ [Next]_vars => KeptInv'
  <1> SUFFICES ASSUME KeptInv, [Next]_vars PROVE KeptInv'
      OBVIOUS
  <1>1. FormInv'
    BY NextForm DEF KeptInv
  <1>2. page \in [Browser -> Pages] /\ form \in [Browser -> Form]
    BY DEF KeptInv, FormInv, TypeOK
  <1>3. ASSUME NEW b \in Browser, Browse(b) PROVE KeptInv'
    <2>1. apps' = apps /\ UNCHANGED <<details, deleted>>
      BY <1>3 DEF Browse, DrawClientId, OpenForm, FindAppInfo, FindNothing, Submit, history
    <2>2. ASSUME NEW a \in Browser, page'[a] \in {"load", "add", "update"}
          PROVE  page[a] \in {"load", "add", "update"} /\ form'[a] = form[a]
      BY <1>2, <1>3, <2>2
         DEF Browse, DrawClientId, OpenForm, FindAppInfo, FindNothing, Submit, Advance, Goto, Show
    <2> QED BY <1>1, <2>1, <2>2, NothingWritten
  <1>4. ASSUME NEW b \in Browser, Fail(b) PROVE KeptInv'
    <2>1. apps' = apps /\ UNCHANGED <<details, deleted>> BY <1>4 DEF Fail, history
    <2>2. ASSUME NEW a \in Browser, page'[a] \in {"load", "add", "update"}
          PROVE  page[a] \in {"load", "add", "update"} /\ form'[a] = form[a]
      BY <1>2, <1>4, <2>2 DEF Fail, Goto, Show
    <2> QED BY <1>1, <2>1, <2>2, NothingWritten
  <1>5. ASSUME NEW b \in Browser, CheckRejects(b) \/ CheckPasses(b) \/ LookupFails(b)
        PROVE  KeptInv'
    <2>1. apps' = apps /\ UNCHANGED <<details, deleted>> 
      BY <1>5 DEF CheckRejects, CheckPasses, LookupFails, history
    <2>2. ASSUME NEW a \in Browser, page'[a] \in {"load", "add", "update"}
          PROVE  page[a] \in {"load", "add", "update"} /\ form'[a] = form[a]
      BY <1>2, <1>5, <2>2 DEF CheckRejects, CheckPasses, LookupFails, Advance, Goto
    <2> QED BY <1>1, <2>1, <2>2, NothingWritten
  <1>6. ASSUME NEW b \in Browser, Persist(b) PROVE KeptInv'
    <2> DEFINE new == [id |-> nextApp, client |-> form[b].client, secret |-> form[b].secret]
    <2>1. UNCHANGED <<details, form, deleted>> BY <1>6 DEF Persist, history
    <2>2. Persisted(form[b])'
      <3>1. new \in apps' BY <1>6 DEF Persist
      <3>2. new.client = form[b].client /\ new.secret = form[b].secret OBVIOUS
      <3> QED BY <2>1, <3>1, <3>2 DEF Persisted, Named
    <2>3. \A c : \A x \in Named(c) : x \in Named(c)' BY <1>6 DEF Persist, Named
    <2>4. \A a \in Browser : a # b => page'[a] = page[a]
      BY <1>2, <1>6 DEF Persist, Advance, Goto
    <2> QED BY <1>1, <2>1, <2>2, <2>3, <2>4 DEF KeptInv, DetailsMatchApplication, Persisted
  <1>7. ASSUME NEW b \in Browser,
               LoadClient(b) \/ AddClientDetails(b) \/ AddRefused(b) \/ UpdateClientDetails(b)
        PROVE  KeptInv'
    <2>1. /\ page[b] \in {"load", "add", "update"}
          /\ form[b].client \in deleted \/ Persisted(form[b])
          /\ UNCHANGED deleted
      BY <1>7 DEF KeptInv, history, LoadClient, AddClientDetails, AddRefused, UpdateClientDetails, Advance
    <2>2. \A c : Named(c)' = Named(c)
      BY <1>7 DEF LoadClient, AddClientDetails, AddRefused, UpdateClientDetails, Named
    <2>3. \A a \in Browser : page'[a] \in {"load", "add", "update"} =>
             page[a] \in {"load", "add", "update"} /\ form'[a] = form[a]
      BY <1>2, <1>7, <2>1
         DEF LoadClient, AddClientDetails, AddRefused, UpdateClientDetails, Advance, Goto, Show
    <2>4. \A c \in Client : details'[c] # NoSecret =>
             \/ details'[c] = details[c]
             \/ c = form[b].client /\ details'[c] = form[b].secret
      BY <1>7 DEF KeptInv, FormInv, TypeOK, LoadClient, AddClientDetails, AddRefused,
                  UpdateClientDetails
    <2> QED BY <1>1, <2>1, <2>2, <2>3, <2>4 DEF KeptInv, DetailsMatchApplication, Persisted
  <1>8. ASSUME NEW x \in apps, DeleteApplication(x) PROVE KeptInv'
    <2>1. UNCHANGED <<details, page, form>> /\ deleted' = deleted \cup {x.client}
      BY <1>8 DEF DeleteApplication
    <2>2. \A c : c # x.client => Named(c)' = Named(c)
      BY <1>8 DEF DeleteApplication, Named
    <2> QED BY <1>1, <2>1, <2>2 DEF KeptInv, DetailsMatchApplication, Persisted
  <1>9. CASE UNCHANGED vars
    BY <1>9, <1>1, NothingWritten DEF vars
  <1> QED BY <1>3, <1>4, <1>5, <1>6, <1>7, <1>8, <1>9 DEF Next, Register, Delete, AddAppInfo

\* However registrations interleave and wherever they are cut off, the enhancer finds an
\* application for every client that can authenticate, as long as it was not deleted.
THEOREM ClientsHaveApplications == Spec => []DetailsMatchApplication
  <1>1. KeptInv => DetailsMatchApplication BY DEF KeptInv
  <1> QED BY <1>1, InitKept, NextKept, PTL DEF Spec

-----------------------------------------------------------------------------
(* Submissions that do not overlap register a client id once. *)

Submission == {"check", "persist", "load", "add", "update"}

\* Two submissions under way overlap if they name one client id, and one that is past the
\* check finds no application unless its lookup failed to find it.
SoleInv ==
    /\ FormInv
    /\ RegisteredOnce
    /\ \A a, b \in Browser :
          /\ a # b /\ page[a] \in Submission /\ page[b] \in Submission
          /\ form[a].client = form[b].client
          => form[a].client \in overlapped
    /\ \A b \in Browser :
          page[b] = "persist" /\ form[b].client \notin Unchecked => Named(form[b].client) = {}

LEMMA InitSole == Init => SoleInv
  BY InitForm DEF Init, SoleInv, RegisteredOnce, Submission

\* A step that registers nothing and takes nobody past the check or into a submission.
LEMMA NothingRegistered ==
    ASSUME SoleInv, FormInv', apps' \subseteq apps, UNCHANGED <<overlapped, unnoticed>>,
           \A b \in Browser :
              /\ page'[b] \in Submission => page[b] \in Submission /\ form'[b] = form[b]
              /\ page'[b] = "persist" => page[b] = "persist"
    PROVE  SoleInv'
  BY DEF SoleInv, RegisteredOnce, Unchecked, Named, Submission

LEMMA NextSole == SoleInv /\ [Next]_vars => SoleInv'
  <1> SUFFICES ASSUME SoleInv, [Next]_vars PROVE SoleInv'
      OBVIOUS
  <1>1. FormInv'
    BY NextForm DEF SoleInv
  <1>2. page \in [Browser -> Pages] /\ form \in [Browser -> Form]
    BY DEF SoleInv, FormInv, TypeOK
  <1>3. ASSUME NEW b \in Browser,
               \/ \E c \in Client : DrawClientId(b, c)
               \/ \E s \in Secret : OpenForm(b, s)
               \/ \E x \in apps : FindAppInfo(b, x)
               \/ FindNothing(b) \/ Fail(b) \/ CheckRejects(b)
               \/ LoadClient(b) \/ AddClientDetails(b) \/ AddRefused(b) \/ UpdateClientDetails(b)
        PROVE  SoleInv'
    <2>1. UNCHANGED <<apps, overlapped, unnoticed>>
      BY <1>3 DEF DrawClientId, OpenForm, FindAppInfo, FindNothing, Fail, CheckRejects,
                  LoadClient, AddClientDetails, AddRefused, UpdateClientDetails, history
    <2>2. ASSUME NEW a \in Browser
          PROVE  /\ page'[a] \in Submission => page[a] \in Submission /\ form'[a] = form[a]
                 /\ page'[a] = "persist" => page[a] = "persist"
      BY <1>2, <1>3 DEF Submission, DrawClientId, OpenForm, FindAppInfo, FindNothing, Fail,
                  CheckRejects, LoadClient, AddClientDetails, AddRefused, UpdateClientDetails,
                  Advance, Goto, Show
    <2> QED BY <1>1, <2>1, <2>2, NothingRegistered
  <1>4. ASSUME NEW b \in Browser, NEW c \in Client, NEW s \in Secret, Submit(b, c, s)
        PROVE  SoleInv'
    <2>1. /\ UNCHANGED <<apps, unnoticed>> /\ overlapped \subseteq overlapped'
          /\ page[b] \notin Submission /\ page'[b] = "check" /\ form'[b].client = c
          /\ \A a \in Browser : a # b => page'[a] = page[a] /\ form'[a] = form[a]
      BY <1>2, <1>4 DEF Submit, Goto, Show, Submission, WithForm, Form
    <2>2. ASSUME NEW a \in Browser, a # b, page'[a] \in Submission, form'[a].client = c
          PROVE  c \in overlapped'
      BY <1>4, <2>1, <2>2 DEF Submit, Submission, Running
    <2> QED BY <1>1, <2>1, <2>2 DEF SoleInv, RegisteredOnce, Unchecked, Named
  <1>5. ASSUME NEW b \in Browser, CheckPasses(b) PROVE SoleInv'
    <2>1. /\ UNCHANGED <<apps, overlapped, unnoticed, form>>
          /\ page[b] = "check" /\ page'[b] = "persist"
          /\ \A a \in Browser : a # b => page'[a] = page[a]
      BY <1>2, <1>5 DEF CheckPasses, Advance, Goto, history
    <2>2. ASSUME form[b].client \notin Unchecked PROVE Named(form[b].client) = {}
      <3>1. \A x \in Named(form[b].client) : Named(form[b].client) = {x}
        BY <2>2 DEF SoleInv, RegisteredOnce, Named
      <3>2. \A x : Cardinality({x}) = 1 BY FS_Singleton
      <3> QED BY <1>5, <3>1, <3>2 DEF CheckPasses
    <2> QED BY <1>1, <2>1, <2>2 DEF SoleInv, RegisteredOnce, Unchecked, Named, Submission
  <1>6. ASSUME NEW b \in Browser, Persist(b) PROVE SoleInv'
    <2> DEFINE new == [id |-> nextApp, client |-> form[b].client, secret |-> form[b].secret]
    <2>1. /\ UNCHANGED <<overlapped, unnoticed, form>>
          /\ page[b] = "persist" /\ page'[b] = "load"
          /\ \A a \in Browser : a # b => page'[a] = page[a]
          /\ apps' = apps \cup {new}
      BY <1>2, <1>6 DEF Persist, Advance, Goto, history
    <2>2. new.client = form[b].client OBVIOUS
    <2>3. \A c : c # form[b].client => Named(c)' = Named(c)
      BY <2>1, <2>2 DEF Named
    <2>4. RegisteredOnce'
      <3>1. form[b].client \notin Unchecked => \A x \in apps : x.client # form[b].client
        BY <2>1 DEF SoleInv, Named
      <3> QED BY <2>1, <2>2, <3>1 DEF SoleInv, RegisteredOnce, Unchecked
    <2>5. ASSUME NEW a \in Browser, page'[a] = "persist", form[a].client \notin Unchecked
          PROVE  form[a].client # form[b].client
      BY <2>1, <2>5 DEF SoleInv, Unchecked, Submission
    <2> QED BY <1>1, <2>1, <2>3, <2>4, <2>5 DEF SoleInv, Unchecked, Submission
  <1>7. ASSUME NEW x \in apps, DeleteApplication(x) PROVE SoleInv'
    BY <1>1, <1>7, NothingRegistered DEF DeleteApplication
  <1>8. CASE UNCHANGED vars
    BY <1>1, <1>8, NothingRegistered DEF vars, history
  <1>9. ASSUME NEW b \in Browser, LookupFails(b) PROVE SoleInv'
    <2>1. /\ UNCHANGED <<apps, overlapped, form>>
          /\ page[b] = "check" /\ page'[b] = "persist"
          /\ \A a \in Browser : a # b => page'[a] = page[a]
          /\ unnoticed \subseteq unnoticed'
          /\ Named(form[b].client) # {} => form[b].client \in unnoticed'
      BY <1>2, <1>9 DEF LookupFails, Advance, Goto
    <2> QED BY <1>1, <2>1 DEF SoleInv, RegisteredOnce, Unchecked, Named, Submission
  <1> QED BY <1>3, <1>4, <1>5, <1>6, <1>7, <1>8, <1>9 DEF Next, Register, Delete, Browse, AddAppInfo

\* The check before the insertion (RegistrationController.java:81-90) is enough unless
\* submissions of one client id overlap, or the lookup of a registered one fails.
THEOREM ApplicationsAreSole == Spec => []RegisteredOnce
  <1>1. SoleInv => RegisteredOnce BY DEF SoleInv
  <1> QED BY <1>1, InitSole, NextSole, PTL DEF Spec

-----------------------------------------------------------------------------
(* A confirmed registration stored its secret. *)

\* Whoever has persisted an application, alone and not deleted since, finds no client details
\* to update; whoever has written them finds them unchanged.
StoredInv ==
    /\ KeptInv
    /\ SoleInv
    /\ \A b \in Browser :
          form[b].client \notin Unchecked \cup deleted =>
             /\ page[b] \in {"load", "add"} => details[form[b].client] = NoSecret
             /\ page[b] # "update"
    /\ ConfirmedIsStored

LEMMA InitStored == Init => StoredInv
  BY InitKept, InitSole DEF Init, StoredInv, ConfirmedIsStored

\* A step that takes nobody further in a submission and gives no client details.
LEMMA NothingStored ==
    ASSUME StoredInv, KeptInv', SoleInv', UNCHANGED details,
           Unchecked \subseteq Unchecked', deleted \subseteq deleted',
           \A b \in Browser :
              page'[b] \in {"load", "add", "update", "confirmed"} =>
                 page'[b] = page[b] /\ form'[b] = form[b]
    PROVE  StoredInv'
  BY DEF StoredInv, ConfirmedIsStored

LEMMA NextStored == ASSUME StoredInv, [Next]_vars PROVE StoredInv'
  <1>1. KeptInv' /\ SoleInv'
    BY NextKept, NextSole DEF StoredInv
  <1>2. /\ page \in [Browser -> Pages] /\ form \in [Browser -> Form]
        /\ details \in [Client -> Secret \cup {NoSecret}]
    BY DEF StoredInv, SoleInv, FormInv, TypeOK
  <1>3. ASSUME NEW b \in Browser, Browse(b) \/ Fail(b) \/ CheckRejects(b) \/ CheckPasses(b) \/ LookupFails(b)
        PROVE  StoredInv'
    <2>1. /\ UNCHANGED <<details, deleted>> /\ Unchecked \subseteq Unchecked'
      BY <1>3 DEF Browse, DrawClientId, OpenForm, FindAppInfo, FindNothing, Submit, Fail,
                  CheckRejects, CheckPasses, LookupFails, history, Unchecked
    <2>2. ASSUME NEW a \in Browser, page'[a] \in {"load", "add", "update", "confirmed"}
          PROVE  page'[a] = page[a] /\ form'[a] = form[a]
      BY <1>2, <1>3, <2>2 DEF Browse, DrawClientId, OpenForm, FindAppInfo, FindNothing, Submit,
                  Fail, CheckRejects, CheckPasses, LookupFails, Advance, Goto, Show
    <2> QED BY <1>1, <2>1, <2>2, NothingStored
  <1>4. ASSUME NEW b \in Browser, Persist(b) PROVE StoredInv'
    <2>1. /\ UNCHANGED <<details, form, overlapped, unnoticed, deleted>>
          /\ page[b] = "persist" /\ page'[b] = "load"
          /\ \A a \in Browser : a # b => page'[a] = page[a]
      BY <1>2, <1>4 DEF Persist, Advance, Goto, history
    <2>2. ASSUME form[b].client \notin Unchecked \cup deleted
          PROVE  details[form[b].client] = NoSecret
      <3>1. form[b].client \in Client /\ Named(form[b].client) = {}
        BY <2>1, <2>2 DEF StoredInv, SoleInv, FormInv, Submitted
      <3> QED BY <2>2, <3>1 DEF StoredInv, KeptInv, DetailsMatchApplication
    <2> QED BY <1>1, <2>1, <2>2 DEF StoredInv, ConfirmedIsStored, Unchecked
  <1>5. ASSUME NEW b \in Browser, LoadClient(b) PROVE StoredInv'
    <2>1. /\ UNCHANGED <<details, form, overlapped, unnoticed, deleted>>
          /\ page[b] = "load"
          /\ page'[b] = IF details[form[b].client] = NoSecret THEN "add" ELSE "update"
          /\ \A a \in Browser : a # b => page'[a] = page[a]
      BY <1>2, <1>5 DEF LoadClient, Goto, history
    <2> QED BY <1>1, <2>1 DEF StoredInv, ConfirmedIsStored, Unchecked
  <1>6. ASSUME NEW b \in Browser, AddClientDetails(b) PROVE StoredInv'
    <2> DEFINE c == form[b].client
    <2>1. /\ UNCHANGED <<form, overlapped, unnoticed, deleted>>
          /\ page[b] = "add" /\ page'[b] = "confirmed"
          /\ \A a \in Browser : a # b => page'[a] = page[a]
          /\ details[c] = NoSecret /\ details' = [details EXCEPT ![c] = form[b].secret]
      BY <1>2, <1>6 DEF AddClientDetails, Advance, Goto, history
    <2>2. c \in Client
      BY <2>1 DEF StoredInv, SoleInv, FormInv, Submitted
    <2>3. details'[c] = form[b].secret /\ \A d \in Client : d # c => details'[d] = details[d]
      BY <1>2, <2>1, <2>2
    <2>4. ASSUME NEW a \in Browser, a # b, form[a].client \notin Unchecked \cup deleted,
                 page[a] \in {"load", "add", "update", "confirmed"}
          PROVE  form[a].client \in Client /\ form[a].client # c
      <3>1. form[a].client \in Client /\ form[a].secret \in Secret
        BY <2>4 DEF StoredInv, SoleInv, FormInv, Submitted
      <3>2. CASE page[a] = "confirmed"
        BY <2>1, <2>4, <3>1, <3>2, PlaceholderAssumption DEF StoredInv, ConfirmedIsStored
      <3>3. CASE page[a] # "confirmed"
        BY <2>1, <2>4, <3>1, <3>3 DEF StoredInv, SoleInv, Unchecked, Submission
      <3> QED BY <3>2, <3>3
    <2> HIDE DEF c
    <2>5. ASSUME NEW a \in Browser, form[a].client \notin Unchecked \cup deleted
          PROVE  /\ page'[a] \in {"load", "add"} => details'[form[a].client] = NoSecret
                 /\ page'[a] # "update"
                 /\ page'[a] = "confirmed" => details'[form[a].client] = form[a].secret
      <3>1. CASE a = b
        BY <2>1, <2>3, <3>1 DEF c
      <3>2. CASE a # b
        BY <2>1, <2>3, <2>4, <2>5, <3>2 DEF StoredInv, ConfirmedIsStored
      <3> QED BY <3>1, <3>2
    <2> QED BY <1>1, <2>1, <2>5 DEF StoredInv, ConfirmedIsStored, Unchecked
  <1>7. ASSUME NEW b \in Browser, AddRefused(b) PROVE StoredInv'
    <2>1. UNCHANGED <<details, overlapped, unnoticed, deleted>>
      BY <1>7 DEF AddRefused, history
    <2>2. ASSUME NEW a \in Browser, page'[a] \in {"load", "add", "update", "confirmed"}
          PROVE  page'[a] = page[a] /\ form'[a] = form[a]
      BY <1>2, <1>7, <2>2 DEF AddRefused, Advance, Goto, Show
    <2> QED BY <1>1, <2>1, <2>2, NothingStored DEF Unchecked
  <1>8. ASSUME NEW b \in Browser, UpdateClientDetails(b) PROVE StoredInv'
    <2>1. /\ UNCHANGED <<details, form, overlapped, unnoticed, deleted>>
          /\ page[b] = "update" /\ page'[b] = "confirmed"
          /\ \A a \in Browser : a # b => page'[a] = page[a]
      BY <1>2, <1>8 DEF UpdateClientDetails, Advance, Goto, history
    <2> QED BY <1>1, <2>1 DEF StoredInv, ConfirmedIsStored, Unchecked
  <1>9. ASSUME NEW x \in apps, DeleteApplication(x) PROVE StoredInv'
    BY <1>1, <1>9, NothingStored DEF DeleteApplication, Unchecked
  <1>10. CASE UNCHANGED vars
    BY <1>1, <1>10, NothingStored DEF vars, history, Unchecked
  <1> QED BY <1>3, <1>4, <1>5, <1>6, <1>7, <1>8, <1>9, <1>10 DEF Next, Register, Delete, AddAppInfo

\* The secret that a registration confirms is the one that works, unless another submission of
\* the client id ran beside it, the lookup of a registered one failed or its application was
\* deleted (RegistrationController.java:60-134).
THEOREM ConfirmedWorks == Spec => []ConfirmedIsStored
  <1>1. StoredInv => ConfirmedIsStored BY DEF StoredInv
  <1>2. StoredInv /\ [Next]_vars => StoredInv' BY NextStored
  <1> QED BY <1>1, <1>2, InitStored, PTL DEF Spec
=============================================================================

------------------------ MODULE ThirdPartyRegistration ------------------------
(***************************************************************************)
(* How a third party's developer registers an application: the form with   *)
(* its random client id, the check that the id is new, and the two records *)
(* of a registration, the application in the application database and the  *)
(* client details in the token store's, written one after the other        *)
(* without a common transaction.                                           *)
(***************************************************************************)
EXTENDS Naturals, FiniteSets

CONSTANTS
    Browser,   \* developers' browsers, each with at most one request under way
    Client,    \* client ids
    Secret,    \* client secrets
    NoClient,
    NoSecret,
    MaxApp     \* bound: no form is submitted once this many applications were persisted

ASSUME PlaceholderAssumption == NoClient \notin Client /\ NoSecret \notin Secret
ASSUME BoundAssumption == MaxApp \in Nat

VARIABLES
    apps,      \* application_information: set of Application
    details,   \* oauth_client_details: each client id's secret, NoSecret without a row
    buffer,    \* the characters in the id generator's buffer, shared by all requests
    page,      \* what each browser shows, or its request is about to do
    form,      \* the registration form in each browser
    nextApp,   \* next application id (auto increment)
    overlapped, \* history: client ids submitted while another submission of theirs was running
    unnoticed, \* history: client ids whose application was missed because its lookup failed
    deleted    \* history: client ids of deleted applications

history == <<overlapped, unnoticed, deleted>>
vars    == <<apps, details, buffer, page, form, nextApp, overlapped, unnoticed, deleted>>

Application == [id : Nat, client : Client, secret : Secret]
Form  == [client : Client \cup {NoClient}, secret : Secret \cup {NoSecret}]
Blank == [client |-> NoClient, secret |-> NoSecret]

WithForm == {"form", "rejected", "confirmed"}
Running  == {"drawing", "check", "persist", "load", "add", "update"}
Pages    == {"away"} \cup WithForm \cup Running

Named(c)   == {x \in apps : x.client = c}
Goto(b, p) == page' = [page EXCEPT ![b] = p]
Show(b, f) == form' = [form EXCEPT ![b] = f]
Advance(b, from, to) == page[b] = from /\ Goto(b, to)

-----------------------------------------------------------------------------
(* getAppInfo and findAppInfo: a new form, or one with the registered details. *)

\* nextString fills the generator's only buffer ...
DrawClientId(b, c) ==
    /\ Advance(b, "away", "drawing")
    /\ Named(c) = {} /\ details[c] = NoSecret /\ buffer # c
    /\ \A a \in Browser : form[a].client # c
    /\ buffer' = c
    /\ UNCHANGED <<apps, details, form, nextApp, history>>

\* ... and copies what is in it by then.
OpenForm(b, s) ==
    /\ Advance(b, "drawing", "form")
    /\ Show(b, [client |-> buffer, secret |-> s])
    /\ UNCHANGED <<apps, details, buffer, nextApp, history>>

FindAppInfo(b, x) ==
    /\ page[b] \in WithForm \cup {"away"}
    /\ Named(x.client) = {x}
    /\ Goto(b, "form")
    /\ Show(b, [client |-> x.client, secret |-> x.secret])
    /\ UNCHANGED <<apps, details, buffer, nextApp, history>>

\* Not found, a wrong secret, or an exception because there are several.
FindNothing(b) ==
    /\ page[b] \in WithForm \cup {"away"}
    /\ Goto(b, "away")
    /\ Show(b, Blank)
    /\ UNCHANGED <<apps, details, buffer, nextApp, history>>

-----------------------------------------------------------------------------
(* addAppInfo.  The form may be submitted again from the page that follows it. *)

Submit(b, c, s) ==
    /\ page[b] \in WithForm
    /\ nextApp <= MaxApp
    /\ Goto(b, "check")
    /\ Show(b, [client |-> c, secret |-> s])
    /\ overlapped' = IF \E a \in Browser : page[a] \in Running /\ form[a].client = c
                       THEN overlapped \cup {c} ELSE overlapped
    /\ UNCHANGED <<apps, details, buffer, nextApp, unnoticed, deleted>>

CheckRejects(b) ==
    /\ Advance(b, "check", "rejected")
    /\ Cardinality(Named(form[b].client)) = 1
    /\ UNCHANGED <<apps, details, buffer, form, nextApp, history>>

\* Mutant of CheckPasses: whatever the check finds is ignored.
CheckPassesAlways(b) ==
    /\ Advance(b, "check", "persist")
    /\ UNCHANGED <<apps, details, buffer, form, nextApp, history>>

\* No application, or several: the exception of the single-result query is ignored.
CheckPasses(b) ==
    /\ Advance(b, "check", "persist")
    /\ Cardinality(Named(form[b].client)) # 1
    /\ UNCHANGED <<apps, details, buffer, form, nextApp, history>>

\* A lookup that fails, whatever it would have found, is ignored like one that finds nothing.
LookupFails(b) ==
    LET c == form[b].client
    IN  /\ Advance(b, "check", "persist")
        /\ unnoticed' = IF Named(c) = {} THEN unnoticed ELSE unnoticed \cup {c}
        /\ UNCHANGED <<apps, details, buffer, form, nextApp, overlapped, deleted>>

\* Mutant of Persist: the application is not written before its client details.
PersistLater(b) ==
    /\ Advance(b, "persist", "load")
    /\ nextApp' = nextApp + 1
    /\ UNCHANGED <<apps, details, buffer, form, history>>

\* Mutant of Persist: the id is not advanced and the secret is lost.
PersistBlank(b) ==
    /\ Advance(b, "persist", "load")
    /\ apps' = apps \cup {[id |-> nextApp, client |-> form[b].client, secret |-> NoSecret]}
    /\ nextApp' = nextApp + 1
    /\ UNCHANGED <<details, buffer, form, history>>

Persist(b) ==
    /\ Advance(b, "persist", "load")
    /\ apps' = apps \cup {[id |-> nextApp, client |-> form[b].client, secret |-> form[b].secret]}
    /\ nextApp' = nextApp + 1
    /\ UNCHANGED <<details, buffer, form, history>>

LoadClient(b) ==
    /\ page[b] = "load"
    /\ Goto(b, IF details[form[b].client] = NoSecret THEN "add" ELSE "update")
    /\ UNCHANGED <<apps, details, buffer, form, nextApp, history>>

AddClientDetails(b) ==
    /\ Advance(b, "add", "confirmed")
    /\ details[form[b].client] = NoSecret
    /\ details' = [details EXCEPT ![form[b].client] = form[b].secret]
    /\ UNCHANGED <<apps, buffer, form, nextApp, history>>

\* The client id is the table's key: ClientAlreadyExistsException, an error page.
AddRefused(b) ==
    /\ Advance(b, "add", "away")
    /\ details[form[b].client] # NoSecret
    /\ Show(b, Blank)
    /\ UNCHANGED <<apps, details, buffer, nextApp, history>>

\* The details that were loaded are written back, as they were; not the form's.
UpdateClientDetails(b) ==
    /\ Advance(b, "update", "confirmed")
    /\ UNCHANGED <<apps, details, buffer, form, nextApp, history>>

-----------------------------------------------------------------------------
(* ApplicationInformationRESTController.delete: the application's row only. *)
DeleteApplication(x) ==
    /\ apps' = apps \ {x}
    /\ deleted' = deleted \cup {x.client}
    /\ UNCHANGED <<details, buffer, page, form, nextApp, overlapped, unnoticed>>

\* An exception that is not caught, or a restart of the server, between two steps.
Fail(b) ==
    /\ page[b] \in Running
    /\ Goto(b, "away")
    /\ Show(b, Blank)
    /\ UNCHANGED <<apps, details, buffer, nextApp, history>>

-----------------------------------------------------------------------------
Init ==
    /\ apps = {}
    /\ details = [c \in Client |-> NoSecret]
    /\ buffer = NoClient
    /\ page = [b \in Browser |-> "away"]
    /\ form = [b \in Browser |-> Blank]
    /\ nextApp = 1
    /\ overlapped = {} /\ unnoticed = {} /\ deleted = {}

AddAppInfo(b) ==
    \/ CheckRejects(b) \/ CheckPasses(b) \/ Persist(b) \/ LoadClient(b)
    \/ AddClientDetails(b) \/ AddRefused(b) \/ UpdateClientDetails(b)

Browse(b) ==
    \/ \E c \in Client : DrawClientId(b, c)
    \/ \E s \in Secret : OpenForm(b, s)
    \/ \E x \in apps : FindAppInfo(b, x)
    \/ FindNothing(b)
    \/ \E c \in Client, s \in Secret : Submit(b, c, s)

Register == \E b \in Browser : AddAppInfo(b) \/ Browse(b)
Delete   == \E x \in apps : DeleteApplication(x)

Next == Register \/ Delete \/ \E b \in Browser : LookupFails(b) \/ Fail(b)
Spec == Init /\ [][Next]_vars

\* As long as nothing fails.
SpecSmooth == Init /\ [][Register \/ Delete]_vars

-----------------------------------------------------------------------------
TypeOK ==
    /\ apps \subseteq Application
    /\ details \in [Client -> Secret \cup {NoSecret}]
    /\ buffer \in Client \cup {NoClient}
    /\ page \in [Browser -> Pages]
    /\ form \in [Browser -> Form]
    /\ nextApp \in Nat
    /\ {overlapped, unnoticed, deleted} \subseteq SUBSET Client

\* As long as no application of the client was deleted, the secret it authenticates with is
\* that of an application which the token enhancer will find, wherever a registration was cut
\* off and whatever registered beside it.
DetailsMatchApplication ==
    \A c \in Client \ deleted :
        details[c] # NoSecret => \E x \in Named(c) : x.secret = details[c]

\* Client ids for which the check before the insertion told nothing.
Unchecked == overlapped \cup unnoticed

\* The check before the insertion is enough unless submissions overlap or the lookup of a
\* registered id fails, which addAppInfo ignores: a client id has one application, and the
\* enhancer's findByClientId one answer, wherever other steps fail and whatever is deleted.
RegisteredOnce ==
    \A x, y \in apps : x.client = y.client /\ x.client \notin Unchecked => x = y

\* Without overlap, ignored failure or deletion, the secret a registration confirms is the
\* one that works.
ConfirmedIsStored ==
    \A b \in Browser :
        page[b] = "confirmed" /\ form[b].client \notin Unchecked \cup deleted
        => details[form[b].client] = form[b].secret

(* What the pages say of a registration, and the code refutes. *)

\* "Client ID already exists.", datacustodian.properties:1: no two applications are ever
\* registered under one client id.
OneApplicationPerClient == \A x, y \in apps : x.client = y.client => x = y

\* registration_success.jsp:75, "Your application need to provide client id and client
\* secret as authentication credential": the confirmed ones are the ones that work.
ConfirmedSecretWorks ==
    \A b \in Browser : page[b] = "confirmed" => details[form[b].client] = form[b].secret
=============================================================================

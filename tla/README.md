# A verification project for the OpenESPI Data Custodian

The Data Custodian (`src/src/main/java/org/energyos/espi/datacustodian/` and the pages under
`src/src/main/webapp/`) is a Spring web application of an energy utility. Its customers let third
parties read their energy usage data: a third party registers, the customer consents on the
portal, the third party obtains an OAuth2 token and then reads the resources of the authorization
that came with it. The portal's pages run scripts of some size: a date picker, dialogs, ratings
and a chart of the usage. The entities, their JPA services and the OAuth2 server are libraries
(OpenESPI-Common, Spring Security OAuth2 2.0.2): not in the repository, they are modelled from how
its code uses them, and the map marks their definitions external.

Below, `Enhancer` is `oauth/EspiTokenEnhancer.java`, `Confirmation`
`oauth/AccessConfirmationController.java`, `Third parties`
`web/customer/AuthorizedThirdPartiesController.java`, `Filter`
`web/filter/ResourceValidationFilter.java`, `Registration`
`web/thirdparty/RegistrationController.java`, `Scope selection`
`web/customer/ScopeSelectionController.java`. Scripts are named by their file.

## 1. Inventory

The server:

| Component | State | Operations | Interacts with |
|---|---|---|---|
| Authorization lifecycle | `authorizations` table (application database); `oauth_access_token`, `oauth_refresh_token` (token store, another data source that commits by itself); authorization codes in memory | consent, code exchange, password and client-credentials grant, refresh, check of a request, end date change, revocation, deletion, revocation by an administrator | its handlers write both databases, one after the other |
| Authorization period | start and duration of an authorization; the end date in the authorization request | confirm, pick a date, grant, change, save | pages show it, the filter enforces it |
| Consent session | `usagePointId` and `authorizationRequest` in the HTTP session, the pages in the tabs | select a usage point, confirm, set the date, approve, deny | the session is shared by tabs; the codes it issues become authorizations |
| Third party registration | `application_information` (application database), `oauth_client_details` (token store), the id generator's buffer | open the form, find, submit, delete | the enhancer and the filter look a client up in both |
| Date utilities | none | windows of days, weeks and months for downloads | "Download My Data" offers them |
| Resource filter roles | none of its own | dispatch on the token's role and the path | reads authorizations and subscriptions |
| Batch upload and notification | the import service's window of changes, shared by all requests; the notification list | import a file, associate usage points, notify | writes usage points of subscriptions, calls third parties |
| Subscription usage points | the list of a subscription's usage points | add, delete | shared with imports |
| REST resource controllers | the resource tables | create, read, update, delete, alone and below a subscription | the filter decides who reaches them |
| CORS filter, page controllers, management and WADL, domain services | none, or in libraries | headers, rendering, scripts | |

The pages:

| Component | State | Operations | Interacts with |
|---|---|---|---|
| Date picker (`eternicode/bootstrap-datepicker.js`) | the selected dates, the month in view, the field's text, the range | show, hide, browse, click, keys, typing | fires `changeDate`, from which `dmd/index.jsp` makes the link of a download; the field's text becomes the end date of an authorization |
| Questions before an action (`bootstrap-confirmation.js` on `bootstrap-tooltip.js`) | of each button: its question, placed or not, and the dismissals bound to it | show, hide, dismiss, confirm | showing one hides the others; Yes goes to the handler that authorizes or revokes |
| Download dialog, menus, tabs (`bootstrap-modal.js`, `-dropdown.js`, `-tab.js`, `dmd/index.jsp`) | which menu, dialog and pane is open, backdrops, handlers, the focus; one global variable and one link | toggle, open, close, keys | the date picker in the dialog fires events of the same names |
| Application feedback (`rating.js`, `bootstrap-rating-input.min.js`, `application.js`) | stars, hidden inputs, comments, contents; requests and answers under way | rate, clear, comment, show | another system keeps ratings and comments |
| Usage chart: data and axes (`lh/customer/meterreadings/show.jsp`, `jquery.flot.js`, `-.animator`, `-.resize`, `-.axislabels`, `-.time`) | the chart's data, ranges and rooms; the animation's step, the replay's intervals | start, stop, toggle, zoom, resize; each frame and tick | one chart under two timers and the reader |
| Usage chart: drawing (the same, without the timers) | open path, text cache, the elements on the page | set up, draw, render | |
| Usage chart: mouse (`jquery.flot.navigate.js`, `-.selection`, `-.crosshair`, `-.tooltip`) | drag, selection, highlight, tooltip, crosshair, the overlay's picture, two timers | move, press, release, wheel, leave | four plugins listen to the same events |
| Scripts no page runs | | | |

What is hard in this code:

- **Two databases and no common transaction.** Granting writes the token store, the
  application database and the token store again; revoking and deleting write both in the
  opposite order. Every cut between two writes leaves one without the other.
- **Detached entities.** Handlers read an entity, change one field and merge all columns, with
  whatever another request wrote in between.
- **Lookup, then insert, without a unique key**: the registration's client id, the enhancer's
  search by refresh token, the check before a password grant. The registration's lookup passes when it
  fails, too.
- **A token's expiry races with everything.** An expired token is deleted by whoever presents
  it; the next code finds none, or reuses its refresh token.
- **Session state shared by tabs**, read again after the page was rendered.
- **Dates in three time zones**: UTC days in the database, a fixed EST offset in the code, the
  server's zone in parsing and formatting; in the browser, UTC days shown as local ones.
- **Handlers of one event**: widgets bind to the document, to each other's events and once more
  every time they are shown; what one leaves bound, another one meets.
- **Aliases**: the picker's month in view is now and then the selected `Date` object itself.
- **Timers beside the reader**: animation, replay, panning, repainting and resizing each change
  one chart on their own.
- **Requests and answers that overtake each other** between a page and the service of ratings.

What makes each component correct is the list of properties in section 3; `hazards` in
PROJECT.json places each hard spot at its line.

**What the pages run.** `lh/tiles/head.jsp` loads Bootstrap 3.1.1 before jQuery, so that it fails,
and then single files of 2.3.2; `$.support.transition` is therefore undefined and nothing fades:
every show and hide is done at once. `bootstrap/js/bootstrap.js`, the
unminified `js/bootstrap-datetimepicker.js` and `js/bootstrap-datepicker.js`, and several
plugins of flot (pie, errorbars, canvas, image, fillbetween, threshold, symbol) are loaded by no
page; `excanvas.js` only by browsers that are gone. flot's plugins run in the order resize, time,
stack, categories, axislabels, tooltip, animator, growing, crosshair, selection, navigate; stack
and categories do nothing for the page's one series.

## 2. Modules

| Module | Of | Extends or instantiates |
|---|---|---|
| `AuthorizationLifecycle` | the lifecycle, one step per database access | |
| `AuthorizationContract` | what the customer is promised of an authorization (abstract) | |
| `AuthorizationRefinement` | the mapping from the first to the second | both |
| `MCLifecycle`, `MCConcurrent` | small instances | `AuthorizationRefinement` |
| `AuthorizationLifecycle_proofs` | theorems, for any threads | `AuthorizationLifecycle` |
| `AuthorizationRefinement_proofs` | theorems, for one request at a time | `AuthorizationRefinement` |
| `AuthorizationPeriod`, `MCPeriod`, `AuthorizationPeriod_proofs` | the period | |
| `ConsentSession` | the consent session | |
| `ConsentHabits`, `MCConsent`, `ConsentSession_proofs` | two kinds of customers in it | `ConsentSession` |
| `ThirdPartyRegistration`, `MCRegistration`, `ThirdPartyRegistration_proofs` | registration | |
| `Calendar` | dates as ECMAScript's `Date` keeps them | |
| `DownloadWindows`, `MCWindows` | the windows `DateController` computes | `Calendar` |
| `DatePicker` | the date picker and its fields | `Calendar` |
| `ConfirmedAction` | questions before an action | |
| `DownloadDialog` | menus, tabs and the dialog of "Download My Data" | |
| `ApplicationFeedback` | ratings, comments, contents | |
| `PortalPages`, `MCPortal`, `PortalPages_proofs` | one of these pages at a time | the four before |
| `ChartAxes` | ranges, ticks, labels and rooms of axes: operators | `Calendar` |
| `UsageChart` | the chart's data and axes under its timers | `ChartAxes` |
| `ChartDrawing` | how a figure is drawn, piece by piece | `ChartAxes` |
| `DrawingPromises` | what a drawing promises, by the data | `ChartDrawing` |
| `ChartPointer` | the mouse over the chart | |
| `ChartPages`, `MCCharts`, `ChartPages_proofs` | one side of the chart at a time | the three before |
| `ChartDrawing_proofs` | theorems about a drawing, for any figures, views and zone | `ChartPages_proofs` |

Operators whose comment begins "Mutant of" are no part of any specification: each is a plausible
slip in the code it stands for, kept beside the definition it would replace to show that a
property notices.

### AuthorizationLifecycle

A `Party` is a customer, client and scope: what the token store keys a token by. `access`,
`refreshes` and `rows` are the three tables; a row keeps the party, both token values, status,
start and end of its authorization. `worker[w]` is a request thread: the place it has reached
and what it has read. One action is one database access whose effect another request sees.

| Actions | Code |
|---|---|
| `Consent` | Confirmation 279-291, and the page being skipped for a customer whose token lives (`oauth/EspiUserApprovalHandler.java` 63-93) |
| `ExchangeCode`, `Lookup*`, `Restore`, `RefreshGrant`, `Issue`, `Store*` | `DefaultTokenServices` and `JdbcTokenStore`, configured in `oauth-AS-config.xml` |
| `PasswordGrant` | the token endpoint's password grant (`oauth-AS-config.xml` 26), which anybody may post and nothing checks |
| `GetOauthToken` | Confirmation 167-214, the portal's own password grant: only for a party without an active authorization |
| `Enhance*` | Enhancer 53-346: found by the refresh token, or created; one transaction, whose read is apart from its write |
| `LoadAuthentication*`, `DoFilter*`, `Served` | Filter 94-139 |
| `RevokeRead`, `ReadToken`, `RevokeToken`, `EndDateRead`, `Merge*` | Third parties 150-192 |
| `DeleteRead`, `DeleteRow`, `RevokeDeleted` | `web/api/AuthorizationRESTController.java` 148-165 |
| `AdminRevoke` | `oauth/OauthAdminController.java` 76-85 |
| `Fail`, `Restart`, `Expire`, `NextDay` | an exception between two steps, a restart, time |

Three decisions of the model:

- `OneTokenPerParty` says whether `oauth_access_token.authentication_id` is unique. The
  repository holds no DDL for the token store, and deployments differ; the runs take either.
- Token validities are left open: any token may expire at any moment, an access token before
  its refresh token or after. The default services give 12 hours and 30 days; clients that
  registered get 3600 seconds for both.
- A JPA merge of an entity whose row has gone inserts a copy under a new id (`MergeVanished`);
  an update in the enhancer's transaction fails (`EnhanceUpdateVanished`).

`AuthorizationContract` is the abstract view: an authorization is unused, active, revoked or
gone, has a last day, and is answered under only while it is active and its day is not over.
`AuthorizationRefinement` maps `rows`, `nextRow` and the threads that are serving to it, and
`ContractKept` is the contract's whole specification.

### AuthorizationPeriod

Instants are seconds, dates are days; the customer's page formats in EST
(`lh/customer/authorizedThirdParties/show.jsp`), the confirmation page in the server's zone
(`ServerWest` seconds west of UTC). `Grant` and `GrantPeriod` are Enhancer 106-121, `ChangeEnd`
and `ChangedPeriod` Third parties 173-192, `SetDate` Confirmation 279-291, `InForce` Filter
119-127. Truncation, the five-hour offset, the minimum of a day and the last minute are the
code's arithmetic to the second.

### ConsentSession

`chosen` and `request` are the two session attributes, `tab` what each tab shows, `shown` the
confirmation rendered last (history). Exchanging a code is one action here; its steps are in
`AuthorizationLifecycle`. `ConsentHabits` has two customers, never in one behaviour (`habit`): one
uses tabs as they come in a session that may end; the other (`Orderly`) uses one tab and finishes
one thing before the next, while tokens expire.

### ThirdPartyRegistration

`apps` and `details` are the two tables; `page[b]` runs through `addAppInfo` (Registration
60-134), with each database access a step. `LookupFails` is the lookup that fails for any reason, which
line 86 takes for an id that is free. `buffer` is the generator's array
(`utils/RandomString.java` 27-29), which requests fill and read without a lock. `overlapped`
(ids submitted while a submission of theirs was running), `unnoticed` (ids whose application was
missed because the lookup failed) and `deleted` are history.

### Calendar and DownloadWindows

A date is the number of its day since 1970; a month or day outside its range runs over, as in
ECMAScript's `Date` and Java's lenient `Calendar`. `DownloadWindows` computes the beginning of a
day, week, month and of one, three, six and twelve months before as `utils/DateController.java`
does, step by step (`Calendar.HOUR` is the hour of the half day), when the page is rendered.

### DatePicker

`p` is one `Datepicker` object with its text field: `dates` selected, `viewDate`, `viewMode`, what
is rendered, and in `p.shared` the names of those dates that are the same object as `viewDate`,
so that what a method does to that object in place (`Mutate`) reaches them. Every method of the
object is an operator from `p` to `p` under the name it has in the script, and an action is one
handler, the composition of the calls it makes. `o` is the range the page asked for, `field` the
field that is served: `validUntil` of an authorization, or one of the two of "Download My Data",
whose page keeps the date `changeDate` told it last (`Usage`). `origin` (what the date in the field
comes from) and `keys` are history and bound.

### ConfirmedAction

`tip[b]` is the question of button `b`: shown or not, where, how large, and how many dismissals
are bound to its element. `show` hides the other questions (the plugin's singleton), measures the
question and places it as `bootstrap-tooltip.js` does; `applyPlacement` moves it in again when it
has come out beyond the left of the page. How wide and high the browser lays out a question is open (`Widths`,
`Heights`).

### DownloadDialog

`s` is the page: which menus and which pane are open, the dialog, how many backdrops and handlers of each kind there are, which
usage point the dialog and its link are for, and the focus. A handler is a composition of
operators named as in the plugins, in the order in which jQuery runs delegated and bound handlers; an
event that the date picker fires inside the dialog comes up to it (`PickerHides`).

### ApplicationFeedback

`value` and `painted` are the hidden inputs and the stars; `net` holds requests and answers under
way, any of which may arrive or be read next or be lost. `server` is what the other system keeps.
`uncertain` (history) names the applications of which a click was lost or overtaken.

### PortalPages

A customer looks at one page at a time, and a page's scripts end with it. `shown` says which;
the scripts of the others do not move. The modules have no variable in common, so composing them
one at a time loses no behaviour. `PortalPages` extends `ApplicationFeedback` and instantiates the
other three.

### UsageChart and ChartAxes

`chart` is the plot: data, the extent `processData` found, how it is drawn, what the page has set
of the axes (`opts`), the axes as fitted, and the room for labels. `setupGrid`, `draw`, `setData`,
`fillInSeriesOptions`, `zoom` and `onResize` are operators and actions under the scripts' names;
`Frame` is one step of the animator, `updateRandom` one tick of the replay. Values on the y axis are thousandths; zoom factors are quarters.
`intervals` are the intervals the browser still runs, `timerid` the one the page knows. `processData`
makes room for a bar beside the points that have a value, and for nothing but the instant itself
beside the others, as flot's two passes do. The time axis is in the browser's zone (`Zones`): a
standard offset of whole hours and the summers in which its clock is an hour ahead, with changes
at none of the hours next to midnight. An hour that is skipped or comes twice is read as
ECMAScript's `Date` reads it (`Local`).

### ChartDrawing and DrawingPromises

`setupGrid`, then `drawGrid`, then the area, the line or the bars segment by segment, clipped in
the order in which the code looks at the four edges, then `render`: `path` is the open path of the
canvas, `strokes` what is painted, `cache` and `dom` the texts. `Figures` gives the data and the views
of them, what the page was loaded as and what it shows: a toggle puts lines in the place of bars or
the other way round, and leaves them `bare`, without a width of their lines, so that flot strokes
neither the line nor the outline of a bar. `DrawingPromises` states what must be on the canvas in another way: it
computes the value of the data at each hour and clips by comparison, without paths. Where a cut
does not fall on a whole unit the code's fraction is rounded down (`Quotient`).

### ChartPointer

The plot is `Width` steps of the mouse wide. One action is one event with all handlers of the
plugins for it, in the order they are loaded; `PanTimeout` and `DrawOverlay` are the two timers.
`overlay` is what was painted last, which `OverlayCatchesUp` compares with what it should be.
`held` (history) is where the last drag began and ended. A drag begins with the first
movement after the press (the distance of 10 that `jquery.flot.navigate.js` 191 passes goes to an event that has
no use for it).

### ChartPages

The three sides of the chart have no variable in common: what one decides (the figure, where the
axis begins) is open in another. `side` says which is looked at; the others are as the page was
loaded. `ChartPages` extends `UsageChart` and `ChartPointer`, about which there are theorems (their
specifications are `Spec` and `PointerSpec`), and instantiates `DrawingPromises`.

## 3. Runs

| Run | Instance | Shows |
|---|---|---|
| `serial` | one thread, a code and a password client, no unique key, days 1 to 2 | `TypeOK`; `RefreshTokenRenewsOne`: the enhancer's search by refresh token has one answer; `RevokedStaysRevoked`; `ServedUnderOwnAuthorization`; `ContractKept`, the refinement |
| `concurrent` | two threads, a code client; or, in an older deployment where a deletion was cut short, token requests of a code and a client-credentials client; unique key; one token expired at a time | `TokenMeansOne`: a token value names one party and one refresh token in both databases and in every request's memory |
| `fair` | one thread that keeps running, no unique key, six token values | `RevocationTakesEffect` (liveness) |
| `period` | the seconds around midnight in UTC and EST and around the last minute of a period, three days and the same a year later; server in EST | `ShownUntilIsPicked`, `AnsweredUntilPicked`, `GrantIsInForce`, `SavingKeepsThePeriod` |
| `registration` | two browsers, two ids, two secrets, three applications | `DetailsMatchApplication`, `RegisteredOnce`, `ConfirmedIsStored`, with failures, lookups that fail and deletions |
| `consent` | either customer of `ConsentHabits`: two clients with one scope each, three meters of two kinds, two tabs, two authorizations | `GrantedWasShown`, `OrderlyOncePerKind` |
| `pages` | two buttons at two places with questions of two widths and heights; two usage points, three tabs; one application with two stars, three requests; a picker at the end of January in a browser five hours west, two instants with midnight UTC between them | see below |
| `charts` | four sets of readings with a window of two; eight figures in up to eight views, in the zone of New York over both changes of its clock in 2014; a plot of four steps with two readings, two presses and three moves | see below |
| `orphan_token` | two threads | violated: a live token without an authorization (Filter 107) |
| `registration_twice` | two browsers, nothing fails | violated: one id registered twice |
| `registration_again` | one browser, nothing fails | violated: a confirmed secret that does not work |
| `todays_usage` | a leap February and the week after it, five instants a day | violated: "Today's Usage" begins at noon in the afternoon |

`pages` shows of any order of clicks, keys and answers:

- `OneAtATime`: one question, one menu, one pane at most, whatever was opened and dismissed.
- `QuestionIsAboveItsButton`: a question ends at its button, although it may have to move and wrap.
- `DialogLeavesNothing`: one backdrop and one handler of a kind while the dialog is open, none
  afterwards, and nothing behind it has the focus.
- `LinkIsForTheOpened`: the dialog's link belongs to the usage point whose menu opened it.
- `LastClickIsKept`: at rest the service has the rating the page shows, with the two exceptions
  its comment names.
- `MouseStaysInRange`, `MouseKeepsTheDate`: without keys no date out of range is selected and no
  browsing changes the selection. With keys both fail (see below).
- `FieldShowsTheDate`: while a picker is closed the field submits the date that was chosen.
- `LinkFollowsTheField`: what is downloaded is the day the field shows, unless browsing changed
  that day, or the same day was typed after it.

`charts` shows of any order of timers and clicks:

- `StopStops`, `ReplayShowsTheLatest`: the replay.
- `ReadingsAreInside`, `YAxisIsUpright`: the fitting of the axes, with the readings for which the
  code's rounding fails excepted by name. A pan moves the axis away from the readings on purpose; it
  belongs to another side of the chart, and these two say nothing of it.
- `PlotDoesNotDrift`: drawing twice for a named axis adds no room.
- `ShowsTheDataInThePlot`, `GridTellsTheTime`, `PageShowsTheLabels`: a drawing against
  `DrawingPromises`. A chart that was toggled shows no line, and bars without an outline. Weekends
  and ticks of days are right to the hour where the clock is not changed on the axis or in the week
  before it, and an hour off at most elsewhere; ticks of months are at midnight always.
- `PanFollowsTheMouse`, `ZoomKeepsThePoint`: what was under the mouse stays under it.
- `OverlayCatchesUp`, `TooltipIsOnThePage`: what is painted beside the plot's own canvas.

**Bounds and why they are enough.** `MaxToken` and `MaxRow` hold back new requests only, so a
request that has begun always finishes. Three token values and one row before the last change
give a grant, its renewal and a change of either on top of each other, with a deletion or a
revocation between any two steps; two threads are every pair of handlers, and no handler depends
on a third. Two tokens under one key need five values in one thread and six to be met again: the
`fair` run has them. Two authorizations under one refresh token need a deletion cut short and two
renewals: `concurrent` also starts there rather than growing to it. Its action constraint `FewRequests`
names what else is held back: token requests beyond the third value in a new deployment, and
anything but token requests in the old one. Period arithmetic
depends on an instant's distance to a midnight in UTC or EST, and the run takes the seconds on
either side of each. Three applications allow an id to be registered, deleted and registered
again beside another.

In `pages` two dismissals (`MaxDismiss`) are one more than a question needs; three requests let a
click overtake a click while an answer is under way; two keys and two dates in the field give an alias
of the month in view and a key or click that meets it; the days are the last of January and
February and the picker may be moved over the months beside them, where lengths differ. In `charts` two starts
make the leak of an interval possible, one zoom and one toggle every order of them with the
timers; readings lie in each gap of the code's rounding; views are whole, zoomed, panned and
panned away, with a chart around each change of the clock; three moves are a short drag, a drag out of the plot and one
with the timer between its moves, and two presses a click after a drag, or a second drag that meets
what the first has left to repaint. One turn of the wheel may come at any point of it.

**Symmetry.** Threads, browsers, ids, secrets, tabs, clients and the two gas meters are
interchangeable in the runs that say so; none of these runs checks liveness.

**Deadlock.** It is checked except in `fair`, `period`, `pages`, `charts` and `todays_usage`:
without failures and restarts a deployment that has used its token values may have nothing left
to do, time in the period and window runs ends with the last instant, and a page may be at rest
with its bounds used up.

**Fairness.** `FairSpec` asks weak fairness of each thread's `Step`, not of `Begin`: a servlet
thread runs on until its request is done, and nobody is obliged to send a request. Failures are
left out, for a revocation that an exception ends has indeed not taken effect. With two threads
the property is not claimed: an end date change that read the authorization before it was
revoked merges the active status back (Third parties 187). The pages' properties are about
moments at rest and need no fairness.

**What the violated runs mean.** Each is a behaviour of the code that a text of the repository
rules out; `findings` in PROJECT.json quotes it. `orphan_token` follows from the order of the
writes, `registration_twice` from looking before inserting, `registration_again` from deleting
one of two records (Spring's `updateClientDetails` never writes the secret), `todays_usage` from
`Calendar.HOUR`.

Seen while modelling, with no run of their own. On the server:

- A new consent after the token expired is taken for a refresh (Enhancer 208-222), because the
  token services reuse the refresh token; `FoundMeansRefreshRequest` states what the comment
  there assumes.
- A token request can be posted to the token endpoint without the portal: a password grant made there, or two
  clicks at once, or one while an expired token's refresh token is still known, adds an authorization beside
  an active one of the same customer and client (`oauth-AS-config.xml:26`, Confirmation 186).
- Any failure of the lookup of a client id is ignored (Registration 86), and the id is registered again.
- Requests are answered after the date the confirmation page promised, for three time zones meet
  (`NotAnsweredAfterPromised`).
- In the EST evening the start of a new period is the next EST date, and the filter, which looks
  at the end only, already answers.
- The form that the registration page's Edit finds posts to a handler that rejects ids that exist.
- With two tabs, approving one page grants what the other one showed last.
- The window "Current Week's Usage" begins on the Saturday the week ends with (`WeekHasBegun`).

On the pages:

- Date picker: the comma of a written date is also the separator of several dates, so that a
  typed date is read as today (656); an arrow key checks the date beside the one it selects, and
  Enter may select a date out of range; after Enter, Tab and Escape the month in view is the
  selected date, and browsing moves it; `dmd/index.jsp` appends `published-min=` once more each
  time a date changes, and without a second date its `utcDayBeginTime(undefined)` fails; west of
  EST the first field of "Download My Data" is loaded with the day before, for `update` is handed
  midnight EST and shows the local day of it; a date that browsing has changed is told to nobody,
  nor is it when it is then typed, so that the link keeps asking for the old one.
- Questions: the arrow is never moved, as it is looked for by another class; each showing binds
  one more dismissal (`bootstrap-confirmation.js:51`); the height of a question that was moved is
  not measured again.
- Dialog: a picker's `hide` uses up the dialog's own `.one('hide')` (`bootstrap-modal.js:242`),
  one Escape closes both (120), and the focus given back to the opener is taken away again.
- Feedback: a late answer paints over a click; leaving the stars empties those whose rating came
  from the service (`bootstrap-rating-input.min.js:79`); `application.js:29` keeps every content
  under the key `srcKey`.
- Chart: a meter reading without readings makes the page's script fail; a second start leaks an
  interval (`show.jsp:167`); the y axis stands on its head for a smallest reading from 0.625 to 1 or
  from 1.875 to 2 kWh; resizing during the animation leaves readings outside for good; toggling loses the width of the
  lines and the alignment of the bars (`show.jsp:219`), so that a line chart made of bars shows only its area; the
  last bar of a chart whose axes have no name comes out beyond the axis when the values after it are
  missing; zoom is never reset by a replay; a crosshair stays painted while a range is selected
  (`jquery.flot.crosshair.js:113` hides it without a redraw; `HiddenCrosshairIsGone`); a button
  released outside the window leaves text selection blocked; highlight and tooltip stay for a
  reading that a replay took away until the mouse moves; the tooltip tells the time of day, not
  the day.
- Clock changes: the time axis counts weeks and days in steps of 24 hours (`show.jsp:261`,
  `jquery.flot.time.js`), so that after a change weekends and day ticks are an hour off midnight, and a day's label can come twice.
- Labels of the time axis repeat: on an axis of 24 to 48 hours they tell the hour alone
  (`jquery.flot.time.js`, `tickFormatter`), and an axis of one calendar year begins and ends with
  a "Jan" that tells no year, for flot's year is 365.2425 days long. `GridTellsTheTime` says how far
  apart equal labels are.

## 4. Proofs

Of the 39 properties that the passing runs check, 37 are proved for every value of the constants,
and of one more the part that does not depend on how fractions are rounded:

| Theorem | Statement | Inductive invariant |
|---|---|---|
| *Authorization lifecycle, any number of threads* | | |
| `AuthorizationLifecycle_proofs!TypeCorrect` | `Spec => []TypeOK` | `TypeInv`: types, and what a thread past its first read holds |
| `AuthorizationLifecycle_proofs!TokensMeanOne` | `Spec => []TokenMeansOne` | `TokenInv` |
| `AuthorizationLifecycle_proofs!ServedUnderOwn` | `Spec => []ServedUnderOwnAuthorization` | the same |
| *one request at a time: `AuthorizationRefinement_proofs`* | | |
| `RenewalIsUnique` | `Spec => []RefreshTokenRenewsOne` | `SerialInv`: what the request has read is still so |
| `RevocationIsFinal` | `Spec => RevokedStaysRevoked` | the same |
| `HandlersKeepTheContract` | `Spec => ContractKept`: the refinement | the same |
| *Authorization period: `AuthorizationPeriod_proofs`* | | |
| `PeriodIsTyped` | `Spec => []TypeOK` | `PeriodInv` |
| `PickedIsShown`, `PickedIsEnforced`, `NewGrantInForce` | the period properties | `PeriodInv` |
| `SavingIsHarmless` | `Spec => SavingKeepsThePeriod` | `SavedInv`: a period ends five hours into a day or in the last minute of one |
| *Registration: `ThirdPartyRegistration_proofs`* | | |
| `TypeCorrect` | `Spec => []TypeOK` | `FormInv`: a submitted form has an id and a secret |
| `ClientsHaveApplications` | `Spec => []DetailsMatchApplication` | `KeptInv`: who is about to write client details has persisted their application, or it was deleted |
| `ApplicationsAreSole` | `Spec => []RegisteredOnce` | `SoleInv`: two submissions under way with one id are recorded as overlapping; who has passed the check found no application, or its id is recorded as missed |
| `ConfirmedWorks` | `Spec => []ConfirmedIsStored` | `StoredInv`: while no submission of an id overlaps another, no lookup missed it and none of its applications was deleted, it has no client details before its submission adds them, and none is updated |
| *Consent: `ConsentSession_proofs`* | | |
| `GrantsWhatWasShown` | `SpecCustomer => GrantedWasShown` | `ShownInv`: the request in the session is the one shown last |
| `OrderlyIsOncePerKind` | `SpecCustomer => []OrderlyOncePerKind` | `HabitInv`, that is `OrderlyInv` of the orderly customer: one tab is away from home at most, and every page leads to a kind that is still free |
| *Pages: `PortalPages_proofs`* | `PortalSpec => []...` | `PortalInv`: of each page, while it is shown, |
| `QuestionIsPlaced`, `OneQuestionMenuAndPane` | `QuestionIsAboveItsButton`, `OneAtATime` | `QuestionInv`: a question on the page is placed, and it is the only one |
| `DialogCleansUp`, `DialogLinksWhatWasOpened` | `DialogLeavesNothing`, `LinkIsForTheOpened` | `DialogInv`: as many backdrops and handlers as the dialog's state says, and no menu is open over the dialog |
| `LastRatingArrives` | `LastClickIsKept` | `RatingInv`: what is under way is what the page shows |
| `MouseSelectsWhatIsOffered`, `MouseLeavesTheDate`, `FormSubmitsTheDate` | `MouseStaysInRange`, `MouseKeepsTheDate`, `FieldShowsTheDate` | `PickerInv`: an empty field selects nothing, a closed picker's field shows its date, and without a key no date is out of range or is the month in view |
| `LinkAsksForTheField` | `LinkFollowsTheField` | `PickerInv` with the property |
| *Chart: `ChartPages_proofs`* | | |
| `StopsForGood` | `Spec => []StopStops` | `StopInv`: while nobody started twice, the one interval is the one `timerid` names |
| `ReplayIsLatest` | `Spec => []ReplayShowsTheLatest` | `ReplayInv`: the replay's data are the readings that end at its place |
| `AxisStaysUpright`, `ShownIsInside` | `Spec => []YAxisIsUpright`, `Spec => []ReadingsAreInside` | `FitInv`: the extent covers the data, and the axes the extent or all readings |
| `PlotStays` | `Spec => PlotDoesNotDrift` | `RoomInv`: a named chart has a fixed room, and the axis asks for no more |
| `DragsExactly` | `PointerSpec => []PanFollowsTheMouse` | `DragInv`: the timer pans only while the drag goes on, the scale is the drag's own unless somebody zoomed, and the pans so far add up to the way from where the drag began |
| `ZoomsAroundTheMouse` | `PointerSpec => ZoomKeepsThePoint` | `ExactInv`: the scale divides by six once for every turn that is left |
| `OverlayIsCurrent` | `PointerSpec => []OverlayCatchesUp` | `PaintInv`: without a redraw due nothing stale is painted, even where nothing was |
| `TooltipFits` | `PointerSpec => []TooltipIsOnThePage` | the property itself |
| *Drawing: `ChartDrawing_proofs`* | `SideSpec => []...` | |
| `GridIsTrue` | `GridTellsTheTime` | `GridInv`: shades and ticks are those of the view |
| `LabelsAreShown` | `PageShowsTheLabels` | `PageInv`: one position of a text at a place and one original of a text; those that are active are the labels'; a named axis has its room before the data are drawn |
| `BarsAreShown` | `BarsShown`, the bars' half of `ShowsTheDataInThePlot` | `BarsInv`: the rectangles show the points so far |
| `LineIsShown` | `LineShown`: no piece but parts of those between neighbours, and each that lies in the plot whole; of a toggled chart no line at all | `TraceInv`: the same of the points so far; the line ends where the path does, and none is left by the area |
| `LinesStayInside` | `LinesInside`: no line and no area leaves the plot | `LinesInv`: neither does the path that is open |

**Tokens.** `TokenMeansOne` alone is not inductive: a thread that is about to store a value, or
that holds an entity it read long ago, may bring a meaning back that no table records any more.
`Meanings` therefore ranges over tables and threads, and `TokenInv` adds three facts: a refresh
token belongs to one party wherever it is recorded (the enhancer finds an authorization by it and
gives it the new token), every value that is recorded or held was issued (is below `nextToken`,
so the next one is new), and a request about to search by or store a refresh token has one. From
there each step only moves or drops meanings, or adds one under a value never used.

**One request at a time.** Every handler writes back an entity that it read some steps before.
`SerialInv` says that this does no harm: a request's entity is a row of the table but for what
the handler itself has set (`Current`), and what it has looked up before it creates an
authorization is still so (`Checked`). Failures, restarts, expiring tokens and new days come
between any two steps; none of them writes a row. The refinement goes action by action: what
writes a row, or makes a thread begin or cease to serve, is an action of `AuthorizationContract`,
everything else a stutter. With two threads `Current` breaks, and with it all three theorems;
their hypothesis is therefore `Worker = {w}`.

**Period.** `PeriodInv` says to the second where a period ends: at the last minute of the picked
UTC day after a grant, five hours later after a change, the offset the change adds. The proofs
unfold the arithmetic once, in lemmas about `\div` by the length of a day, for all instants and
for every server zone in `0..daysec-1` west of UTC (`ZoneAssumption`); the run takes EST.

**Consent.** `OrderlyInv` is why a selection need not look again: while one tab is open and no
code is waiting, nobody adds an authorization, so the kind that was free when the page was
rendered is free when the code is exchanged (`StillFree`). With two tabs that breaks, and so does
`OncePerKind`.

**Pages.** The methods of a widget are operators, and there is a lemma on each: `Placed` for a
question, `Whole` and `MenusApart` for the dialog, `Honest` (the picker's object is well formed
and an empty field selects nothing) and `Moused` (as it is without keys: what is selected is in
range, and no selected date is the month in view) for a date picker. An action is a composition
of these methods, and its proof one of their lemmas. `MouseStaysInRange` rests on the calendar's
own arithmetic: the cell that was greyed or offered for a day names, by its year, month and
number, that very day. What the recursive function `grep` returns is proved for
sequences of any length by induction in the form of a set (`Induction`).

Two statements did not survive their proof, although the run had found nothing: `CASE`s of two
overlapping conditions in `DatePicker` (an arbitrary choice, where the code takes the first), and
`LinkFollowsTheField` without `"retyped"` (browsing has changed the date behind the listener's
back, and typing what the field then says changes nothing any more). Both were corrected.

**Chart.** `FitInv` is needed because only some draws fit the axes. A chart whose axes have a
name is fitted by every draw, to the extent of what it shows (`Spans`), and `Covers` says that
the extent is no smaller than that; a chart without a name is fitted when the page is loaded,
zoomed or resized, and later draws may show more: its axes must enclose all readings
(`Encloses`), which holds except after a resize in the middle of an animation (`done.partly`).
The ticks and roundings enter by bounds only (`SnapKeeps`, `TickSizeIsPositive`). `Rounded` names
the smallest readings for which the code's rounding turns the axis over. The panning proof rests
on `PansAdd`: two pans in a row are the pan over both ways, since the scale does not change while
nobody zooms. `PlotStays` follows a chart through every function that draws it: each leaves the
room it has (`Fixed`) because `axislabels` gives the axis a width that is already there.

**Drawing.** `GridIsTrue` is about what four recursive functions return, for axes of any length in
any zone of `Zones`, with summer time or without. The local clock is the day number's but for an hour (`LocalParts`,
`AnHourOff`), two shades or two ticks of days under one offset are whole days apart
(`ShadesByOneClock`), and only one change of the clock away an hour may be missing. It rests on the calendar: days, months and years are what the day number says
(`Calendar`'s arithmetic unfolded once, for all days), a month or a year ahead is so many days
ahead, and from there that ticks are in order, that none is left out and how far apart two with one
label are. The functions are followed by induction in the form of a set, as `grep` is.
`LabelsAreShown` takes `removeText`, `addText` and `render` as operations on a set of positions
(`OneOfEach`, `Shows`); the places of the labels are inside their boxes because a tick inside an
axis is a part of the way along it. `LinesStayInside` needs of a cut only that it falls between the
ends of the segment (`CrossIsAmid`), so that what was inside one pair of edges stays inside when it
is cut at the other. `LineIsShown` needs besides that `plotLineArea` is finished with its path when
`plotLine` begins: at the end of the series no area is open (`SweepInv`), since one that is open has
a point to turn at.

Three statements did not survive their proof either: two ticks of one label were said to be a year
apart, which a day's axis refutes; a label that comes twice was placed twice in the model, where
the code counts it; and ticks outside the axis, which flot's generators return, were labelled.

**Assumptions.** What the modules assume of their constants (`ASSUME`, evaluated by TLC in each
run), in particular `PortalAssumption` (numbers are integers, a typed text's dates are a
sequence, there are a first tab and an entry in a menu) and `PageAssumption` (readings are a
sequence in the order of time and not empty; steps, window and widths are numbers). Beyond these
a theorem says what it needs:

- `CanBeDrawn` of a drawing (assumed in `ChartPages` as `DrawingAssumption`, so that each run of a
  chart evaluates it): what is shown is points with gaps in views that are not empty, the plot has
  room for at least one tick and less than six months between two, and the chart is large enough for
  what stands beside the plot and for the name of the axis; and the browser's zone is one of `Zones`
  (whole hours, and its clock is not changed at midnight or the hour before it);
- one thread (`Worker = {w}`) and at least one day (`MaxDay > 0`) in
  `AuthorizationRefinement_proofs`; the refinement also that ids are the positive numbers
  (`RowId`, which the run bounds);
- for the pointer that places are integers and the plot lies within the window (`Places`,
  `Inside`: `MCCharts` assumes them of its constants);
- `LinkAsksForTheField` that midnight EST is within the customer's own day (`Offset` from -18 to
  5) if the first field of "Download My Data" is among the fields: farther west it is loaded with
  the day before (section 3);
- `ZoomsAroundTheMouse` that the axis is measured in a unit that the turns divide (`Divides`: the
  scale is a multiple of six to the number of turns). The code's coordinates are floating-point
  numbers; whole units take the place of their precision.

**Model-checked only.** `RevocationTakesEffect` is liveness, which is out of the prover's reach.
`ShowsTheDataInThePlot` says of lines and areas which whole hours and sixtieths of a unit are
painted: that is exact only where every cut falls on one, as in the run's figures (their points
are 60 hours apart), and not a statement about every figure. What is proved in its place are `LineIsShown`
and `LinesStayInside`; that an area is filled between the values and the base line is checked only.

## 5. Not modelled

- Authorizations written through POST and PUT of `/resource/Authorization`, and what the answered
  resources contain.
- The caching of approvals beyond its effect on the confirmation page, and the unsynchronized
  flag in `EspiUserApprovalHandler` (a delay, no further state).
- `SimpleDateFormat` shared by requests: what a race inside it returns is the JDK's.
- The roles of the filter (140-443): a decision table over paths, without state.
- Batch upload, notification, the usage points of a subscription and the REST resources: each
  handler is one call or two of a service of OpenESPI-Common, whose window of changes, lists and
  transactions decide what happens and are not in the repository.
- `DateUtil` and the formatted variants of `DateController`: no state.
- CORS headers, page controllers, management scripts, WADL: no state, or only input and output.
- Entities and services of OpenESPI-Common, beyond how the repository uses them.
- Of the date picker: ranges of two pickers, several dates, the inline picker, languages. Of the
  tooltips: delays, other placements, pop-outs. Of flot: several series and axes, stacks,
  categories, transforms, points, gradients, the legend. No page asks for them.
- Colours, widths of lines and the wording of labels, except where a property is about them.
- Scripts that no page loads.

## 6. What is left

The outline of an area could be followed along the edges of the plot as `LineIsShown` follows the
line. The findings and the properties that hold of one thread mark where the server would need
transactions; a model of two threads with such transactions does not describe this code. The
server's remaining components (section 5) need the source of OpenESPI-Common.

# A TLA+ model of gocpi

gocpi (`src/`) is a Go toolkit for OCPI, the protocol by which charge point
operators and mobility providers exchange locations, sessions, tariffs and
charge detail records (CDRs). It has two halves: a **transport** (an HTTP client
with retries, a server with a middleware chain, an envelope that carries a
status code of its own) on which generated modules for OCPI 2.1.1, 2.2.1 and
2.3.0 rest, and a **pricing engine** that computes what a charging session costs
and checks the totals of a CDR, together with a browser simulator that runs the
engine compiled to WebAssembly.

This directory holds TLA+ modules of both halves, TLC configurations that check
them on small instances, and TLAPS proofs of what holds for every instance.
`PROJECT.json` is the index: which definition models which lines, which run
checks which property, which mutation of the code each property finds.

## 1. Inventory

| Component | State | Operations | Model |
|---|---|---|---|
| core client (`core/client.go`) | per call: the attempt, `lastErr`; the context | `Do`: send, retry with backoff, return | `OcpiCall` |
| core server (`core/server.go`) | the route table | recover, context, auth, metrics, mux, handler | `OcpiCall`; the mux in `Mux`, `Platform` |
| envelope, status (`core/envelope.go`, `core/status`) | none | `Decode`, `WriteResponse`, `WriteError` | `OcpiCall` |
| auth, routing (`core/auth.go`, `routing.go`) | the application's token store | `DecodeToken`, `Lookup` | its outcomes in `OcpiCall`, its tokens in `Registration` |
| pagination (`core/pagination.go`) | the next page's URL | `Paginate`, `parseNextLink`, `PageOpts.Query` | `Pagination` |
| handshake (`handshake/`) | the tokens of both platforms | `Discover`, `Register`, three routes | `Registration`; its routes in `Platform`; its POST handler is the handler of `OcpiCall` |
| generated modules (`v211/`, `v221/`, `v230/`) | routes on the application's mux | typed clients, `RegisterXxx`, role presets | `EndpointsV211`, `EndpointsV221`, `EndpointsV230`, `Endpoints`, `Platform` |
| code generator (`internal/codegen/`) | none | paths and routes of an operation, roles | `Codegen` |
| pricing engine (`core/pricing/`) | a running snapshot, ledgers, the fees seen | `Calculate` | `PricingTariff`, `PricingEngine` |
| verification (`core/pricing/verify.go`) | none | `Verify` | `PricingVerify` |
| adapters (`v221/pricing.go`, `v230/pricing.go`) | none | CDR and tariff to the engine's input | `CdrAdapter` |
| cost series (`web/src/lib/timeseries.ts`) | the points so far | `buildTicks`, `truncateCdr`, `computeCostSeries` | `CostSeries` |
| simulator (`web/src/App.tsx`) | form, raw JSON, results, request ids, timers | user events; debounced run, series and URL effects | `Simulator` |
| engine loader (`web/src/wasm/loader.ts`) | one memoized promise | `loadEngine` | `Simulator` |
| URL state (`web/src/lib/urlstate.ts`) | none | `encodeState`, `decodeState` | what they restore, in `Simulator` |
| form serialization (`web/src/lib/serialize.ts`) | none | `serialize`, `deserialize`, `reportMoneyToCdr` | `SimForm` |
| wasm bridge, UI, the data types of the generated modules, schema and metrics adapters, in-memory transport, examples | none that matters | | not modelled (section 12) |

How they interact: a generated client method is `Client.Do` followed by
`Decode`; a generated route decodes the request, calls the application's handler
and answers with `WriteResponse` or `WriteError`; the chain of `Server.Handler`
surrounds it. An application registers several generated interfaces, of several
roles and versions, and the handshake on one mux, and advertises them in the
version details its peers read; a peer calls them at the advertised URLs.
`Register` is three calls. A list is a call for every page, each at the URL the
page before it links to. The simulator's run effect calls
`Calculate` and `Verify` through an adapter and the wasm bridge; its series
effect calls `Calculate` once for every tick of `computeCostSeries`.

What is hard in it:

* **the retry loop over an unreliable network.** The client cannot tell a lost
  request from a lost answer, so copies of a request outlive the attempt, and
  even the call, that sent them; there is no idempotency key.
* **three layers that report errors**: the transport, the HTTP status and the
  envelope's status code, with middleware that may answer before, instead of or
  after the handler.
* **routes that overlap**: a platform composes patterns nobody looks at together,
  with wildcards where others have literals.
* **a registration whose answer is lost**: the peer has issued a token the caller
  does not know, and may have dropped the one it comes back with.
* **a list that changes while its pages are read**, in windows whose bounds lose
  their fractions of a second.
* **session-wide rules over charging periods**: steps are rounded once over a
  ledger that spans tariffs, a fee is due once per element, bounds hold for one
  tariff only, restrictions look at what came before a period.
* **prefixes of sessions**: the series prices states of a session no CDR is ever
  in, and expects the engine to agree with itself.
* **asynchronous results in the simulator**: three effects with dependency lists
  of their own, answers of superseded runs, a promise that stays rejected, a page
  that is reloaded between an edit and the link's update.

What makes each component correct is stated with its module in sections 3 to 8;
`PROJECT.json` lists every hazard with its line and the properties for it.

## 2. Modules

| Module | What it is |
|---|---|
| `RemoteCall` | what the transport promises its user: at-least-once execution of what is reported as done; `OcpiCall` and `Registration` refine it |
| `OcpiCall` | the exchange itself: `Do`, `Decode`, network, gateway, server; refines `RemoteCall` |
| `OcpiCall_proofs` | the inductive invariant of `OcpiCall`, its safety properties and the refinement |
| `Mux` | the route table of `core.Mux`: which patterns conflict, which one serves a request |
| `Codegen` | from an operation of the description files to the client's path and the server's route |
| `EndpointsV211`, `EndpointsV221`, `EndpointsV230` | the generated interfaces of a version and its role presets |
| `Endpoints` | all of them, by version |
| `Platform` | an application that assembles them on one mux: extends `Codegen` |
| `Platform_proofs` | the routes of any platform: unambiguous, reached by their calls, and colliding only where two interfaces must |
| `Registration` | `Register` against a peer, over calls whose answers get lost; refines `RemoteCall` |
| `Registration_proofs` | its inductive invariant, its safety properties and the refinement |
| `Pagination` | `Paginate` over a list that changes |
| `Pagination_proofs` | nothing missed, nothing repeated, links that go forward, over lists and pages of any size |
| `PricingTariff` | restrictions, snapshots, the components that apply to a period |
| `PricingEngine` | `Calculate`: extends `PricingTariff` |
| `PricingVerify` | `Verify`: extends `PricingEngine` |
| `Pricing_proofs` | the engine for any input: its rounding, sums, sorting and types, which component prices a period, what a price depends on |
| `CostSeries` | the chart's loop over the engine: extends `PricingVerify`; carries the properties of the engine, which it runs on every prefix of a session |
| `CostSeries_proofs` | the chart, the engine and its verification, for any session, unit and cap |
| `CdrAdapter` | the entry points of both versions in front of the engine: extends `PricingVerify` |
| `CdrAdapter_proofs` | the resolution of tariff ids, and all properties of the adapters and of the form, for any CDR |
| `SimForm` | the simulator's form, from a CDR and back: extends `CdrAdapter` |
| `Simulator` | the simulator's effects, results and link, over the engine loader |
| `Simulator_proofs` | the inductive invariant of `Simulator` and its safety properties |
| `MCOcpiCall`, `MCPlatform`, `MCRegistration`, `MCPagination`, `MCCostSeries`, `MCCdrAdapter`, `MCSimulator` | the instances TLC checks |

An operator whose name and comment say "mutant" is not part of the model: it is
a plausible bug, kept next to the definition it would replace, that the property
named in `PROJECT.json` finds.

## 3. The transport: `OcpiCall`

A call `c` runs `Do` and then `Decode`. `pc[c]` is where the calling goroutine
stands, `attempt[c]` is the loop variable `i`. Every attempt `k` is a copy of the
request with a life of its own, `srv[c][k]`: `flying`, `lost`, `serving` (a
handler runs) or `over`; `reply[c][k]` is the answer on its way back. What the
handler did is in `executed[c]` and `store` (the last writer). A copy is not
recalled when the client gives up on it.

| Action | Code |
|---|---|
| `Begin`, `Wake` | `client.go:72-100`, first and later iterations; the timer of `sleep` |
| `RejectLocally` | `client.go:61-65`, `82-85`: marshal and URL errors |
| `TransportError` | `client.go:100-104`: `doer.Do` fails, wherever the copy is |
| `Receive` | `client.go:100-111`: observe, then retry or return |
| `SleepCancelled` | `client.go:72-76`, `130-139` |
| `Decode`, `ReadBodyFails` | `envelope.go:29-59` |
| `RejectAuth`, `RejectRoute` | `server.go:128-150`, `178-197` |
| `Dispatch`, `Execute`, `HandlerSucceeds`, `HandlerFails`, `HandlerPanics` | a handler such as `handshake.go:77-89` inside the chain of `server.go:67-74` |
| `Cancel`, `Lose`, `GatewayAnswers` | the application's context, the network, a reverse proxy: outside the repository |

A response is a pair of HTTP status and envelope code, because that is all
`Do`'s retry test and `Decode` look at; an empty body and a body that is no
envelope have codes of their own. The gateway may answer for the server at any
point of its work, so the client may retry while the first copy is still being
served. `HandlerPanics` has three replies, according to how much the handler had
written before (nothing, its header, a whole envelope).

Properties:

* `OkMeansExecuted`: what the caller is told was done was done, by the copy whose
  answer it got.
* `RepeatedOnlyWhenInDoubt`: a second execution follows only an answer that was
  not heard, or heard as retryable.
* `FinalAnswerIsDelivered`: the answer to the last attempt reaches the caller;
  the loop makes no error of its own out of it.
* `MetricsMissOnlyPanics`: what is missing in the server's metrics; whatever was
  done, and every success the client saw, is in them, but for panics.
* `StragglersComeFromErrors` (proved only), `NoWriteOvertakesALaterOne`: a call all of whose
  copies were answered leaves nothing behind that could undo a later call. This
  is the part of "no lost update" that a client without idempotency keys can
  give; after a transport error, or behind a gateway that answers early, it
  cannot, and the model has those behaviours.
* `CancelledCallsReturn` (liveness): a call whose context is done returns.
* `RemoteSpec`: the exchange implements `RemoteCall` (`state` from `pc` and
  `outcome`, `done` from `executed`).

Fairness is assumed of the client only: its timers fire, a started `Decode`
finishes or fails, and a transport returns once its request's context is done
(`net/http` guarantees that). Nothing is assumed of the network or the peer;
without a context that ends, a call may wait forever, as the code may with
`http.DefaultClient`.

## 4. Assembling a platform: `Codegen`, `Endpoints`, `Platform`

`Mux` is `core.Mux` over the library's matching rules (external): the most
specific pattern that matches serves, and a pattern that overlaps another one
without either being more specific makes the registration panic. `Codegen` gives
each operation the path its client calls and the route its `RegisterXxx`
registers; the three `EndpointsV...` modules list the operations of every
generated file, in the order of registration, with what they are called with.

`Platform` has the table, the interfaces registered so far (which is what the
version details advertise) and the route that panicked, if one did.

| Action | Code |
|---|---|
| `MountHandshake` | `handshake.Mount`, `handshake.go:58-91` |
| `RegisterInterface` | any generated `RegisterXxx`; `RegisterCPO`, `RegisterMSP` and `RegisterHub` are several such steps at one base |

A registration that panics leaves the routes before the refused one in the table.
Properties, over every call a generated client can make to what is registered:

* `CallsReachTheirHandler`: a call reaches the operation of its name, with its
  arguments, next to whatever else is on the mux, where patterns do overlap
  (`{version}` of the handshake and any one-segment path below it).
* `IdsMayLookLikeRoutes`: an id spelled like a literal of the module's own routes
  diverts nothing, unless both sides of a module are at one path.
* `WrongSideNeverAnswers`: `Peer.Endpoint` may hand a client of one side of a module
  the URL of the other (section 11). No operation of the wrong side, of any
  version, answers such a call, whatever its arguments: it is refused, or, for a list,
  taken by the handshake for a version that does not exist. Locations, charging
  profiles and payments are excepted, whose sides have routes of the same shape, and
  bookings, where a sender's calendar URL is, to the receiver, that of a booking whose
  country code is `booking_locations` (`Mistakable`); leave bookings out of that list and
  the run finds this.
* `OnlyTwinsCollide`: registering panics for two interfaces of one module at one
  path only - the same twice, or the two sides of locations, charging profiles or
  payments.

`WordsAssumption`, `InterfacesAssumption` and `BoundAssumption` say no more than
that literals are not spelled like wildcards and that interfaces are lists of
operations. The proofs of `OnlyTwinsCollide`, `IdsMayLookLikeRoutes` and
`WrongSideNeverAnswers` need more, and `Apart` says what:

* no segment of a base is named like a module (`BasesApart`), and no module like a
  segment of the handshake or a version number (`NamesApart`);
* what is posted one segment below its module has a literal there, as a command
  has (`PostsApart`);
* no two operations of an interface compete (`OperationsApart`), nor two of the two
  sides of a module that is no twin, in whatever versions (`SidesApart`), and but for
  bookings no path is one of both sides (`SidesDistinct`);
* in an interface, in two versions of it and in twins, a literal never stands where
  an overlapping operation has a parameter (`ShapesAlike`).

Only the first is about the application's choice. The others are facts about the
description files: `MCPlatform` states `ApartAssumption == Apart` for all generated
interfaces of the three versions, and TLC evaluates it on every run of `MCPlatform`.

## 5. Registration: `Registration`

`Register` is two GETs and a POST. The GETs change nothing, so each is one step;
the POST has its attempts, and every attempt a copy with a life of its own, as in
`OcpiCall`. Tokens are numbered as the peer issues them, 0 is token A.
`valid` is what the peer's store accepts, `party` whose credentials it keeps:
`OnRegister` and the store are the application's, so a step of `OnRegister` issues
a fresh token and either keeps the tokens accepted so far or drops them, which is
what the credentials module of OCPI asks for and the repository leaves open. It may
also fail, with an error or a panic, after any part of that: the handler and
`recoverMiddleware` answer 500 either way, and a token that was issued by then may be
accepted without ever having been told to the caller (`IssuePartly`).

| Action | Code (`handshake/handshake.go` unless named) |
|---|---|
| `Register`, `GetVersions`, `GetDetails`, `GetFails` | `Discover` and 134-148, the steps before the POST |
| `AttemptFails`, `ReceiveError` | `core/client.go:100-113`: retried, or the end |
| `Receive`, `DecodeFails`, `ReceiveRefusal` | 148-156: the peer's credentials, or an error |
| `Refuse`, `Dispatch` | `authMiddleware`, and the route |
| `OnRegister`, `OnRegisterFails` | 77-89 with the application's callback |
| `Lose` | the network |

Properties:

* `BothSidesAgree`: the Peer that is returned has a token the peer issued to this
  registration, in an answer that was heard (`PeerIsOfThisRegistration`); it is
  accepted and the peer keeps this registration's credentials. The one exception is
  really there: an `OnRegister` that ran, to its end or to an error, for a copy whose
  answer went `Unheard`; such a copy may register again at any later time. One that
  failed and was heard to fail is no exception: the retry makes up for it.
* `LockedOutOnlyInDoubt`: the caller ends up without an accepted token only when the
  answer of an `OnRegister` was not heard, or was a 500 and no registration has
  succeeded since. Both happen: a peer that has dropped old tokens refuses the retry
  of the POST.
* `StrayTokensAreInDoubt` (proved only): a token the peer accepts and the caller
  does not know was issued to a POST whose answer went unheard, is on its way or was
  a 500.
* `RemoteSpec`: a registration is one call of `RemoteCall` (`state` from `pc` and, for
  the earlier ones, what was heard; `done` from `given`): a Peer is returned only
  after the peer registered the caller, an attempt registers at most once, and what
  was returned is not taken back.
* `RegisterReturns` (liveness): under fairness of the caller's own steps, among
  them the failure of an attempt. That is a context with a deadline; without one
  a call may wait as long as the peer keeps the connection.

## 6. Lists: `Pagination`

The owner's objects have the time of their last update; the client reads windows
of that time, one list after the other, each from where the last one that came to
its end began to be read. `Query` cuts times to whole seconds
(`pagination.go:32-47`), `Serve` is the generated endpoint over the application's
list, `ParseNextLink` reads the `Link` header, and `Fetch`, `Yield`, `Break`,
`EndOfPage`, `FetchFails` are `Paginate`'s loop (`pagination.go:136-160`). How the
owner orders and slices its list is not in the repository (external): by id, by
offset; it may also link back to the start of the list, from any page (`"back"` in
`LinkForms`), and `Paginate` follows. The fetch function is the application's, too;
the generated list call takes `PageOpts` only, so it must follow the next URL itself,
as the fetch function of `core_test.go:104` does, and the model's does.

A page is the set of its objects and is yielded in the order of their ids:
`Window` is what a request selects at the moment it is served, `Position` how
many of it come before an object, and a page has the positions from the
request's offset on. `LinkForms` is how the owner writes the links: with
`"plain"` ones `parseNextLink` finds the next page.

* `NothingMissed`: once lists came to their end, the client has the current
  version of everything it will not ask for again: rounding leaves no gap between
  windows, failed and broken-off lists do not count. The exception is the hazard
  of offsets: an object that leaves the window under the reader moves the next
  one across the page boundary.
* `RepeatedOnlyAfterGrowth`: and an object is repeated only when one entered, or when
  the owner linked back.
* `LinksGoForward`, `LinksStay` (proved only): a next link has an offset behind the one
  that was asked for and below the number of objects, and only a fetch sets one. So
  no page is asked for twice in a list, however it changes meanwhile, unless the
  owner links back: `Paginate` itself has no guard against that.
* `CancelledListsEnd` (liveness): a list whose context is cancelled (`Cancel`) ends,
  also when its links lead in a circle, when it changes forever or when the owner
  never answers. Fair are the iterator's own steps and the failure of a call whose
  context is done (`net/http` guarantees that). Nothing makes an owner answer, and
  `http.DefaultClient` has no timeout, so that an uncancelled list need not end, as
  in the code.

## 7. Pricing: `PricingTariff`, `PricingEngine`, `PricingVerify`, `CostSeries`, `CdrAdapter`, `SimForm`

`Calculate` is a pure function, so it is an operator, built from one operator per
function or phase of the code. Its inputs are typed (`Inputs`, `EngineOptions`): the
sessions of an instance are any of these. A pointer that may be nil is a set with
at most one element. Decimals are integers at a fixed scale: volumes in Wh and seconds
(`Base` per kWh and hour), before-tax amounts at four decimals as `roundOCPI`
leaves them, tax and after-tax amounts at six, so that a percentage stays exact.
The ledgers, the snapshot before each period and the set of fees seen are
functions of the sorted periods and not loop variables (a ledger is a function on
the periods that are priced in its dimension); the warnings are a set of
code and subject.

`CostSeries` is the state machine of `computeCostSeries`: a session, the engine's
options, the points so far; each step truncates the session at the next tick and
runs the engine. Because a tick runs the engine on a prefix of the session, its
states are where the engine's own properties are checked, too: every prefix of
every session of the instance, with the period in progress partly done.

Properties:

* `PricedAsInTheMainRun`, `UnpricedPeriodsStillCount`: a period's price components
  are fixed by what came before it, all of it, and never by its own progress; the
  chart finds those of the full run. The exception is the period in progress of a
  metered session, whose power readings the chart scales like volumes.
* `StepRoundsOnce`, `SplittingIsFree`: a step is rounded once over the session,
  so how a session is cut into periods changes neither its cost nor its fees.
* `BoundsOfTheOneTariff`: price bounds, with one tariff in use and with several.
* `CurveFallsForAReason`: the cost of a session can go down as it goes on, but
  only for four reasons (two rates for a dimension, parking by steps that ends
  the rounding of charging time, a second tariff that ends the bounds, scaled
  readings that had the period in progress priced by other components). All four
  occur in the instance. It speaks of sessions that are `Ordinary`: the engine
  accepts negative prices, and negative times, and with these anything falls.
* `PointsAreEven`, `LastPointIsTheFullRun`: the chart covers the session.
* `VerdictsAreJust`: `Verify` accepts what the engine computes, finds what is off
  by more than the tolerance, and does not judge a total whose bounds are
  undefined.

`CdrAdapter` is what stands before the engine: `CalculateCDR`, `VerifyCDR` and
their `WithTariff` forms, in both versions, which are a field of the CDR because
the two files differ in taxes, price limits, bookings and two dimensions only. An
action is one call; `reply` is its answer. The properties say that notation
which should not matter does not: the order of the embedded tariffs
(`TariffsGoByTheirIds`), other embedded tariffs (`OneTariffIsTheOverride`), the
OCPI version (`VersionsAgree`), the order of a period's dimensions
(`DimensionsAreUnordered`, but for an average reading beside one of its bounds,
where the later replaces the earlier), a price quoted with its tax
(`TaxIncludedIsOnlyNotation`, for prices that are whole units of money with it,
`HasGross`: others could not be quoted that way); and that a CDR with the totals of
its own report verifies, through all the conversions (`OwnTotalsVerify`).

`SimForm` has the two conversions of `serialize.ts` as operators, over the CDRs of
`CdrAdapter`: `Deserialize` keeps what the form has a field for (times of day and
energies of a restriction, three dimensions, amounts before tax, totals that are
not zero), `Serialize` writes it back with the totals the form derives, and
`Verifiable` is the CDR the app verifies, with the total of the report when none
was entered. `FormKeepsTheBill`: when the form can express the tariffs of a CDR
(`Expressible` says when; an empty `tariff_id`, which `serialize.ts:150` drops and the
engine refuses, it cannot), reading it into the form and writing it back changes no
price, whatever dimensions were dropped; and a session whose totals nobody stated
is never found to state false ones. Where the tariffs use what the form lacks (power
limits, dates, days, bookings, limits after tax) an edit changes the price; the code
does not warn, and no doc says it would not.

## 8. The simulator: `Simulator`

`scenario` is what the effects of `App` depend on: the form, the JSON text, the
version, the mode, the options (time zone and money decimals), the chart's unit,
the view. A user event replaces some of it and restarts the effects whose
dependencies it touches; a restart takes two request ids (`requestId`, `plotId`),
drops the timer of the effect before and starts one. `runs` and `plots` are the
requests under way, `screen` and `series` what is shown, `url`, `initial`,
`changed` and `saving` the link. A result is named by the inputs it answers.

| Action | Code (`web/src/App.tsx` unless named) |
|---|---|
| `ReplaceForm`, `SelectVersion`, `SelectMode`, `SelectOptions`, `OnJsonChange`, `ShowJson`, `ShowForm`, `SelectUnit`, `Recalculate` | the event handlers, 97-177, and the controls |
| `RunTimer`, `Calculated`, `Verified`, `RunFails` | the run effect between its awaits, 230-318 |
| `PlotTimer`, `Plotted` | the series effect, 339-369; `computeCostSeries` is one step here and `CostSeries` in detail |
| `SaveUrl`, `Reload` | 201-224, and a page opened with `decodeState`'s answer |
| `EngineAnswers` | `wasm/loader.ts`: the one promise is fulfilled or rejected for good |

JavaScript runs one task at a time, with the promise callbacks it sets off, so
`Drained` guards events, timers and the loader: while the engine is there, a run
goes from its timer to its end undisturbed, and requests overlap only while the
engine loads. The timers (250, 300 and 400 ms) fire in any order.

Properties: `ScreenIsCurrent` and `SeriesIsCurrent` (with no request on its way,
everything shown answers what is entered), `VerdictIsOfTheReport`,
`NothingStaleAppears`, `LinkIsCurrent` (a reload restores what is entered, unless
the browser refuses the link, which holds the form and the JSON text (`TooLong`), or
the link's check the form), and
`EverythingCatchesUp` (liveness: timers fire and resolved promises call back;
nothing is assumed of the user or of the network the engine is loaded from).

## 9. Runs

| Run | Instance | Shows |
|---|---|---|
| `call` | one call, `MaxRetries = 2`, a gateway, handler errors that end the call and that are retried | all of section 3 but the ordering of writes, with the refinement and the liveness property |
| `call_writes` | two calls, `MaxRetries = 1`, no gateway, no cancellation, `b` begun after `a` returned | the ordering of writes |
| `platform` | every interface of the three versions and the handshake, four bases, every pair | all of section 4 |
| `platform_prefix`, `platform_discovered` | the prefix the README strips; two roles of one version | violations: section 11 |
| `registration` | two registrations of up to two attempts | all of section 5 |
| `pagination` | two objects, two lists, four ticks, links on and back | all of section 6 |
| `pagination_link` | the same, links with a comma and none back | a violation: section 11 |
| `cost_series` | 962 sessions, each with exact and with rounded totals | the engine, the chart and verification |
| `cost_overlong` | a period after the session's end | a violation: section 11 |
| `adapter` | both versions, ten lists of tariffs, two periods of four and three kinds with any tariff id | the adapters and the form |
| `simulator` | two user events, reloads, an engine that may fail to load, five forms and their texts, a text that is no JSON and one that is an array | all of section 8 |

The bounds and why they are enough. Three attempts are a first, a middle and a
last one, all the retry loop distinguishes; two calls are a writer and a later
writer; `OneAtATime` in `call_writes` leaves the interleavings of the copies,
which are what the property is about, and the proofs cover the other instances
anyway. Two registrations on a mux: a conflict and a dispatch involve two
patterns, so a pair of interfaces brings out whatever a larger platform can, and
the proofs cover any number; the bases are the root, one of the handshake, one of
a version below it and one of a second role. Two registrations with a peer are
the one whose answer is lost, or whose `OnRegister` fails halfway, and the next; two
attempts are one that is retried and the last; its `Versions` list names one version
twice and its store keeps or drops tokens. In `pagination` two objects and pages
of one or two give lists of one or more pages with an object that moves across
the boundary; four ticks of half a second and two lists give windows whose bounds
are cut, with updates in the same second.

A session has two or three periods of five shapes (energy and time,
energy alone, parking, no tariff, time with zero parking), in order, out of
order, or starting late and two at once; lists of two tariffs bring
together step sizes, a time window that wraps midnight, energy and duration
restrictions, components that shadow each other, fees, taxes that agree, differ
or are unknown, and bounds of one or both tariffs; a list with one rate per
dimension is there for the curve, with periods in order. A few metered sessions
have power readings around the limit of an element. A day has 8 minutes and a kWh
4 Wh so that boundaries are met often. `MaxTicks = 4` is met and exceeded by the
sessions of 5 and 6 minutes. The lists of `adapter` have ids that are missing,
equal or unknown, an element the engine refuses, a tax of -100%, bookings and
energy and power restrictions. A price that includes its tax is divided to a whole
unit of money (`NetPrice`) where the code keeps 16 digits; for `TaxIncludedIsOnlyNotation`
it divides exactly.

Two user events give up to three overlapping
requests of either kind: two superseded ones, in either order, and the latest.
The inputs are those the code tells apart: a form that is priced, one without a
tariff, one that claims a total, one with a value the link's check does not know,
one too long for a link, text that is no JSON, and text that is JSON but no object,
which the engine and the chart refuse; a third event was tried on the
full instance (5.4 million states) and violates no safety property. TLC evaluates the
assumptions of the modules on every run.

Deadlock checking is off: a call that has returned, a finished series, a platform
after its last registration and a list that was read stop.

## 10. Proofs

`OcpiCall_proofs` proves, for any set of calls, any number of retries and any
errors that satisfy `ErrorsAssumption`, the safety properties of section 3
and the refinement. `ErrorsAssumption` says that a handler that fails and a gateway
do not send what `Decode` takes for a success. The properties are not inductive
by themselves; `IInv` adds to the type invariant

* `SentInv`: exactly the copies up to the current attempt have been sent, the
  current one not yet while the client sleeps;
* `ReplyInv`: a reply exists only for a sent copy; a copy that is over has a
  reply, and an OCPI success among the replies was sent by a handler that had
  carried the operation out;
* `HeardInv`: what the client heard is a reply; earlier attempts it heard were
  retryable, so it did not go on after a settled answer;
* `OutcomeInv`: the outcome of a finished call is the verdict on the reply to its
  current attempt, or an error the caller can tell from one.

`MetricsMissOnlyPanics` takes one more, `ObservedInv`, inductive relative to
`IInv`: whatever was answered as a success, or carried out and answered by its
handler, was observed; every other reply of a copy that is over is a gateway's or a
recovered panic's.

Each property follows from these; `NoWriteOvertakesALaterOne` and the refinement
take a step from a state in `IInv`, one case per action.

`Platform_proofs` proves, for any bases, interfaces, ids and number of
registrations, that a call whose arguments are no literal of the platform's routes
reaches its own operation with its own arguments (`Dispatch`). The invariant adds to the types
that no two routes of the table conflict: `CanHandle` refused what would have.
From that, two routes that match one path are ordered, and the client's path,
segment by segment, matches the pattern of a route only if that is more general
than its own.

From `Apart` (section 4), and for any number of registrations of interfaces that
satisfy it, follow `OnlyTwinsCollide` (`Collisions`), `IdsMayLookLikeRoutes`
(`Lookalikes`) and `WrongSideNeverAnswers` (`WrongSide`). `Origins` adds where a route comes from: every route in the table, and
every refused one, is that of an operation of a generated interface at a base, or of
the handshake. Two patterns that compete then have their modules at the same place,
since a base contains none, so they have one base and one module, and `SidesApart` leaves
the twins. `AnyArguments` is what `Lookalikes` comes down to and says more: a call to
an interface that is alone at its path arrives whatever its arguments are, because
every route that matches it is more general than its own: a route at another path is
the handshake's `{version}`, if any, and two routes of one interface that overlap
have the same shape (`ShapesAlike`). For `WrongSide` the interface the caller means is
imagined mounted at the URL it was given: what serves the call overlaps a route of
that mount, so it is there or the handshake, and `SidesDistinct` leaves its own side.

`Registration_proofs` proves the safety properties of section 5 for any number of
registrations and retries, any lists of versions and any choices of the token
store and of what a failing `OnRegister` has done to it. Agreement is not inductive:
a late copy may still register. `IInv` says of every attempt what has become of it:

* `Sending`: the attempts of the registrations so far have been sent in order;
* `Answering`: an answer is given once, by a copy that is over; a token was issued to
  whoever was told so, and to no other copy than one for which `OnRegister` ran;
* `Hearing`: a token that was heard is known and ended its registration, so the
  tokens of later registrations are later ones;
* `Accepting`: every accepted token but the first was given to some copy;
* `Agreeing`: the answer on its way to the caller holds what both sides will agree
  on, unless `OnRegister` ran unheard for another copy.

A copy for which `OnRegister` runs, to its end or not, is unheard at that moment, which
allows whatever it does (`OnRegisterRuns`, `OnRegisterFailsRuns`); what takes the
exception away is that the caller hears it, and then it is either a 500, after which
the registration goes on or fails, or the token of `Agreeing`. `StrayTokens` is `Accepting` with `Hearing`.
`Refinement` goes by who takes the
step: `Register` opens a call and keeps the outcome of the last one (`RegisterOpens`);
a step of the caller stutters or returns, with a Peer only from a copy that was
executed (`CallerReports`); of the peer's and the network's steps `OnRegister` executes
a copy, once, and the others stutter (`PeerCarriesOut`).

`Pagination_proofs` proves section 6's safety for any finite set of objects, any
page size and limits and any number of lists. `Asked` ties a list to its request
(its links go on with the same window, which ends in the past); the rest is where
the reading stands in the list of the moment: `Reached(i)`, an object's
`Position` is before the offset of the next link.

* `Fresh` and `Covered` (`MissedInv`): an item of the page is current unless it was
  changed after the list was begun, and what was reached is on the page or was
  given in its current version. From these `NothingIsMissed`, for owners that
  write no comma into a link, as in the `pagination` run; with one it is false.
* `Once` (`RepeatedInv`): what was given or is on the page was reached, and a next
  page begins behind that. From this `NoneRepeatedWithoutGrowth`, for all links but those back.
* `Everything` (`EveryInv`): while the list stands still, what was reached was given
  or is on the page. From this `PlainLinksGiveEveryItem`: what `pagination_link`
  shows violated holds but for the comma.
* `LinksEnd`: a link a fetch finds is the request's with the offset one page further,
  and there only while that is below the size of the window, unless the owner links
  back.

Objects that come and go move the positions of the others, so each of the three
has a lemma on how `Position` changes with one object.

`Pricing_proofs` is what the next two rest on, and proves of the engine, for any
input:

* rounding: `stepBill` returns the next whole step, leaves whole steps alone, and so a
  dimension bills its volume or less than one step more
  (`BilledVolumeIsWithinAStep`); `roundOCPI` is off by at most half of the last
  decimal (`RoundBankIsNearest`), `roundCurrency` by half of the currency's unit, the
  same for charges and credits (`RoundCurrencyIsNearest`); so the cost of a dimension
  is the exact one of the volumes billed but for half of the fourth decimal and half
  a unit, however many periods there are (`CostsAreNearTheExact`);
* sums: the fold of the library unfolds, takes its elements in any order, adds up
  a renamed function to the same, skips zeros and is monotone. These are
  inductions, over the natural numbers and over the subsets of a finite set, with
  a set in place of the predicate (`NatSetInduction`, `FiniteSetInduction`, both
  from the well-foundedness of `<`);
* sorting: `SortedPeriods` is the same periods in the order of their starts,
  and sorts nothing twice (`SortingPermutes`, `SortedIsIdempotent`);
* types: every ledger, cost and total of a typed input is typed (`ReportsAreTyped`);
* which component prices a period: the one of the earliest element that applies and
  has one of the dimension, and in it the earliest (`EarliestElementPrices`); what
  comes behind an element that applies decides nothing (`LaterElementsPriceNothing`),
  and with an unrestricted element none goes unpriced (`UnrestrictedElementsPriceAll`);
* restrictions at their boundaries: two time windows that meet at both ends hold at
  complementary minutes, whichever of them wraps, and a window that ends where it
  starts never holds (`WindowsShareTheDay`); of an element up to a bound and one from
  it on, exactly one holds, for energy, duration and dates (`TiersMeet`), and at least
  one for power and current, where both hold for readings that span the bound or are
  missing (`ReadingTiersLeaveNoGap`);
* what a price depends on: what `SamePricing` lists (`PricingDependsOn`); not on the
  place of a tariff in the list, nor on tariffs nobody refers to
  (`RenamingCostsNothing`); on the readings of a period only through restrictions
  on power and current (`ReadingsCostNothing`).

`CostSeries_proofs` proves all properties of section 7's `CostSeries` for any
sessions and options of the types, any unit and any cap (`TicksAssumption`: both are
positive; `BaseAssumption`, `CalendarAssumption`: so are the base units and the
lengths of day and week). `IInv` says that the points so far are at the first
ticks, each with the report of the session truncated there. What remains is about
one session and its truncations, and about `Calculate`:

* `EvenPoints`: the distance of two ticks is a whole number of units, and
  `MaxTicks` such distances reach the session's end: the cap thins the chart and
  never cuts it.
* `PricedAsInTheEnd`: a truncated session has the first periods of the sorted full
  one (`TruncateFacts`), and the snapshot before a period looks only at what is
  before it.
* `LastPoint`: at the end nothing is scaled; what is left of the truncation is a
  sorting.
* `StepsRoundOnce`, `BoundsHold`: the ledger gets the rounding at its last entry only,
  and `clampTotal` a total that is the sum of the dimensions.
* `SplittingCostsNothing`: the split session has the ledgers of the whole one with
  one entry in two, whose volumes add up to it, so the same sums.
* `UnpricedCount`, `JustVerdicts`: by the case distinctions of the code.
* `CurveFallsWithReason`: every step from readings to total is monotone: scaling,
  sums, `stepBill`, price times volume, `roundOCPI`, the bounds, the currency's
  decimals. `Outgrows` relates two sessions one of which is a prefix of the other's
  making, as two ticks are; without one of the four reasons their ledgers have
  grown, entry by entry (`LedgerGrown`), and each of the steps keeps that.

`CdrAdapter_proofs` proves the properties of `CdrAdapter` and `SimForm` for any CDR
of the types, any options and tariff lists of any length. `AdapterInv` says that the
report is what the entry point computes for the CDR at hand; the rest compares the
answers for two CDRs.

* An unambiguous list gives every id at most one tariff (`ResolutionIsUnique`), and
  its order changes neither whether it is ambiguous, nor which ids are unknown,
  nor which tariff an id means (`ResolutionIgnoresOrder`).
* Two versions, two orders of dimensions, a price quoted with its tax: both CDRs
  are refused or give the engine the same input (`ReadAlike`), and
  `PricingDependsOn` does the rest.
* Other embedded tariffs, another order of them: the engine's input has its
  tariffs in other places, so `RenamingCostsNothing`.
* The form keeps volumes and tariffs (`RowsKeepVolumes`, `KeptTariffIsTheSame`) and
  drops readings that no restriction of an expressible tariff looks at, so
  `ReadingsCostNothing`.
* The totals of a report, and those the simulator fills in, read back as what they
  were written from (`PricesReadBack`, `ReportMoneyReadBack`), and every amount
  matches itself within any tolerance.

`Simulator_proofs` proves the safety properties of section 8 for any forms, any
number of events and any engine, from `SimulatorAssumption`: the serialization
functions answer for every form, and the default form can be restored. What is
shown is current only because of what the requests under way are, so `IInv` adds

* `RunInv`, `PlotInv`: at most one request of a kind has the latest id, it answers
  the present inputs, and what it has shown so far is theirs;
* `VerdictInv`: only the latest run verifies, and while none does the verdict
  shown is of the report shown;
* `LinkInv`: a pending save, or the link when none is pending, is that of the
  present inputs, unless the link was too long or nothing has changed since the
  page was opened.

The attempts corrected two statements of `CostSeries` and `SimForm` that were false
where no instance looked. A curve falls with negative prices or volumes, which the engine accepts
(`Ordinary` excludes them), and when the readings of the period in progress, which
the chart scales, select another element (the fourth reason). A form cannot
express a period whose `tariff_id` is the empty string: `serialize` drops it, and
so makes a CDR priced that the engine refuses (`Expressible` excludes it).

Only model-checked is liveness (`CancelledCallsReturn`, `RegisterReturns`,
`CancelledListsEnd`, `EverythingCatchesUp`), which needs fairness and `ENABLED` and is beyond the prover.

## 11. Where the repository says one thing and the code does another

With a run:

* `cost_overlong`: the series "makes the final tick equal the full CDR cost"
  (`web/src/lib/timeseries.test.ts:248`). A period that starts after the
  session's end, which the engine prices with a warning, is not in any tick.
* `platform_prefix`: the handler "does relative-path routing, so it can be mounted
  under any prefix in net/http, chi, echo, etc. (use http.StripPrefix when
  mounting under a prefix)" (`core/server.go:67-69`), and `README.md:113-124`
  strips `/ocpi` from a server whose bases are under `/ocpi`. Routes are
  registered at the whole path of the base URL, so a stripped path matches none.
* `platform_discovered`: "Call the discovered Locations endpoint with the
  generated typed client" (`README.md:138-140`). `Peer.Endpoint` returns the first
  entry of the module whatever its role; with a peer that advertises both sides,
  it may be the other one, which has no route for the call.
* `pagination_link`: `parseNextLink` "extracts the URL of the rel=\"next\" link from
  an RFC 5988 Link header value" (`core/pagination.go:103`). It cuts the header at
  every comma, one inside a URL included, and the list ends after its first page.

Noted while modelling; the models have the behaviour of the code, and no property
says otherwise:

* "ObserveServer is called after each inbound request is served"
  (`core/observability/observability.go:11`): not for requests `authMiddleware`
  answers, nor for those whose handler panics. `MetricsMissOnlyPanics` bounds it.
* "uses the same engine path as the main run" (`timeseries.test.ts:248`): the
  readings of the period in progress are scaled (see `PricedAsInTheMainRun`).
* `MinDuration` is the bound "for elapsed session duration"
  (`core/pricing/model.go:180`): the first period is matched with duration 0 even
  when it starts later than the session.
* the warning "means min_price or max_price was not applied because multiple
  tariffs priced the session" (`core/pricing/codes.go:27`): tariffs that are
  referred to but price nothing count as well.
* "keeps invalid JSON as a parse error" (`web/src/App.test.tsx:509`) holds until
  the page is reloaded: the link restores the text, `parseError` starts undefined.
* a "nil/unmatched `tariff_id`" is "rejected as `InvalidInput`" for a single
  tariff, read literally (`README.md:82-83`): a nil one means that tariff.
* the README's quick start goes on with the client made with token A after
  `Register`; a peer that drops token A refuses it.

## 12. What the model leaves out

* Time zones are fixed offsets: daylight saving changes within a session are not
  modelled. The format checks of restriction strings are left out; restrictions
  hold values that passed them.
* `decimal.Div`'s 16 digits: the model's divisions are exact. JavaScript's
  `toFixed(6)` in `scaleVolume` is rounding to the smallest volume.
* Message contents, headers, ids, tokens, backoff lengths, logging.
* In the simulator: the name of the selected preset, React's double mount in
  development, a form whose serialization throws, and which error the engine
  reports (that it reports one is modelled).
* Negative `WithRetry`: `RetriesAssumption` takes it to be a natural number.
* In `Mux`: hosts, trailing slashes, `{name...}` and the cleaning of paths, none
  of which the repository's patterns use; an empty id, whose path `net/http` would
  redirect.
* In `Registration`: the order of concurrent calls of one caller (it registers
  once at a time) and credentials that are malformed. In `Pagination`: query
  values the endpoint refuses, and links back to another page than the first.
* In `CdrAdapter`: the copying of fields that decide nothing. In `SimForm`: the
  constant party, token and location of the form's CDR, and values that are no
  decimals.
* Not modelled: the wasm bridge, which parses options, calls one entry point and
  prints its report; the data types of the generated modules, their JSON and
  schema validation; the in-memory transport, a test double; the metrics adapters, counters
  of third-party libraries; UI rendering, presets, examples and scripts. None has
  state that outlives a call or a decision another part depends on.

## 13. What could follow

1. An abstract specification of the simulator (what is shown follows what is
   entered) and its refinement.
2. The data types of the generated modules: which values their validation accepts.
3. Daylight saving: a session's time zone as a function of the time rather than a
   fixed offset, and what the time windows then promise.

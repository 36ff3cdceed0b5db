----------------------------- MODULE Simulator -----------------------------
(***************************************************************************)
(* The simulator's App component (web/src/App.tsx) and the engine loader   *)
(* under it (web/src/wasm/loader.ts): what the user enters, the three      *)
(* debounced effects that follow it (the run, the cost series, the link in *)
(* the address bar), the answers they wait for, and a reload of the page.  *)
(*                                                                         *)
(* JavaScript runs a task to its end, with the promise callbacks it sets   *)
(* off, before the next task.  Once the engine is there its API answers    *)
(* with promises already resolved, so `Drained` guards every task: user    *)
(* events, timers and the loader's answers wait while a callback can run.  *)
(* Requests pile up only behind the promise of a loading engine.           *)
(*                                                                         *)
(* What the engine is asked is kept whole, as the inputs of the request; a *)
(* result on the screen is named by the inputs it answers.                 *)
(***************************************************************************)
EXTENDS Integers

CONSTANTS
    Forms,          \* SimForm values that serialize without an exception
    Texts,          \* what the JSON panel may hold
    Versions,       \* OCPI versions
    Options,        \* time zone and money decimals
    Units,          \* minutes per tick of the cost series
    Serialize,      \* serialize: <<form, version>> to text
    Deserialize,    \* JSON.parse and deserialize: text to form or Unreadable
    Objects,        \* texts that are a JSON object
    Unreadable,
    None,           \* null
    NoTariff,       \* forms without a tariff
    ClaimsTotal,    \* forms with an embedded total cost
    Unpriced,       \* payloads Calculate reports an error for
    Unverified,     \* payloads Verify reports an error for
    Oversized,      \* <<form, text>> whose link the browser refuses
    Unrestorable,   \* forms that isPersistedState rejects
    Default,        \* what the page starts with, without a link
    MaxEdits        \* bound: user events and reloads in a behaviour

Modes == {"embedded", "override"}
Views == {"form", "json"}

Scenarios == [form : Forms, rawJson : Texts \cup {None}, version : Versions,
              mode : Modes, options : Options, unit : Units, view : Views]

SimulatorAssumption ==
    /\ MaxEdits \in Nat
    /\ Serialize \in [Forms \X Versions -> Texts]
    /\ Deserialize \in [Texts -> Forms \cup {Unreadable}]
    /\ Unreadable \notin Forms
    /\ None \notin Texts \cup Scenarios
    /\ NoTariff \cup ClaimsTotal \cup Unrestorable \subseteq Forms
    /\ Objects \subseteq Texts
    /\ Oversized \subseteq Forms \X (Texts \cup {None})
    /\ Default \in Scenarios
    /\ Default.form \notin Unrestorable

ASSUME SimulatorAssumption

VARIABLES
    scenario,       \* the state that effects depend on
    parseError,     \* the JSON panel reports its text as invalid
    engine,         \* the loader's memoized promise
    requestId,      \* requestIdRef
    runs,           \* runs under way: a timer, or a promise awaited
    screen,         \* calc, verd, engineError, resultError, isComputing
    plotId,         \* timeSeriesRequestIdRef
    plots,          \* requests for the cost series under way
    series,         \* the inputs of the points shown, None for no points
    url,            \* the state in the location's hash, None for no state
    initial,        \* initialPersistEncodedRef
    changed,        \* hasPersistableChangeRef
    saving,         \* what the pending persistence timer will write
    edits           \* user events so far (bounded by MaxEdits)

inputVars == <<scenario, parseError>>
runVars == <<requestId, runs, screen>>
plotVars == <<plotId, plots, series>>
urlVars == <<url, initial, changed, saving>>
vars == <<inputVars, engine, runVars, plotVars, urlVars, edits>>

-----------------------------------------------------------------------------
(* What a request is about: the dependencies of the effect that makes it.  *)

RunInputs(s) == [form |-> s.form, rawJson |-> s.rawJson, version |-> s.version,
                 mode |-> s.mode, options |-> s.options]
PlotInputs(s) == [run |-> RunInputs(s), unit |-> s.unit]

Jobs == [form : Forms, rawJson : Texts \cup {None}, version : Versions,
         mode : Modes, options : Options]
PlotJobs == [run : Jobs, unit : Units]

\* The CDR the engine is given.
Payload(job) == IF job.rawJson # None THEN job.rawJson ELSE job.form

\* Override mode needs a tariff of the form.
LacksTariff(job) == job.mode = "override" /\ job.form \in NoTariff

\* The total cost a run has verified: the CDR's, or, for a form that claims
\* none, the one just calculated.
VerifiedTotal(job) ==
    IF job.rawJson = None /\ job.form \notin ClaimsTotal THEN "computed" ELSE "claimed"

Totals == {"computed", "claimed"}
Verdicts == [of : Jobs, total : Totals]

Blank == [calc |-> None, verd |-> None, engineError |-> FALSE,
          resultError |-> {}, isComputing |-> FALSE]

-----------------------------------------------------------------------------
(* JavaScript's tasks, and the requests.                                   *)

Phases == {"timer", "calculating", "verifying"}
Settled(e) == e \in {"ready", "failed"}

Runnable == \/ \E r \in runs : r.phase # "timer"
            \/ \E p \in plots : p.phase # "timer"
Drained == ~(Settled(engine) /\ Runnable)

IsLatest(r) == r.id = requestId
IsLatestPlot(p) == p.id = plotId

\* loadEngine: the first caller starts the load, all await the one promise.
LoadEngine == engine' = IF engine = "unloaded" THEN "loading" ELSE engine

\* A user event, and its bound.
Edit == edits < MaxEdits /\ edits' = edits + 1 /\ Drained

-----------------------------------------------------------------------------
(* The effects' clean-up and restart when a dependency changes.            *)

FirstRun(s) == {[id |-> 1, phase |-> "timer", job |-> RunInputs(s), errors |-> {}]}
FirstPlot(s) == IF LacksTariff(RunInputs(s)) THEN {}
                ELSE {[id |-> 1, phase |-> "timer", job |-> PlotInputs(s)]}

\* The clean-up takes one request id, the new effect the next.
RestartRun(s) ==
    /\ requestId' = requestId + 2
    /\ runs' = {r \in runs : r.phase # "timer"}
               \cup {[id |-> requestId + 2, phase |-> "timer",
                      job |-> RunInputs(s), errors |-> {}]}

\* An effect that returned early has no clean-up.
NextPlotId == plotId + (IF LacksTariff(RunInputs(scenario)) THEN 1 ELSE 2)

\* Mutant of RestartPlot: the early return leaves the points where they are.
RestartPlotKeepsPoints(s) ==
    /\ plotId' = NextPlotId
    /\ plots' = {p \in plots : p.phase # "timer"}
                \cup (IF LacksTariff(RunInputs(s)) THEN {}
                      ELSE {[id |-> NextPlotId, phase |-> "timer", job |-> PlotInputs(s)]})
    /\ UNCHANGED series

RestartPlot(s) ==
    /\ plotId' = NextPlotId
    /\ IF LacksTariff(RunInputs(s))
       THEN /\ plots' = {p \in plots : p.phase # "timer"}
            /\ series' = None
       ELSE /\ plots' = {p \in plots : p.phase # "timer"}
                        \cup {[id |-> NextPlotId, phase |-> "timer",
                               job |-> PlotInputs(s)]}
            /\ UNCHANGED series

\* Mutant of RestartPersistence: compares with the initial state every time.
RestartPersistenceForgets(s) ==
    /\ changed' = (changed \/ s # initial)
    /\ saving' = IF s # initial THEN s ELSE None
    /\ UNCHANGED <<url, initial>>

RestartPersistence(s) ==
    /\ changed' = (changed \/ s # initial)
    /\ saving' = IF changed' THEN s ELSE None
    /\ UNCHANGED <<url, initial>>

\* Every dependency list has the form, the text, the version, the mode and
\* the options; all three effects start over.
Become(s) == /\ scenario' = s
             /\ RestartRun(s)
             /\ RestartPlot(s)
             /\ RestartPersistence(s)

ClearErrors == screen' = [screen EXCEPT !.engineError = FALSE, !.resultError = {}]

-----------------------------------------------------------------------------
(* User events.                                                            *)

\* An edit of the form, a preset, the currency, an undo.  A form is always a
\* new object, so the effects start over even when it equals the old one.
ReplaceForm ==
    /\ Edit
    /\ \E f \in Forms : Become([scenario EXCEPT !.form = f, !.rawJson = None])
    /\ parseError' = FALSE
    /\ ClearErrors
    /\ UNCHANGED engine

SelectVersion ==
    /\ Edit
    /\ \E v \in Versions \ {scenario.version} :
          Become([scenario EXCEPT !.version = v, !.rawJson = None])
    /\ parseError' = FALSE
    /\ ClearErrors
    /\ UNCHANGED engine

SelectMode ==
    /\ Edit
    /\ scenario.view = "form"
    /\ \E m \in Modes \ {scenario.mode} :
          Become([scenario EXCEPT !.mode = m, !.rawJson = None])
    /\ parseError' = FALSE
    /\ ClearErrors
    /\ UNCHANGED engine

\* The time zone and the money decimals: the errors stay until the run.
SelectOptions ==
    /\ Edit
    /\ \E o \in Options \ {scenario.options} : Become([scenario EXCEPT !.options = o])
    /\ UNCHANGED <<parseError, engine, screen>>

PanelText(s) == IF s.rawJson # None THEN s.rawJson ELSE Serialize[<<s.form, s.version>>]

OnJsonChange ==
    /\ Edit
    /\ scenario.view = "json"
    /\ \E t \in Texts \ {PanelText(scenario)} :
          /\ parseError' = (Deserialize[t] = Unreadable)
          /\ IF Deserialize[t] = Unreadable
             THEN Become([scenario EXCEPT !.rawJson = t])
             ELSE Become([scenario EXCEPT !.rawJson = t, !.form = Deserialize[t]])
    /\ ClearErrors
    /\ UNCHANGED engine

\* Mutant of ShowJson: the run does not depend on the text.
ShowJsonUnnoticed ==
    /\ Edit
    /\ scenario.view = "form" \/ scenario.rawJson = None
    /\ scenario' = [scenario EXCEPT !.view = "json", !.rawJson = PanelText(scenario)]
    /\ RestartPlot(scenario')
    /\ RestartPersistence(scenario')
    /\ UNCHANGED <<parseError, engine, runVars>>

\* Opening the panel fixes its text, which the run depends on; so does its tab
\* when pressed again after a version was selected.
ShowJson ==
    /\ Edit
    /\ scenario.view = "form" \/ scenario.rawJson = None
    /\ LET s == [scenario EXCEPT !.view = "json", !.rawJson = PanelText(scenario)]
       IN IF scenario.rawJson = None
          THEN Become(s)
          ELSE /\ scenario' = s
               /\ RestartPersistence(s)
               /\ UNCHANGED <<requestId, runs, plotVars>>
    /\ UNCHANGED <<parseError, engine, screen>>

ShowForm ==
    /\ Edit
    /\ scenario.view = "json"
    /\ scenario' = [scenario EXCEPT !.view = "form"]
    /\ RestartPersistence(scenario')
    /\ UNCHANGED <<parseError, engine, runVars, plotVars>>

\* The chart, with its unit, is shown beside a report only.
SelectUnit ==
    /\ Edit
    /\ screen.calc # None
    /\ \E u \in Units \ {scenario.unit} : scenario' = [scenario EXCEPT !.unit = u]
    /\ RestartPlot(scenario')
    /\ RestartPersistence(scenario')
    /\ UNCHANGED <<parseError, engine, runVars>>

\* The Calculate button: runNonce is a dependency of the run alone.
Recalculate ==
    /\ Edit
    /\ ~screen.isComputing
    /\ RestartRun(scenario)
    /\ UNCHANGED <<inputVars, engine, screen, plotVars, urlVars>>

-----------------------------------------------------------------------------
(* The run.                                                                *)

\* The request goes on in phase `next`, or is over.
Advance(r, next) == runs' = (runs \ {r}) \cup {next}
Finish(r) == runs' = runs \ {r}

RunTimer ==
    /\ Drained
    /\ \E r \in runs :
          /\ r.phase = "timer"
          /\ IF ~IsLatest(r)
             THEN Finish(r) /\ UNCHANGED <<screen, engine>>
             ELSE IF LacksTariff(r.job)
             THEN /\ Finish(r)
                  /\ screen' = [Blank EXCEPT !.resultError = {"tariff"}]
                  /\ UNCHANGED engine
             ELSE /\ Advance(r, [r EXCEPT !.phase = "calculating"])
                  /\ screen' = [screen EXCEPT !.engineError = FALSE, !.resultError = {},
                                              !.isComputing = TRUE]
                  /\ LoadEngine
    /\ UNCHANGED <<inputVars, requestId, plotVars, urlVars, edits>>

\* Mutant of Calculated: no look at the request id after the first await.
CalculatedUnchecked ==
    /\ engine = "ready"
    /\ \E r \in runs :
          /\ r.phase = "calculating"
          /\ runs' = (runs \ {r}) \cup {[r EXCEPT !.phase = "verifying"]}
          /\ screen' = [screen EXCEPT
                 !.calc = IF Payload(r.job) \notin Unpriced THEN r.job ELSE None]
    /\ UNCHANGED <<inputVars, engine, requestId, plotVars, urlVars, edits>>

\* After `await calculate`.  Text is verified even when it cannot be priced.
Calculated ==
    /\ engine = "ready"
    /\ \E r \in runs :
          /\ r.phase = "calculating"
          /\ IF ~IsLatest(r)
             THEN Finish(r) /\ UNCHANGED screen
             ELSE IF Payload(r.job) \notin Unpriced
             THEN /\ screen' = [screen EXCEPT !.calc = r.job]
                  /\ Advance(r, [r EXCEPT !.phase = "verifying"])
             ELSE IF r.job.rawJson # None
             THEN /\ screen' = [screen EXCEPT !.calc = None]
                  /\ Advance(r, [r EXCEPT !.phase = "verifying", !.errors = {"calculate"}])
             ELSE /\ screen' = [Blank EXCEPT !.resultError = {"calculate"}]
                  /\ Finish(r)
    /\ UNCHANGED <<inputVars, engine, requestId, plotVars, urlVars, edits>>

\* After `await verify`, to the end of the run.
Verified ==
    /\ engine = "ready"
    /\ \E r \in runs :
          /\ r.phase = "verifying"
          /\ Finish(r)
          /\ IF ~IsLatest(r)
             THEN UNCHANGED screen
             ELSE IF Payload(r.job) \notin Unverified
             THEN screen' = [screen EXCEPT
                      !.verd = [of |-> r.job, total |-> VerifiedTotal(r.job)],
                      !.resultError = r.errors, !.isComputing = FALSE]
             ELSE screen' = [screen EXCEPT !.verd = None,
                      !.resultError = r.errors \cup {"verify"}, !.isComputing = FALSE]
    /\ UNCHANGED <<inputVars, engine, requestId, plotVars, urlVars, edits>>

\* The engine's promise is rejected: the run's catch and finally.
RunFails ==
    /\ engine = "failed"
    /\ \E r \in runs :
          /\ r.phase # "timer"
          /\ Finish(r)
          /\ screen' = IF IsLatest(r)
                       THEN [screen EXCEPT !.calc = None, !.verd = None,
                                           !.engineError = TRUE, !.isComputing = FALSE]
                       ELSE screen
    /\ UNCHANGED <<inputVars, engine, requestId, plotVars, urlVars, edits>>

-----------------------------------------------------------------------------
(* The cost series.                                                        *)

\* The payload is a JSON object, or the series is empty.
Plottable(job) == job.run.rawJson \in Objects \cup {None}

PlotTimer ==
    /\ Drained
    /\ \E p \in plots :
          /\ p.phase = "timer"
          /\ IF Plottable(p.job)
             THEN /\ plots' = (plots \ {p}) \cup {[p EXCEPT !.phase = "pricing"]}
                  /\ LoadEngine
                  /\ UNCHANGED series
             ELSE /\ plots' = plots \ {p}
                  /\ series' = IF IsLatestPlot(p) THEN None ELSE series
                  /\ UNCHANGED engine
    /\ UNCHANGED <<inputVars, runVars, plotId, urlVars, edits>>

\* Mutant of Plotted: whoever comes last sets the points.
PlottedUnchecked ==
    /\ Settled(engine)
    /\ \E p \in plots :
          /\ p.phase = "pricing"
          /\ plots' = plots \ {p}
          /\ series' = IF engine = "ready" THEN p.job ELSE None
    /\ UNCHANGED <<inputVars, engine, runVars, plotId, urlVars, edits>>

\* Mutant of Plotted: a failed load leaves the request waiting.
PlottedWaits ==
    /\ engine = "ready"
    /\ \E p \in plots :
          /\ p.phase = "pricing"
          /\ plots' = plots \ {p}
          /\ series' = IF IsLatestPlot(p) THEN p.job ELSE series
    /\ UNCHANGED <<inputVars, engine, runVars, plotId, urlVars, edits>>

\* computeCostSeries has awaited all its ticks, or the engine's failure.
Plotted ==
    /\ Settled(engine)
    /\ \E p \in plots :
          /\ p.phase = "pricing"
          /\ plots' = plots \ {p}
          /\ series' = IF ~IsLatestPlot(p) THEN series
                       ELSE IF engine = "ready" THEN p.job ELSE None
    /\ UNCHANGED <<inputVars, engine, runVars, plotId, urlVars, edits>>

-----------------------------------------------------------------------------
(* The loader, the link, the page.                                         *)

\* The script, the download and the instantiation succeed or fail; `ready`
\* keeps the promise either way.
EngineAnswers ==
    /\ engine = "loading"
    /\ engine' \in {"ready", "failed"}
    /\ UNCHANGED <<inputVars, runVars, plotVars, urlVars, edits>>

TooLong(s) == <<s.form, s.rawJson>> \in Oversized

SaveUrl ==
    /\ Drained
    /\ saving # None
    /\ url' = IF TooLong(saving) THEN url ELSE saving
    /\ saving' = None
    /\ UNCHANGED <<inputVars, engine, runVars, plotVars, initial, changed, edits>>

\* decodeState: what a page opened with this link starts with.
Boot(u) == IF u = None THEN Default
           ELSE IF u.form \in Unrestorable THEN Default ELSE u

Reload ==
    /\ Edit
    /\ scenario' = Boot(url)
    /\ parseError' = FALSE
    /\ engine' = "unloaded"
    /\ requestId' = 1
    /\ runs' = FirstRun(Boot(url))
    /\ screen' = Blank
    /\ plotId' = 1
    /\ plots' = FirstPlot(Boot(url))
    /\ series' = None
    /\ initial' = Boot(url)
    /\ changed' = FALSE
    /\ saving' = None
    /\ UNCHANGED url

Init ==
    /\ url = None
    /\ scenario = Default
    /\ parseError = FALSE
    /\ engine = "unloaded"
    /\ requestId = 1
    /\ runs = FirstRun(Default)
    /\ screen = Blank
    /\ plotId = 1
    /\ plots = FirstPlot(Default)
    /\ series = None
    /\ initial = Default
    /\ changed = FALSE
    /\ saving = None
    /\ edits = 0

UserEvent == \/ ReplaceForm \/ SelectVersion \/ SelectMode \/ SelectOptions
             \/ OnJsonChange \/ ShowJson \/ ShowForm \/ SelectUnit
             \/ Recalculate \/ Reload
RunStep == RunTimer \/ Calculated \/ Verified \/ RunFails
PlotStep == PlotTimer \/ Plotted

Next == UserEvent \/ RunStep \/ PlotStep \/ EngineAnswers \/ SaveUrl

\* Timers fire and resolved promises call back.  Nothing is assumed of the
\* user, nor of the network the engine is loaded from.
Fairness == WF_vars(RunStep) /\ WF_vars(PlotStep) /\ WF_vars(SaveUrl)

Spec == Init /\ [][Next]_vars /\ Fairness
-----------------------------------------------------------------------------
(* Properties.                                                             *)

TypeOK ==
    /\ scenario \in Scenarios
    /\ parseError \in BOOLEAN
    /\ engine \in {"unloaded", "loading", "ready", "failed"}
    /\ requestId \in Nat
    /\ runs \subseteq [id : Nat, phase : Phases, job : Jobs,
                       errors : SUBSET {"calculate"}]
    /\ screen \in [calc : Jobs \cup {None}, verd : Verdicts \cup {None},
                   engineError : BOOLEAN,
                   resultError : SUBSET {"tariff", "calculate", "verify"},
                   isComputing : BOOLEAN]
    /\ plotId \in Nat
    /\ plots \subseteq [id : Nat, phase : {"timer", "pricing"}, job : PlotJobs]
    /\ series \in PlotJobs \cup {None}
    /\ url \in Scenarios \cup {None}
    /\ initial \in Scenarios
    /\ changed \in BOOLEAN
    /\ saving \in Scenarios \cup {None}
    /\ edits \in 0..MaxEdits

RunSettled == \A r \in runs : ~IsLatest(r)
PlotSettled == \A p \in plots : ~IsLatestPlot(p)

\* What the screen should say about these inputs.
ScreenFor(job) ==
    IF LacksTariff(job) THEN [Blank EXCEPT !.resultError = {"tariff"}]
    ELSE IF engine = "failed" THEN [Blank EXCEPT !.engineError = TRUE]
    ELSE LET priced == Payload(job) \notin Unpriced
             verifies == priced \/ job.rawJson # None
             verified == verifies /\ Payload(job) \notin Unverified
         IN [calc |-> IF priced THEN job ELSE None,
             verd |-> IF verified THEN [of |-> job, total |-> VerifiedTotal(job)] ELSE None,
             engineError |-> FALSE,
             resultError |-> (IF priced THEN {} ELSE {"calculate"})
                             \cup (IF verifies /\ ~verified THEN {"verify"} ELSE {}),
             isComputing |-> FALSE]

SeriesFor(job) ==
    IF LacksTariff(job.run) \/ ~Plottable(job) \/ engine = "failed" THEN None ELSE job

\* When no run is on its way, the report, the verdict and the errors on the
\* screen are those of what is entered: no event, whatever it clears or
\* interrupts, leaves the screen behind the inputs without a run to come, and
\* the Calculate button is enabled again.
ScreenIsCurrent == RunSettled => screen = ScreenFor(RunInputs(scenario))

\* The same of the chart, whose effect has other dependencies and another
\* delay; so report and chart, once both are there, speak of one scenario.
SeriesIsCurrent == PlotSettled => series = SeriesFor(PlotInputs(scenario))

\* A report and a verdict shown side by side are of the same inputs, except
\* while the callbacks of one run are still to come: a superseded run never
\* gets to show half of its results.
VerdictIsOfTheReport ==
    Drained /\ screen.calc # None /\ screen.verd # None => screen.verd.of = screen.calc

\* A result that appears is of what is entered at that moment, whatever was
\* waiting for the engine and however long.
NothingStaleAppears ==
    [][/\ screen'.calc # screen.calc => screen'.calc \in {None, RunInputs(scenario)}
       /\ series' # series => series' \in {None, PlotInputs(scenario)}]_vars

\* The address bar: when nothing is about to be written, a page opened with
\* the link starts with what is entered, if the browser took the link and
\* decodeState takes it back.  A link that was opened and never edited stays.
LinkIsCurrent ==
    saving = None /\ ~TooLong(scenario) /\ scenario.form \notin Unrestorable
        => Boot(url) = scenario

\* Once the user pauses, everything on the screen is soon that of what is
\* entered, unless the engine is still being loaded.
EverythingCatchesUp ==
    []<>((RunSettled /\ PlotSettled /\ saving = None) \/ engine = "loading")
=============================================================================

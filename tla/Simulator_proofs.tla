------------------------- MODULE Simulator_proofs --------------------------
(***************************************************************************)
(* The safety properties of Simulator, for any forms, texts and engine     *)
(* verdicts, and any number of events.                                     *)
(***************************************************************************)
EXTENDS Simulator, TLAPS

(* The inductive invariant. *)

\* Request ids in use, and the run they single out: its inputs are the
\* scenario's, and what it has put on the screen is what it should.
RunInv ==
    /\ \A r \in runs : r.id <= requestId
    /\ \A r1, r2 \in runs : IsLatest(r1) /\ IsLatest(r2) => r1 = r2
    /\ \A r \in runs : IsLatest(r) =>
          /\ r.job = RunInputs(scenario)
          /\ r.phase # "timer" =>
                /\ ~LacksTariff(r.job)
                /\ engine # "unloaded"
                /\ ~screen.engineError
                /\ screen.resultError = {}
          /\ r.phase # "verifying" => r.errors = {}
          /\ r.phase = "verifying" =>
                /\ engine = "ready"
                /\ IF Payload(r.job) \notin Unpriced
                   THEN screen.calc = r.job /\ r.errors = {}
                   ELSE /\ r.job.rawJson # None
                        /\ screen.calc = None
                        /\ r.errors = {"calculate"}
    /\ RunSettled => Settled(engine) \/ LacksTariff(RunInputs(scenario))

\* A run between its two results is the latest and its callback comes next.
VerdictInv ==
    /\ \A r \in runs : r.phase = "verifying" => IsLatest(r) /\ engine = "ready"
    /\ (\A r \in runs : r.phase # "verifying") /\ screen.calc # None /\ screen.verd # None
          => screen.verd.of = screen.calc

PlotInv ==
    /\ \A p \in plots : p.id <= plotId
    /\ \A p1, p2 \in plots : IsLatestPlot(p1) /\ IsLatestPlot(p2) => p1 = p2
    /\ \A p \in plots : IsLatestPlot(p) =>
          /\ p.job = PlotInputs(scenario)
          /\ ~LacksTariff(p.job.run)
          /\ p.phase # "timer" => Plottable(p.job) /\ engine # "unloaded"
    /\ PlotSettled => \/ Settled(engine)
                      \/ LacksTariff(RunInputs(scenario))
                      \/ ~Plottable(PlotInputs(scenario))

LinkInv ==
    /\ saving # None => saving = scenario
    /\ ~changed => saving = None /\ scenario = initial /\ Boot(url) = initial
    /\ changed /\ saving = None => url = scenario \/ TooLong(scenario)

IInv == /\ TypeOK /\ RunInv /\ ScreenIsCurrent /\ VerdictInv
        /\ PlotInv /\ SeriesIsCurrent /\ LinkInv

-----------------------------------------------------------------------------
(* Types.                                                                  *)

\* What the effects of a scenario are given has its type.
LEMMA InputTypes ==
    ASSUME NEW s \in Scenarios
    PROVE  RunInputs(s) \in Jobs /\ PlotInputs(s) \in PlotJobs
BY DEF Scenarios, RunInputs, PlotInputs, Jobs, PlotJobs

\* A restarted effect's ids, requests and results have their types.
LEMMA RestartTypes ==
    ASSUME NEW s \in Scenarios, TypeOK
    PROVE  /\ RestartRun(s) => /\ requestId' \in Nat
                               /\ runs' \subseteq [id : Nat, phase : Phases, job : Jobs,
                                                   errors : SUBSET {"calculate"}]
           /\ RestartPlot(s) => /\ plotId' \in Nat
                                /\ plots' \subseteq [id : Nat, phase : {"timer", "pricing"},
                                                     job : PlotJobs]
                                /\ series' \in PlotJobs \cup {None}
           /\ RestartPersistence(s) => /\ url' \in Scenarios \cup {None}
                                       /\ initial' \in Scenarios
                                       /\ changed' \in BOOLEAN
                                       /\ saving' \in Scenarios \cup {None}
<1>1. RunInputs(s) \in Jobs /\ PlotInputs(s) \in PlotJobs
  BY InputTypes
<1>2. RestartRun(s) => /\ requestId' \in Nat
                       /\ runs' \subseteq [id : Nat, phase : Phases, job : Jobs,
                                           errors : SUBSET {"calculate"}]
  BY <1>1 DEF TypeOK, RestartRun, Phases
<1>3. RestartPlot(s) => /\ plotId' \in Nat
                        /\ plots' \subseteq [id : Nat, phase : {"timer", "pricing"},
                                             job : PlotJobs]
                        /\ series' \in PlotJobs \cup {None}
  BY <1>1 DEF TypeOK, RestartPlot, NextPlotId
<1>4. RestartPersistence(s) => /\ url' \in Scenarios \cup {None}
                               /\ initial' \in Scenarios
                               /\ changed' \in BOOLEAN
                               /\ saving' \in Scenarios \cup {None}
  BY DEF TypeOK, RestartPersistence
<1>5. QED  BY <1>2, <1>3, <1>4

-----------------------------------------------------------------------------
(* What a restart of an effect preserves, and what its absence does.       *)

\* A new run has everything to come.
LEMMA RestartRunKeeps ==
    ASSUME TypeOK, RunInv, scenario' \in Scenarios, RestartRun(scenario'),
           UNCHANGED engine
    PROVE  RunInv' /\ ScreenIsCurrent'
<1> DEFINE new == [id |-> requestId + 2, phase |-> "timer",
                   job |-> RunInputs(scenario'), errors |-> {}]
<1>1. requestId \in Nat /\ requestId' = requestId + 2
  BY DEF TypeOK, RestartRun
<1>2. runs' = {r \in runs : r.phase # "timer"} \cup {new}
  BY DEF RestartRun
<1>3. \A r \in runs : r.id \in Nat /\ r.id <= requestId
  BY DEF TypeOK, RunInv
<1>4. \A r \in runs' : r.id <= requestId'
  BY <1>1, <1>2, <1>3
<1>5. \A r \in runs' : (r.id = requestId') <=> (r = new)
  BY <1>1, <1>2, <1>3
<1>6. new \in runs' /\ new.phase = "timer" /\ new.job = RunInputs(scenario')
      /\ new.errors = {} /\ new.id = requestId'
  BY <1>1, <1>2
<1> HIDE DEF new
<1>7. ~RunSettled'
  BY <1>6 DEF RunSettled, IsLatest
<1>8. RunInv'
  BY <1>4, <1>5, <1>6, <1>7 DEF RunInv, IsLatest
<1>9. QED  BY <1>7, <1>8 DEF ScreenIsCurrent

\* Nothing changes for the run while its inputs, its state and the engine do not.
LEMMA RunUntouched ==
    ASSUME RunInv, ScreenIsCurrent, UNCHANGED <<runVars, engine>>,
           RunInputs(scenario') = RunInputs(scenario)
    PROVE  RunInv' /\ ScreenIsCurrent'
BY DEF RunInv, ScreenIsCurrent, runVars, IsLatest, RunSettled, ScreenFor

\* A new request has everything to come; without one there are no points.
LEMMA RestartPlotKeeps ==
    ASSUME TypeOK, PlotInv, scenario' \in Scenarios, RestartPlot(scenario'),
           UNCHANGED engine
    PROVE  PlotInv' /\ SeriesIsCurrent'
<1> DEFINE new == [id |-> NextPlotId, phase |-> "timer", job |-> PlotInputs(scenario')]
           job == RunInputs(scenario')
<1>1. /\ plotId \in Nat /\ plotId' = NextPlotId
      /\ NextPlotId \in Nat /\ NextPlotId > plotId
  BY DEF TypeOK, RestartPlot, NextPlotId
<1>2. \A p \in plots : p.id \in Nat /\ p.id <= plotId
  BY DEF TypeOK, PlotInv
<1>3. PlotInputs(scenario').run = job
  BY DEF PlotInputs
<1>4. CASE LacksTariff(job)
  <2>1. plots' = {p \in plots : p.phase # "timer"} /\ series' = None
    BY <1>4 DEF RestartPlot
  <2>2. \A p \in plots' : p.id <= plotId' /\ p.id # plotId'
    BY <1>1, <1>2, <2>1
  <2>3. PlotInv'
    BY <2>2, <1>4 DEF PlotInv, IsLatestPlot
  <2>4. SeriesIsCurrent'
    BY <2>1, <1>3, <1>4 DEF SeriesIsCurrent, SeriesFor
  <2>5. QED  BY <2>3, <2>4
<1>5. CASE ~LacksTariff(job)
  <2>1. plots' = {p \in plots : p.phase # "timer"} \cup {new}
    BY <1>5 DEF RestartPlot
  <2>2. \A p \in plots' : p.id <= plotId' /\ ((p.id = plotId') <=> (p = new))
    BY <1>1, <1>2, <2>1
  <2>3. /\ new \in plots' /\ new.phase = "timer" /\ new.job = PlotInputs(scenario')
        /\ new.job.run = job /\ new.id = plotId'
    BY <1>1, <1>3, <2>1
  <2> HIDE DEF new
  <2>4. ~PlotSettled'
    BY <2>3 DEF PlotSettled, IsLatestPlot
  <2>5. PlotInv'
    BY <2>2, <2>3, <2>4, <1>5 DEF PlotInv, IsLatestPlot
  <2>6. QED  BY <2>4, <2>5 DEF SeriesIsCurrent
<1>6. QED  BY <1>4, <1>5

\* The same for the series.
LEMMA PlotUntouched ==
    ASSUME PlotInv, SeriesIsCurrent, UNCHANGED <<plotVars, engine>>,
           PlotInputs(scenario') = PlotInputs(scenario),
           RunInputs(scenario') = RunInputs(scenario)
    PROVE  PlotInv' /\ SeriesIsCurrent'
BY DEF PlotInv, SeriesIsCurrent, plotVars, IsLatestPlot, PlotSettled, SeriesFor

\* What is to be saved is what is entered; what was saved is what is entered.
LEMMA RestartPersistenceKeeps ==
    ASSUME TypeOK, LinkInv, scenario' \in Scenarios, RestartPersistence(scenario')
    PROVE  LinkInv'
<1>1. CASE changed'
  BY <1>1, SimulatorAssumption DEF SimulatorAssumption, LinkInv, RestartPersistence
<1>2. CASE ~changed'
  BY <1>2 DEF TypeOK, LinkInv, RestartPersistence, Boot
<1>3. QED  BY <1>1, <1>2

\* The same for the link.
LEMMA LinkUntouched ==
    ASSUME LinkInv, UNCHANGED <<scenario, urlVars>>
    PROVE  LinkInv'
BY DEF LinkInv, urlVars, Boot

\* No task runs between the two results of a run.
LEMMA VerdictOutsideRuns ==
    ASSUME TypeOK, VerdictInv, Drained,
           \/ screen'.calc = None
           \/ screen'.calc = screen.calc /\ screen'.verd = screen.verd,
           \A r \in runs' : r \in runs \/ r.phase # "verifying"
    PROVE  VerdictInv'
<1>1. \A r \in runs : r.phase # "verifying"
  BY DEF VerdictInv, Drained, Runnable, Settled
<1>2. \A r \in runs' : r.phase # "verifying"
  BY <1>1
<1>3. QED  BY <1>1, <1>2 DEF VerdictInv

-----------------------------------------------------------------------------
(* User events.                                                            *)

\* An event that changes what every effect depends on.
LEMMA BecomeKeeps ==
    ASSUME IInv, NEW s \in Scenarios, Become(s), Drained, UNCHANGED engine,
           screen'.calc = screen.calc, screen'.verd = screen.verd
    PROVE  RunInv' /\ ScreenIsCurrent' /\ VerdictInv' /\ PlotInv' /\ SeriesIsCurrent'
           /\ LinkInv'
<1>1. /\ scenario' = s /\ RestartRun(scenario') /\ RestartPlot(scenario')
      /\ RestartPersistence(scenario')
  BY DEF Become
<1>2. RunInv' /\ ScreenIsCurrent'
  BY <1>1, RestartRunKeeps DEF IInv
<1>3. PlotInv' /\ SeriesIsCurrent'
  BY <1>1, RestartPlotKeeps DEF IInv
<1>4. LinkInv'
  BY <1>1, RestartPersistenceKeeps DEF IInv
<1>5. \A r \in runs' : r \in runs \/ r.phase # "verifying"
  BY <1>1 DEF RestartRun
<1>6. VerdictInv'
  BY <1>5, VerdictOutsideRuns DEF IInv
<1>7. QED  BY <1>2, <1>3, <1>4, <1>6

\* A scenario replaced by an event leaves every variable in its type.
LEMMA BecomeTypes ==
    ASSUME TypeOK, NEW s \in Scenarios, Become(s), UNCHANGED engine,
           parseError' \in BOOLEAN, edits' \in 0..MaxEdits,
           screen' = screen \/ ClearErrors
    PROVE  TypeOK'
<1>1. /\ scenario' = s /\ RestartRun(s) /\ RestartPlot(s) /\ RestartPersistence(s)
  BY DEF Become
<1>2. screen' \in [calc : Jobs \cup {None}, verd : Verdicts \cup {None},
                   engineError : BOOLEAN,
                   resultError : SUBSET {"tariff", "calculate", "verify"},
                   isComputing : BOOLEAN]
  BY DEF TypeOK, ClearErrors
<1>3. QED  BY <1>1, <1>2, RestartTypes DEF TypeOK

\* An edit happens when no callback is due, and is counted.
LEMMA EditCounts ==
    ASSUME TypeOK, Edit
    PROVE  Drained /\ edits' \in 0..MaxEdits
BY SimulatorAssumption DEF SimulatorAssumption, TypeOK, Edit

\* Clearing the errors leaves the results shown.
LEMMA ClearErrorsKeepsResults ==
    ASSUME TypeOK, ClearErrors
    PROVE  screen'.calc = screen.calc /\ screen'.verd = screen.verd
BY DEF TypeOK, ClearErrors

\* An event that replaces a part of the scenario makes a scenario.
LEMMA Rewritten ==
    ASSUME NEW s \in Scenarios
    PROVE  /\ \A f \in Forms : [s EXCEPT !.form = f, !.rawJson = None] \in Scenarios
           /\ \A v \in Versions : [s EXCEPT !.version = v, !.rawJson = None] \in Scenarios
           /\ \A m \in Modes : [s EXCEPT !.mode = m, !.rawJson = None] \in Scenarios
           /\ \A o \in Options : [s EXCEPT !.options = o] \in Scenarios
           /\ \A t \in Texts : [s EXCEPT !.rawJson = t] \in Scenarios
           /\ \A t \in Texts, f \in Forms :
                 [s EXCEPT !.rawJson = t, !.form = f] \in Scenarios
BY DEF Scenarios

\* The events that edit the form, the version, the mode, the options or the text.
LEMMA EditsKeep ==
    ASSUME IInv, ReplaceForm \/ SelectVersion \/ SelectMode \/ SelectOptions \/ OnJsonChange
    PROVE  IInv'
<1>1. TypeOK /\ scenario \in Scenarios /\ parseError \in BOOLEAN
  BY DEF IInv, TypeOK
<1>2. Edit /\ UNCHANGED engine /\ (screen' = screen \/ ClearErrors)
  BY DEF ReplaceForm, SelectVersion, SelectMode, SelectOptions, OnJsonChange
<1>3. parseError' \in BOOLEAN
  BY <1>1 DEF ReplaceForm, SelectVersion, SelectMode, SelectOptions, OnJsonChange
<1>4. \E s \in Scenarios : Become(s)
  <2>1. CASE ReplaceForm
    BY <2>1, <1>1, Rewritten DEF ReplaceForm
  <2>2. CASE SelectVersion
    BY <2>2, <1>1, Rewritten DEF SelectVersion
  <2>3. CASE SelectMode
    BY <2>3, <1>1, Rewritten DEF SelectMode
  <2>4. CASE SelectOptions
    BY <2>4, <1>1, Rewritten DEF SelectOptions
  <2>5. CASE OnJsonChange
    <3>1. PICK t \in Texts \ {PanelText(scenario)} :
             IF Deserialize[t] = Unreadable
             THEN Become([scenario EXCEPT !.rawJson = t])
             ELSE Become([scenario EXCEPT !.rawJson = t, !.form = Deserialize[t]])
      BY <2>5 DEF OnJsonChange
    <3>2. Deserialize[t] # Unreadable => Deserialize[t] \in Forms
      BY SimulatorAssumption DEF SimulatorAssumption
    <3>3. QED  BY <1>1, <3>1, <3>2, Rewritten
  <2>6. QED  BY <2>1, <2>2, <2>3, <2>4, <2>5
<1>5. PICK s \in Scenarios : Become(s)
  BY <1>4
<1>6. Drained /\ edits' \in 0..MaxEdits
  BY <1>1, <1>2, EditCounts
<1>7. screen'.calc = screen.calc /\ screen'.verd = screen.verd
  BY <1>1, <1>2, ClearErrorsKeepsResults
<1>8. TypeOK'
  BY <1>1, <1>2, <1>3, <1>5, <1>6, BecomeTypes
<1>9. QED  BY <1>2, <1>5, <1>6, <1>7, <1>8, BecomeKeeps DEF IInv

\* The JSON panel shows a text.
LEMMA PanelTextType ==
    ASSUME NEW s \in Scenarios
    PROVE  PanelText(s) \in Texts
BY SimulatorAssumption DEF SimulatorAssumption, PanelText, Scenarios

\* The panel opens: the text may be new to the run, the view is not its matter.
LEMMA ShowJsonKeeps ==
    ASSUME IInv, ShowJson
    PROVE  IInv'
<1> DEFINE s == [scenario EXCEPT !.view = "json", !.rawJson = PanelText(scenario)]
<1>1. TypeOK /\ scenario \in Scenarios /\ parseError \in BOOLEAN
  BY DEF IInv, TypeOK
<1>2. s \in Scenarios
  BY <1>1, PanelTextType DEF Scenarios, Views
<1>3. Edit /\ UNCHANGED <<parseError, engine, screen>>
  BY DEF ShowJson
<1>4. Drained /\ edits' \in 0..MaxEdits
  BY <1>1, <1>3, EditCounts
<1>5. CASE scenario.rawJson = None
  <2>1. Become(s)
    BY <1>5 DEF ShowJson
  <2>2. TypeOK'
    BY <1>1, <1>2, <1>3, <1>4, <2>1, BecomeTypes
  <2> HIDE DEF s
  <2>3. QED  BY <1>2, <1>3, <1>4, <2>1, <2>2, BecomeKeeps DEF IInv
<1>6. CASE scenario.rawJson # None
  <2>1. /\ scenario' = s /\ RestartPersistence(s)
        /\ UNCHANGED <<requestId, runs, plotVars>>
    BY <1>6 DEF ShowJson
  <2>2. RunInputs(s) = RunInputs(scenario) /\ PlotInputs(s) = PlotInputs(scenario)
    BY <1>1, <1>6 DEF Scenarios, PanelText, RunInputs, PlotInputs
  <2> HIDE DEF s
  <2>3. UNCHANGED runVars
    BY <1>3, <2>1 DEF runVars
  <2>4. RunInv' /\ ScreenIsCurrent'
    BY <1>3, <2>1, <2>2, <2>3, RunUntouched DEF IInv
  <2>5. PlotInv' /\ SeriesIsCurrent'
    BY <1>3, <2>1, <2>2, PlotUntouched DEF IInv
  <2>6. VerdictInv'
    BY <1>3, <1>4, <2>1, VerdictOutsideRuns DEF IInv
  <2>7. LinkInv'
    BY <1>2, <2>1, RestartPersistenceKeeps DEF IInv
  <2>8. TypeOK'
    BY <1>1, <1>2, <1>3, <1>4, <2>1, RestartTypes DEF TypeOK, plotVars
  <2>9. QED  BY <2>4, <2>5, <2>6, <2>7, <2>8 DEF IInv
<1>7. QED  BY <1>5, <1>6

\* Switching to the form changes the view, and the link to it.
LEMMA ShowFormKeeps ==
    ASSUME IInv, ShowForm
    PROVE  IInv'
<1>1. TypeOK /\ scenario \in Scenarios
  BY DEF IInv, TypeOK
<1>2. /\ Edit /\ scenario' = [scenario EXCEPT !.view = "form"]
      /\ RestartPersistence(scenario')
      /\ UNCHANGED <<parseError, engine, runVars, plotVars>>
  BY DEF ShowForm
<1>3. /\ scenario' \in Scenarios
      /\ RunInputs(scenario') = RunInputs(scenario)
      /\ PlotInputs(scenario') = PlotInputs(scenario)
  BY <1>1, <1>2 DEF Scenarios, Views, RunInputs, PlotInputs
<1>4. Drained /\ edits' \in 0..MaxEdits
  BY <1>1, <1>2, EditCounts
<1>5. RunInv' /\ ScreenIsCurrent'
  BY <1>2, <1>3, RunUntouched DEF IInv
<1>6. PlotInv' /\ SeriesIsCurrent'
  BY <1>2, <1>3, PlotUntouched DEF IInv
<1>7. VerdictInv'
  BY <1>2, <1>4, VerdictOutsideRuns DEF IInv, runVars
<1>8. LinkInv'
  BY <1>2, <1>3, RestartPersistenceKeeps DEF IInv
<1>9. TypeOK'
  BY <1>1, <1>2, <1>3, <1>4, RestartTypes DEF TypeOK, runVars, plotVars
<1>10. QED  BY <1>5, <1>6, <1>7, <1>8, <1>9 DEF IInv

\* Selecting the chart's unit restarts the series only.
LEMMA SelectUnitKeeps ==
    ASSUME IInv, SelectUnit
    PROVE  IInv'
<1>1. TypeOK /\ scenario \in Scenarios
  BY DEF IInv, TypeOK
<1>2. /\ Edit /\ RestartPlot(scenario') /\ RestartPersistence(scenario')
      /\ UNCHANGED <<parseError, engine, runVars>>
  BY DEF SelectUnit
<1>3. scenario' \in Scenarios /\ RunInputs(scenario') = RunInputs(scenario)
  BY <1>1 DEF SelectUnit, Scenarios, RunInputs
<1>4. Drained /\ edits' \in 0..MaxEdits
  BY <1>1, <1>2, EditCounts
<1>5. RunInv' /\ ScreenIsCurrent'
  BY <1>2, <1>3, RunUntouched DEF IInv
<1>6. PlotInv' /\ SeriesIsCurrent'
  BY <1>2, <1>3, RestartPlotKeeps DEF IInv
<1>7. VerdictInv'
  BY <1>2, <1>4, VerdictOutsideRuns DEF IInv, runVars
<1>8. LinkInv'
  BY <1>2, <1>3, RestartPersistenceKeeps DEF IInv
<1>9. TypeOK'
  BY <1>1, <1>2, <1>3, <1>4, RestartTypes DEF TypeOK, runVars
<1>10. QED  BY <1>5, <1>6, <1>7, <1>8, <1>9 DEF IInv

\* The Calculate button restarts the run only.
LEMMA RecalculateKeeps ==
    ASSUME IInv, Recalculate
    PROVE  IInv'
<1>1. TypeOK /\ scenario \in Scenarios
  BY DEF IInv, TypeOK
<1>2. /\ Edit /\ RestartRun(scenario) /\ scenario' = scenario
      /\ UNCHANGED <<inputVars, engine, screen, plotVars, urlVars>>
  BY DEF Recalculate, inputVars
<1>3. Drained /\ edits' \in 0..MaxEdits
  BY <1>1, <1>2, EditCounts
<1>4. RunInv' /\ ScreenIsCurrent'
  BY <1>1, <1>2, RestartRunKeeps DEF IInv
<1>5. PlotInv' /\ SeriesIsCurrent'
  BY <1>2, PlotUntouched DEF IInv
<1>6. \A r \in runs' : r \in runs \/ r.phase # "verifying"
  BY <1>2 DEF RestartRun
<1>7. VerdictInv'
  BY <1>2, <1>3, <1>6, VerdictOutsideRuns DEF IInv
<1>8. LinkInv'
  BY <1>2, LinkUntouched DEF IInv
<1>9. TypeOK'
  BY <1>1, <1>2, <1>3, RestartTypes DEF TypeOK, inputVars, plotVars, urlVars
<1>10. QED  BY <1>4, <1>5, <1>7, <1>8, <1>9 DEF IInv

-----------------------------------------------------------------------------
(* A page that starts.                                                     *)

\* What a page starts with has its type.
LEMMA FirstTypes ==
    ASSUME NEW s \in Scenarios
    PROVE  /\ FirstRun(s) \subseteq [id : Nat, phase : Phases, job : Jobs,
                                     errors : SUBSET {"calculate"}]
           /\ FirstPlot(s) \subseteq [id : Nat, phase : {"timer", "pricing"}, job : PlotJobs]
           /\ Blank \in [calc : Jobs \cup {None}, verd : Verdicts \cup {None},
                         engineError : BOOLEAN,
                         resultError : SUBSET {"tariff", "calculate", "verify"},
                         isComputing : BOOLEAN]
<1>1. RunInputs(s) \in Jobs /\ PlotInputs(s) \in PlotJobs
  BY InputTypes
<1>2. FirstRun(s) \subseteq [id : Nat, phase : Phases, job : Jobs,
                             errors : SUBSET {"calculate"}]
  BY <1>1 DEF FirstRun, Phases
<1>3. FirstPlot(s) \subseteq [id : Nat, phase : {"timer", "pricing"}, job : PlotJobs]
  BY <1>1 DEF FirstPlot
<1>4. Blank \in [calc : Jobs \cup {None}, verd : Verdicts \cup {None},
                 engineError : BOOLEAN,
                 resultError : SUBSET {"tariff", "calculate", "verify"},
                 isComputing : BOOLEAN]
  BY DEF Blank
<1>5. QED  BY <1>2, <1>3, <1>4

\* The first request for the series, if the mode and the form allow one.
LEMMA FirstPlots ==
    ASSUME NEW s
    PROVE  /\ PlotInputs(s).run = RunInputs(s)
           /\ LacksTariff(RunInputs(s)) => FirstPlot(s) = {}
           /\ \A p \in FirstPlot(s) : /\ p.id = 1 /\ p.phase = "timer"
                                      /\ p.job = PlotInputs(s)
                                      /\ ~LacksTariff(RunInputs(s))
           /\ \A p1, p2 \in FirstPlot(s) : p1 = p2
           /\ ~LacksTariff(RunInputs(s)) => FirstPlot(s) # {}
<1>1. PlotInputs(s).run = RunInputs(s)
  BY DEF PlotInputs
<1>2. CASE LacksTariff(RunInputs(s))
  BY <1>1, <1>2 DEF FirstPlot
<1>3. CASE ~LacksTariff(RunInputs(s))
  <2> DEFINE new == [id |-> 1, phase |-> "timer", job |-> PlotInputs(s)]
  <2>1. FirstPlot(s) = {new}
    BY <1>3 DEF FirstPlot
  <2>2. new.id = 1 /\ new.phase = "timer" /\ new.job = PlotInputs(s)
    OBVIOUS
  <2> HIDE DEF new
  <2>3. QED  BY <1>1, <1>3, <2>1, <2>2
<1>4. QED  BY <1>2, <1>3

\* Init's and Reload's page, opened with scenario s.
LEMMA FreshPage ==
    ASSUME NEW s \in Scenarios, scenario = s, parseError = FALSE, engine = "unloaded",
           requestId = 1, runs = FirstRun(s), screen = Blank, plotId = 1,
           plots = FirstPlot(s), series = None, url \in Scenarios \cup {None},
           Boot(url) = s, initial = s, changed = FALSE, saving = None,
           edits \in 0..MaxEdits
    PROVE  IInv
<1>2. TypeOK
  BY FirstTypes DEF TypeOK
<1>3. RunInv /\ ScreenIsCurrent
  BY DEF RunInv, ScreenIsCurrent, FirstRun, IsLatest, RunSettled
<1>4. VerdictInv
  BY DEF VerdictInv, FirstRun, Blank
<1>5. PlotInv /\ SeriesIsCurrent
  BY FirstPlots DEF PlotInv, SeriesIsCurrent, SeriesFor, IsLatestPlot, PlotSettled
<1>6. LinkInv
  BY DEF LinkInv
<1>7. QED  BY <1>2, <1>3, <1>4, <1>5, <1>6 DEF IInv

\* decodeState, or the default, gives a scenario.
LEMMA BootType ==
    ASSUME NEW u \in Scenarios \cup {None}
    PROVE  Boot(u) \in Scenarios
BY SimulatorAssumption DEF SimulatorAssumption, Boot

\* The invariant holds on a page that was just opened.
LEMMA InitEstablishes == Init => IInv
<1> SUFFICES ASSUME Init PROVE IInv
  OBVIOUS
<1>1. Default \in Scenarios /\ Boot(None) = Default /\ 0 \in 0..MaxEdits
  BY SimulatorAssumption DEF SimulatorAssumption, Boot
<1>2. QED  BY <1>1, FreshPage DEF Init

\* And on one that is reloaded.
LEMMA ReloadKeeps ==
    ASSUME IInv, Reload
    PROVE  IInv'
<1>1. TypeOK /\ url \in Scenarios \cup {None}
  BY DEF IInv, TypeOK
<1>2. Boot(url) \in Scenarios /\ url' = url /\ Boot(url') = Boot(url)
  BY <1>1, BootType DEF Reload
<1>3. edits' \in 0..MaxEdits
  BY <1>1, EditCounts DEF Reload
<1> DEFINE s == Boot(url)
<1>4. /\ scenario' = s /\ parseError' = FALSE /\ engine' = "unloaded"
      /\ requestId' = 1 /\ runs' = FirstRun(s) /\ screen' = Blank /\ plotId' = 1
      /\ plots' = FirstPlot(s) /\ series' = None /\ initial' = s
      /\ changed' = FALSE /\ saving' = None
  BY DEF Reload
<1> HIDE DEF s
<1>5. s \in Scenarios /\ Boot(url') = s
  BY <1>2 DEF s
<1>6. TypeOK'
  BY <1>1, <1>2, <1>3, <1>4, <1>5, FirstTypes DEF TypeOK
<1>7. RunInv' /\ ScreenIsCurrent'
  BY <1>4 DEF RunInv, ScreenIsCurrent, FirstRun, IsLatest, RunSettled
<1>8. VerdictInv'
  BY <1>4 DEF VerdictInv, FirstRun, Blank
<1>9. PlotInv' /\ SeriesIsCurrent'
  BY <1>4, FirstPlots DEF PlotInv, SeriesIsCurrent, SeriesFor, IsLatestPlot,
                          PlotSettled
<1>10. LinkInv'
  BY <1>4, <1>5 DEF LinkInv
<1>11. QED  BY <1>6, <1>7, <1>8, <1>9, <1>10 DEF IInv

-----------------------------------------------------------------------------
(* The run's own steps.                                                    *)

\* A superseded run ends without a trace.
LEMMA StaleRunEnds ==
    ASSUME IInv, NEW r \in runs, ~IsLatest(r), Finish(r),
           UNCHANGED <<scenario, requestId, screen, engine>>
    PROVE  RunInv' /\ ScreenIsCurrent' /\ VerdictInv'
<1>1. runs' = runs \ {r}
  BY DEF Finish
<1>2. RunInv /\ ScreenIsCurrent /\ VerdictInv
  BY DEF IInv
<1>3. RunSettled' = RunSettled
  BY <1>1 DEF RunSettled, IsLatest
<1>4. RunInv'
  BY <1>1, <1>2, <1>3 DEF RunInv, IsLatest
<1>5. ScreenIsCurrent'
  BY <1>2, <1>3 DEF ScreenIsCurrent, ScreenFor
<1>6. r.phase # "verifying"
  BY <1>2 DEF VerdictInv
<1>7. VerdictInv'
  BY <1>1, <1>2, <1>6 DEF VerdictInv, IsLatest
<1>8. QED  BY <1>4, <1>5, <1>7

\* The latest run ends with the screen as it should be.
LEMMA LatestRunEnds ==
    ASSUME RunInv, NEW r \in runs, IsLatest(r), Finish(r),
           UNCHANGED <<scenario, requestId, engine>>,
           screen' = ScreenFor(r.job), Settled(engine) \/ LacksTariff(r.job)
    PROVE  RunInv' /\ ScreenIsCurrent'
<1>1. runs' = runs \ {r}
  BY DEF Finish
<1>2. \A q \in runs' : q.id <= requestId' /\ ~IsLatest(q)'
  BY <1>1 DEF RunInv, IsLatest
<1>3. r.job = RunInputs(scenario)
  BY DEF RunInv
<1>4. RunInv'
  BY <1>2, <1>3 DEF RunInv
<1>5. ScreenIsCurrent'
  BY <1>3 DEF ScreenIsCurrent, ScreenFor
<1>6. QED  BY <1>4, <1>5

\* The latest run goes on.
LEMMA LatestRunAdvances ==
    ASSUME RunInv, NEW r \in runs, IsLatest(r), NEW next, Advance(r, next),
           next.id = r.id, next.job = r.job, UNCHANGED <<scenario, requestId>>,
           next.phase # "timer",
           ~LacksTariff(r.job), engine' # "unloaded",
           ~screen'.engineError, screen'.resultError = {},
           next.phase # "verifying" => next.errors = {},
           next.phase = "verifying" =>
              /\ engine' = "ready"
              /\ IF Payload(r.job) \notin Unpriced
                 THEN screen'.calc = r.job /\ next.errors = {}
                 ELSE /\ r.job.rawJson # None
                      /\ screen'.calc = None
                      /\ next.errors = {"calculate"}
    PROVE  RunInv' /\ ScreenIsCurrent'
<1>1. runs' = (runs \ {r}) \cup {next}
  BY DEF Advance
<1>2. \A q \in runs' : q.id <= requestId' /\ (IsLatest(q)' <=> q = next)
  BY <1>1 DEF RunInv, IsLatest
<1>3. r.job = RunInputs(scenario)
  BY DEF RunInv
<1>4. ~RunSettled'
  BY <1>1, <1>2 DEF RunSettled
<1>5. RunInv'
  BY <1>2, <1>3, <1>4 DEF RunInv
<1>6. QED  BY <1>4, <1>5 DEF ScreenIsCurrent

\* The loader's promise, for those who are not looking at it.
EngineStep == \/ engine' = engine
              \/ engine = "unloaded" /\ engine' = "loading"
              \/ engine = "loading" /\ engine' \in {"ready", "failed"}

\* A run keeps its part of the invariant when the loader starts or answers.
LEMMA EngineMovesUnderRun ==
    ASSUME IInv, EngineStep, UNCHANGED <<scenario, runVars>>
    PROVE  RunInv' /\ ScreenIsCurrent' /\ VerdictInv'
<1>1. RunInv /\ ScreenIsCurrent /\ VerdictInv
  BY DEF IInv
<1>2. RunInv'
  BY <1>1 DEF RunInv, EngineStep, IsLatest, RunSettled, runVars, Settled
<1>3. ScreenIsCurrent'
  BY <1>1 DEF RunInv, ScreenIsCurrent, EngineStep, IsLatest, RunSettled, runVars, Settled,
              ScreenFor
<1>4. VerdictInv'
  BY <1>1 DEF VerdictInv, EngineStep, IsLatest, runVars
<1>5. QED  BY <1>2, <1>3, <1>4

\* So does a series.
LEMMA EngineMovesUnderPlot ==
    ASSUME IInv, EngineStep, UNCHANGED <<scenario, plotVars>>
    PROVE  PlotInv' /\ SeriesIsCurrent'
<1>1. PlotInv /\ SeriesIsCurrent /\ PlotInputs(scenario).run = RunInputs(scenario)
  BY DEF IInv, PlotInputs
<1>2. PlotInv'
  BY <1>1 DEF PlotInv, EngineStep, IsLatestPlot, PlotSettled, plotVars, Settled
<1>3. SeriesIsCurrent'
  BY <1>1 DEF PlotInv, SeriesIsCurrent, EngineStep, IsLatestPlot, PlotSettled, plotVars,
              Settled, SeriesFor
<1>4. QED  BY <1>2, <1>3

\* The run's timer fires.
LEMMA RunTimerKeeps ==
    ASSUME IInv, RunTimer
    PROVE  IInv'
<1>1. TypeOK /\ RunInv /\ VerdictInv
  BY DEF IInv
<1>2. Drained /\ UNCHANGED <<inputVars, requestId, plotVars, urlVars, edits>>
  BY DEF RunTimer
<1>3. EngineStep /\ UNCHANGED scenario
  BY DEF RunTimer, LoadEngine, EngineStep, inputVars
<1>4. PlotInv' /\ SeriesIsCurrent'
  BY <1>2, <1>3, EngineMovesUnderPlot
<1>5. LinkInv'
  BY <1>2, <1>3, LinkUntouched DEF IInv
<1>6. PICK r \in runs :
         /\ r.phase = "timer"
         /\ IF ~IsLatest(r)
            THEN Finish(r) /\ UNCHANGED <<screen, engine>>
            ELSE IF LacksTariff(r.job)
            THEN /\ Finish(r)
                 /\ screen' = [Blank EXCEPT !.resultError = {"tariff"}]
                 /\ UNCHANGED engine
            ELSE /\ Advance(r, [r EXCEPT !.phase = "calculating"])
                 /\ screen' = [screen EXCEPT !.engineError = FALSE, !.resultError = {},
                                             !.isComputing = TRUE]
                 /\ LoadEngine
  BY DEF RunTimer
<1>7. CASE ~IsLatest(r)
  <2>1. Finish(r) /\ UNCHANGED <<screen, engine>>
    BY <1>6, <1>7
  <2>2. RunInv' /\ ScreenIsCurrent' /\ VerdictInv'
    BY <1>2, <1>3, <1>7, <2>1, StaleRunEnds
  <2>3. TypeOK'
    BY <1>1, <1>2, <2>1 DEF TypeOK, Finish, inputVars, plotVars, urlVars
  <2>4. QED  BY <1>4, <1>5, <2>2, <2>3 DEF IInv
<1>8. CASE IsLatest(r) /\ LacksTariff(r.job)
  <2>1. /\ Finish(r) /\ screen' = [Blank EXCEPT !.resultError = {"tariff"}]
        /\ UNCHANGED engine
    BY <1>6, <1>8
  <2>2. RunInv' /\ ScreenIsCurrent'
    BY <1>1, <1>2, <1>3, <1>8, <2>1, LatestRunEnds DEF ScreenFor
  <2>3. screen'.calc = None
    BY <2>1 DEF Blank
  <2>4. VerdictInv'
    BY <1>1, <1>2, <2>1, <2>3, VerdictOutsideRuns DEF Finish
  <2>5. TypeOK'
    BY <1>1, <1>2, <2>1 DEF TypeOK, Finish, Blank, inputVars, plotVars, urlVars
  <2>6. QED  BY <1>4, <1>5, <2>2, <2>4, <2>5 DEF IInv
<1>9. CASE IsLatest(r) /\ ~LacksTariff(r.job)
  <2> DEFINE next == [r EXCEPT !.phase = "calculating"]
  <2>1. /\ Advance(r, next) /\ LoadEngine
        /\ screen' = [screen EXCEPT !.engineError = FALSE, !.resultError = {},
                                    !.isComputing = TRUE]
    BY <1>6, <1>9
  <2>2. /\ r \in [id : Nat, phase : Phases, job : Jobs, errors : SUBSET {"calculate"}]
        /\ r.errors = {}
    BY <1>1, <1>6, <1>9 DEF TypeOK, RunInv
  <2>3. /\ next.id = r.id /\ next.job = r.job /\ next.phase = "calculating"
        /\ next.errors = {}
        /\ next \in [id : Nat, phase : Phases, job : Jobs, errors : SUBSET {"calculate"}]
    BY <2>2 DEF Phases
  <2>4. /\ ~screen'.engineError /\ screen'.resultError = {}
        /\ screen'.calc = screen.calc /\ screen'.verd = screen.verd
        /\ engine' # "unloaded" /\ engine' \in {"unloaded", "loading", "ready", "failed"}
    BY <1>1, <2>1 DEF TypeOK, LoadEngine
  <2> HIDE DEF next
  <2>5. RunInv' /\ ScreenIsCurrent'
    BY <1>1, <1>2, <1>3, <1>9, <2>1, <2>3, <2>4, LatestRunAdvances
  <2>6. runs' = (runs \ {r}) \cup {next}
    BY <2>1 DEF Advance
  <2>7. VerdictInv'
    BY <1>1, <1>2, <2>3, <2>4, <2>6, VerdictOutsideRuns
  <2>8. TypeOK'
    BY <1>1, <1>2, <2>1, <2>3, <2>4, <2>6 DEF TypeOK, inputVars, plotVars, urlVars
  <2>9. QED  BY <1>4, <1>5, <2>5, <2>7, <2>8 DEF IInv
<1>10. QED  BY <1>7, <1>8, <1>9

\* The run's first result arrives.
LEMMA CalculatedKeeps ==
    ASSUME IInv, Calculated
    PROVE  IInv'
<1>1. TypeOK /\ RunInv /\ VerdictInv
  BY DEF IInv
<1>2. engine = "ready" /\ UNCHANGED <<inputVars, engine, requestId, plotVars, urlVars, edits>>
  BY DEF Calculated
<1>3. EngineStep /\ UNCHANGED scenario
  BY <1>2 DEF EngineStep, inputVars
<1>4. PlotInv' /\ SeriesIsCurrent' /\ LinkInv'
  BY <1>2, <1>3, EngineMovesUnderPlot, LinkUntouched DEF IInv
<1>5. PICK r \in runs :
         /\ r.phase = "calculating"
         /\ IF ~IsLatest(r)
            THEN Finish(r) /\ UNCHANGED screen
            ELSE IF Payload(r.job) \notin Unpriced
            THEN /\ screen' = [screen EXCEPT !.calc = r.job]
                 /\ Advance(r, [r EXCEPT !.phase = "verifying"])
            ELSE IF r.job.rawJson # None
            THEN /\ screen' = [screen EXCEPT !.calc = None]
                 /\ Advance(r, [r EXCEPT !.phase = "verifying", !.errors = {"calculate"}])
            ELSE /\ screen' = [Blank EXCEPT !.resultError = {"calculate"}]
                 /\ Finish(r)
  BY DEF Calculated
<1>6. CASE ~IsLatest(r)
  <2>1. Finish(r) /\ UNCHANGED screen
    BY <1>5, <1>6
  <2>2. RunInv' /\ ScreenIsCurrent' /\ VerdictInv'
    BY <1>2, <1>3, <1>6, <2>1, StaleRunEnds
  <2>3. TypeOK'
    BY <1>1, <1>2, <2>1 DEF TypeOK, Finish, inputVars, plotVars, urlVars
  <2>4. QED  BY <1>4, <2>2, <2>3 DEF IInv
<1>7. ASSUME IsLatest(r)
      PROVE  /\ r \in [id : Nat, phase : Phases, job : Jobs, errors : SUBSET {"calculate"}]
             /\ r.errors = {} /\ ~LacksTariff(r.job)
             /\ ~screen.engineError /\ screen.resultError = {}
  BY <1>1, <1>5, <1>7 DEF TypeOK, RunInv
<1>8. ASSUME NEW next, IsLatest(r), Advance(r, next), next.phase = "verifying",
             next.id = r.id,
             next \in [id : Nat, phase : Phases, job : Jobs, errors : SUBSET {"calculate"}],
             RunInv', ScreenIsCurrent', TypeOK'
      PROVE  IInv'
  <2>1. runs' = (runs \ {r}) \cup {next} /\ next.id = requestId' /\ engine' = "ready"
    BY <1>2, <1>8 DEF Advance, IsLatest
  <2>2. VerdictInv'
    BY <1>1, <1>2, <1>8, <2>1 DEF VerdictInv, IsLatest
  <2>3. QED  BY <1>4, <1>8, <2>2 DEF IInv
<1>9. CASE IsLatest(r) /\ Payload(r.job) \notin Unpriced
  <2> DEFINE next == [r EXCEPT !.phase = "verifying"]
  <2>1. screen' = [screen EXCEPT !.calc = r.job] /\ Advance(r, next)
    BY <1>5, <1>9
  <2>2. /\ next.id = r.id /\ next.job = r.job /\ next.phase = "verifying"
        /\ next.errors = {}
        /\ next \in [id : Nat, phase : Phases, job : Jobs, errors : SUBSET {"calculate"}]
    BY <1>7, <1>9 DEF Phases
  <2>3. ~screen'.engineError /\ screen'.resultError = {} /\ screen'.calc = r.job
    BY <1>1, <1>7, <1>9, <2>1 DEF TypeOK
  <2> HIDE DEF next
  <2>4. RunInv' /\ ScreenIsCurrent'
    BY <1>1, <1>2, <1>3, <1>7, <1>9, <2>1, <2>2, <2>3, LatestRunAdvances
  <2>5. runs' = (runs \ {r}) \cup {next} /\ r.job \in Jobs
    BY <1>7, <1>9, <2>1 DEF Advance
  <2>6. TypeOK'
    BY <1>1, <1>2, <2>1, <2>2, <2>5 DEF TypeOK, inputVars, plotVars, urlVars
  <2>7. QED  BY <1>8, <1>9, <2>1, <2>2, <2>4, <2>6
<1>10. CASE IsLatest(r) /\ Payload(r.job) \in Unpriced /\ r.job.rawJson # None
  <2> DEFINE next == [r EXCEPT !.phase = "verifying", !.errors = {"calculate"}]
  <2>1. screen' = [screen EXCEPT !.calc = None] /\ Advance(r, next)
    BY <1>5, <1>10
  <2>2. /\ next.id = r.id /\ next.job = r.job /\ next.phase = "verifying"
        /\ next.errors = {"calculate"}
        /\ next \in [id : Nat, phase : Phases, job : Jobs, errors : SUBSET {"calculate"}]
    BY <1>7, <1>10 DEF Phases
  <2>3. ~screen'.engineError /\ screen'.resultError = {} /\ screen'.calc = None
    BY <1>1, <1>7, <1>10, <2>1 DEF TypeOK
  <2> HIDE DEF next
  <2>4. RunInv' /\ ScreenIsCurrent'
    BY <1>1, <1>2, <1>3, <1>7, <1>10, <2>1, <2>2, <2>3, LatestRunAdvances
  <2>5. runs' = (runs \ {r}) \cup {next}
    BY <2>1 DEF Advance
  <2>6. TypeOK'
    BY <1>1, <1>2, <2>1, <2>2, <2>5 DEF TypeOK, inputVars, plotVars, urlVars
  <2>7. QED  BY <1>8, <1>10, <2>1, <2>2, <2>4, <2>6
<1>11. CASE IsLatest(r) /\ Payload(r.job) \in Unpriced /\ r.job.rawJson = None
  <2>1. screen' = [Blank EXCEPT !.resultError = {"calculate"}] /\ Finish(r)
    BY <1>5, <1>11
  <2>2. screen' = ScreenFor(r.job)
    <3>1. screen' = [calc |-> None, verd |-> None, engineError |-> FALSE,
                     resultError |-> {"calculate"}, isComputing |-> FALSE]
      BY <2>1 DEF Blank
    <3>2. {"calculate"} \cup {} = {"calculate"}
      OBVIOUS
    <3>3. QED  BY <1>2, <1>7, <1>11, <3>1, <3>2 DEF ScreenFor
  <2>3. RunInv' /\ ScreenIsCurrent'
    BY <1>1, <1>2, <1>3, <1>11, <2>1, <2>2, LatestRunEnds DEF Settled
  <2>4. screen'.calc = None
    BY <2>1 DEF Blank
  <2>5. VerdictInv'
    BY <1>1, <1>2, <2>1, <2>4 DEF VerdictInv, Finish, IsLatest
  <2>6. TypeOK'
    BY <1>1, <1>2, <2>1 DEF TypeOK, Finish, Blank, inputVars, plotVars, urlVars
  <2>7. QED  BY <1>4, <2>3, <2>5, <2>6 DEF IInv
<1>12. QED  BY <1>6, <1>9, <1>10, <1>11

\* The run's second result arrives.
LEMMA VerifiedKeeps ==
    ASSUME IInv, Verified
    PROVE  IInv'
<1>1. TypeOK /\ RunInv /\ VerdictInv
  BY DEF IInv
<1>2. engine = "ready" /\ UNCHANGED <<inputVars, engine, requestId, plotVars, urlVars, edits>>
  BY DEF Verified
<1>3. EngineStep /\ UNCHANGED scenario
  BY <1>2 DEF EngineStep, inputVars
<1>4. PlotInv' /\ SeriesIsCurrent' /\ LinkInv'
  BY <1>2, <1>3, EngineMovesUnderPlot, LinkUntouched DEF IInv
<1>5. PICK r \in runs :
         /\ r.phase = "verifying"
         /\ Finish(r)
         /\ IF ~IsLatest(r)
            THEN UNCHANGED screen
            ELSE IF Payload(r.job) \notin Unverified
            THEN screen' = [screen EXCEPT
                     !.verd = [of |-> r.job, total |-> VerifiedTotal(r.job)],
                     !.resultError = r.errors, !.isComputing = FALSE]
            ELSE screen' = [screen EXCEPT !.verd = None,
                     !.resultError = r.errors \cup {"verify"}, !.isComputing = FALSE]
  BY DEF Verified
<1>6. IsLatest(r)
  BY <1>1, <1>5 DEF VerdictInv
<1>7. /\ r.job \in Jobs /\ ~LacksTariff(r.job) /\ ~screen.engineError
      /\ r.errors \in SUBSET {"calculate"}
      /\ IF Payload(r.job) \notin Unpriced
         THEN screen.calc = r.job /\ r.errors = {}
         ELSE r.job.rawJson # None /\ screen.calc = None /\ r.errors = {"calculate"}
  BY <1>1, <1>5, <1>6 DEF TypeOK, RunInv
<1>8. [of |-> r.job, total |-> VerifiedTotal(r.job)] \in Verdicts
  BY <1>7 DEF Verdicts, Totals, VerifiedTotal
<1>9. /\ screen'.calc = screen.calc
      /\ screen'.verd = IF Payload(r.job) \notin Unverified
                        THEN [of |-> r.job, total |-> VerifiedTotal(r.job)] ELSE None
      /\ screen' \in [calc : Jobs \cup {None}, verd : Verdicts \cup {None},
                      engineError : BOOLEAN,
                      resultError : SUBSET {"tariff", "calculate", "verify"},
                      isComputing : BOOLEAN]
      /\ screen' = [calc |-> screen'.calc, verd |-> screen'.verd, engineError |-> FALSE,
                    resultError |-> r.errors \cup (IF Payload(r.job) \notin Unverified
                                                   THEN {} ELSE {"verify"}),
                    isComputing |-> FALSE]
  <2>1. screen \in [calc : Jobs \cup {None}, verd : Verdicts \cup {None},
                    engineError : BOOLEAN,
                    resultError : SUBSET {"tariff", "calculate", "verify"},
                    isComputing : BOOLEAN]
    BY <1>1 DEF TypeOK
  <2>2. screen.engineError = FALSE
    BY <1>7, <2>1
  <2>3. CASE Payload(r.job) \notin Unverified
    <3> DEFINE verdict == [of |-> r.job, total |-> VerifiedTotal(r.job)]
    <3>1. screen' = [screen EXCEPT !.verd = verdict, !.resultError = r.errors,
                                   !.isComputing = FALSE]
      BY <1>5, <1>6, <2>3
    <3>2. verdict \in Verdicts /\ r.errors \cup {} = r.errors
      BY <1>7, <1>8
    <3> HIDE DEF verdict
    <3>3. /\ screen'.calc = screen.calc /\ screen'.verd = verdict
          /\ screen'.engineError = FALSE /\ screen'.resultError = r.errors
          /\ screen'.isComputing = FALSE
          /\ screen' \in [calc : Jobs \cup {None}, verd : Verdicts \cup {None},
                          engineError : BOOLEAN,
                          resultError : SUBSET {"tariff", "calculate", "verify"},
                          isComputing : BOOLEAN]
      BY <1>7, <2>1, <2>2, <3>1, <3>2
    <3>4. QED  BY <2>3, <3>2, <3>3 DEF verdict
  <2>4. CASE Payload(r.job) \in Unverified
    <3>1. screen' = [screen EXCEPT !.verd = None, !.resultError = r.errors \cup {"verify"},
                                   !.isComputing = FALSE]
      BY <1>5, <1>6, <2>4
    <3>2. QED  BY <1>7, <2>1, <2>2, <2>4, <3>1
  <2>5. QED  BY <2>3, <2>4
<1>10. screen' = ScreenFor(r.job)
  <2>1. CASE Payload(r.job) \notin Unpriced
    BY <1>2, <1>7, <1>9, <2>1 DEF ScreenFor
  <2>2. CASE Payload(r.job) \in Unpriced
    BY <1>2, <1>7, <1>9, <2>2 DEF ScreenFor
  <2>3. QED  BY <2>1, <2>2
<1>11. RunInv' /\ ScreenIsCurrent'
  BY <1>1, <1>2, <1>3, <1>5, <1>6, <1>10, LatestRunEnds DEF Settled
<1>12. \A q \in runs' : q.phase # "verifying"
  BY <1>1, <1>5, <1>6 DEF RunInv, VerdictInv, Finish
<1>13. screen'.calc # None /\ screen'.verd # None => screen'.verd.of = screen'.calc
  BY <1>7, <1>9
<1>14. VerdictInv'
  BY <1>12, <1>13 DEF VerdictInv
<1>15. TypeOK'
  BY <1>1, <1>2, <1>5, <1>9 DEF TypeOK, Finish, inputVars, plotVars, urlVars
<1>16. QED  BY <1>4, <1>11, <1>14, <1>15 DEF IInv

\* The engine could not be loaded, and the run tells so.
LEMMA RunFailsKeeps ==
    ASSUME IInv, RunFails
    PROVE  IInv'
<1>1. TypeOK /\ RunInv /\ VerdictInv
  BY DEF IInv
<1>2. engine = "failed" /\ UNCHANGED <<inputVars, engine, requestId, plotVars, urlVars, edits>>
  BY DEF RunFails
<1>3. EngineStep /\ UNCHANGED scenario
  BY <1>2 DEF EngineStep, inputVars
<1>4. PlotInv' /\ SeriesIsCurrent' /\ LinkInv'
  BY <1>2, <1>3, EngineMovesUnderPlot, LinkUntouched DEF IInv
<1>5. PICK r \in runs :
         /\ r.phase # "timer"
         /\ Finish(r)
         /\ screen' = IF IsLatest(r)
                      THEN [screen EXCEPT !.calc = None, !.verd = None,
                                          !.engineError = TRUE, !.isComputing = FALSE]
                      ELSE screen
  BY DEF RunFails
<1>6. TypeOK'
  BY <1>1, <1>2, <1>5 DEF TypeOK, Finish, inputVars, plotVars, urlVars
<1>7. CASE ~IsLatest(r)
  BY <1>2, <1>3, <1>4, <1>5, <1>6, <1>7, StaleRunEnds DEF IInv
<1>8. CASE IsLatest(r)
  <2>1. ~LacksTariff(r.job) /\ screen.resultError = {}
    BY <1>1, <1>5, <1>8 DEF RunInv
  <2>2. screen' = ScreenFor(r.job)
    <3>1. screen' = [calc |-> None, verd |-> None, engineError |-> TRUE,
                     resultError |-> {}, isComputing |-> FALSE]
      BY <1>1, <1>5, <1>8, <2>1 DEF TypeOK
    <3>2. QED  BY <1>2, <2>1, <3>1 DEF ScreenFor, Blank
  <2>3. RunInv' /\ ScreenIsCurrent'
    BY <1>1, <1>2, <1>3, <1>5, <1>8, <2>2, LatestRunEnds DEF Settled
  <2>4. screen'.calc = None
    BY <1>1, <1>5, <1>8 DEF TypeOK
  <2>5. VerdictInv'
    BY <1>1, <1>2, <1>5, <2>4 DEF VerdictInv, Finish, IsLatest
  <2>6. QED  BY <1>4, <1>6, <2>3, <2>5 DEF IInv
<1>9. QED  BY <1>7, <1>8

-----------------------------------------------------------------------------
(* The series' own steps.                                                  *)

\* A request ends: without a trace if it is superseded, or with the points as
\* they should be.
LEMMA PlotEnds ==
    ASSUME PlotInv, SeriesIsCurrent, NEW p \in plots, plots' = plots \ {p},
           UNCHANGED <<scenario, plotId, engine>>,
           IsLatestPlot(p) => /\ series' = SeriesFor(p.job)
                              /\ Settled(engine) \/ ~Plottable(p.job),
           ~IsLatestPlot(p) => series' = series
    PROVE  PlotInv' /\ SeriesIsCurrent'
<1>1. CASE IsLatestPlot(p)
  <2>1. \A q \in plots' : q.id <= plotId' /\ ~IsLatestPlot(q)'
    BY <1>1 DEF PlotInv, IsLatestPlot
  <2>2. p.job = PlotInputs(scenario)
    BY <1>1 DEF PlotInv
  <2>3. PlotInv'
    BY <1>1, <2>1, <2>2 DEF PlotInv
  <2>4. SeriesIsCurrent'
    BY <1>1, <2>2 DEF SeriesIsCurrent, SeriesFor
  <2>5. QED  BY <2>3, <2>4
<1>2. CASE ~IsLatestPlot(p)
  <2>1. PlotSettled' = PlotSettled
    BY <1>2 DEF PlotSettled, IsLatestPlot
  <2>2. PlotInv'
    BY <1>2, <2>1 DEF PlotInv, IsLatestPlot
  <2>3. SeriesIsCurrent'
    BY <1>2, <2>1 DEF SeriesIsCurrent, SeriesFor
  <2>4. QED  BY <2>2, <2>3
<1>3. QED  BY <1>1, <1>2

\* The series' timer fires.
LEMMA PlotTimerKeeps ==
    ASSUME IInv, PlotTimer
    PROVE  IInv'
<1>1. TypeOK /\ PlotInv /\ SeriesIsCurrent
  BY DEF IInv
<1>2. Drained /\ UNCHANGED <<inputVars, runVars, plotId, urlVars, edits>>
  BY DEF PlotTimer
<1>3. EngineStep /\ UNCHANGED scenario
  BY <1>2 DEF PlotTimer, LoadEngine, EngineStep, inputVars
<1>4. RunInv' /\ ScreenIsCurrent' /\ VerdictInv'
  BY <1>2, <1>3, EngineMovesUnderRun
<1>5. LinkInv'
  BY <1>2, <1>3, LinkUntouched DEF IInv
<1>6. PICK p \in plots :
         /\ p.phase = "timer"
         /\ IF Plottable(p.job)
            THEN /\ plots' = (plots \ {p}) \cup {[p EXCEPT !.phase = "pricing"]}
                 /\ LoadEngine
                 /\ UNCHANGED series
            ELSE /\ plots' = plots \ {p}
                 /\ series' = IF IsLatestPlot(p) THEN None ELSE series
                 /\ UNCHANGED engine
  BY DEF PlotTimer
<1>7. CASE Plottable(p.job)
  <2> DEFINE next == [p EXCEPT !.phase = "pricing"]
  <2>1. plots' = (plots \ {p}) \cup {next} /\ LoadEngine /\ UNCHANGED series
    BY <1>6, <1>7
  <2>2. p \in [id : Nat, phase : {"timer", "pricing"}, job : PlotJobs]
    BY <1>1 DEF TypeOK
  <2>3. /\ next.id = p.id /\ next.job = p.job /\ next.phase = "pricing"
        /\ next \in [id : Nat, phase : {"timer", "pricing"}, job : PlotJobs]
    BY <2>2
  <2>4. engine' # "unloaded" /\ engine' \in {"unloaded", "loading", "ready", "failed"}
    BY <1>1, <2>1 DEF TypeOK, LoadEngine
  <2> HIDE DEF next
  <2>5. PlotSettled' = PlotSettled
    BY <1>2, <2>1, <2>3 DEF PlotSettled, IsLatestPlot
  <2>6. PlotInv'
    BY <1>1, <1>2, <1>3, <1>7, <2>1, <2>3, <2>4, <2>5
    DEF PlotInv, IsLatestPlot, EngineStep, Settled
  <2>7. SeriesIsCurrent'
    <3>1. PlotInputs(scenario).run = RunInputs(scenario)
      BY DEF PlotInputs
    <3>2. QED  BY <1>1, <1>3, <2>1, <2>5, <3>1
               DEF PlotInv, SeriesIsCurrent, SeriesFor, EngineStep, Settled
  <2>8. TypeOK'
    BY <1>1, <1>2, <2>1, <2>3, <2>4 DEF TypeOK, inputVars, runVars, urlVars
  <2>9. QED  BY <1>4, <1>5, <2>6, <2>7, <2>8 DEF IInv
<1>8. CASE ~Plottable(p.job)
  <2>1. /\ plots' = plots \ {p} /\ UNCHANGED engine
        /\ series' = IF IsLatestPlot(p) THEN None ELSE series
    BY <1>6, <1>8
  <2>2. PlotInv' /\ SeriesIsCurrent'
    BY <1>1, <1>2, <1>3, <1>8, <2>1, PlotEnds DEF SeriesFor
  <2>3. TypeOK'
    BY <1>1, <1>2, <2>1 DEF TypeOK, inputVars, runVars, urlVars
  <2>4. QED  BY <1>4, <1>5, <2>2, <2>3 DEF IInv
<1>9. QED  BY <1>7, <1>8

\* The series arrives.
LEMMA PlottedKeeps ==
    ASSUME IInv, Plotted
    PROVE  IInv'
<1>1. TypeOK /\ PlotInv /\ SeriesIsCurrent
  BY DEF IInv
<1>2. Settled(engine) /\ UNCHANGED <<inputVars, engine, runVars, plotId, urlVars, edits>>
  BY DEF Plotted
<1>3. EngineStep /\ UNCHANGED scenario
  BY <1>2 DEF EngineStep, inputVars
<1>4. RunInv' /\ ScreenIsCurrent' /\ VerdictInv' /\ LinkInv'
  BY <1>2, <1>3, EngineMovesUnderRun, LinkUntouched DEF IInv
<1>5. PICK p \in plots :
         /\ p.phase = "pricing"
         /\ plots' = plots \ {p}
         /\ series' = IF ~IsLatestPlot(p) THEN series
                      ELSE IF engine = "ready" THEN p.job ELSE None
  BY DEF Plotted
<1>6. IsLatestPlot(p) => series' = SeriesFor(p.job)
  BY <1>1, <1>2, <1>5 DEF PlotInv, SeriesFor, Settled
<1>7. PlotInv' /\ SeriesIsCurrent'
  BY <1>1, <1>2, <1>3, <1>5, <1>6, PlotEnds
<1>8. TypeOK'
  BY <1>1, <1>2, <1>5 DEF TypeOK, inputVars, runVars, urlVars
<1>9. QED  BY <1>4, <1>7, <1>8 DEF IInv

-----------------------------------------------------------------------------
(* The loader and the link.                                                *)

\* The loader's promise is fulfilled or rejected.
LEMMA EngineAnswersKeeps ==
    ASSUME IInv, EngineAnswers
    PROVE  IInv'
<1>1. /\ engine = "loading" /\ engine' \in {"ready", "failed"}
      /\ UNCHANGED <<inputVars, runVars, plotVars, urlVars, edits>>
  BY DEF EngineAnswers
<1>2. EngineStep /\ UNCHANGED scenario
  BY <1>1 DEF EngineStep, inputVars
<1>3. RunInv' /\ ScreenIsCurrent' /\ VerdictInv' /\ PlotInv' /\ SeriesIsCurrent' /\ LinkInv'
  BY <1>1, <1>2, EngineMovesUnderRun, EngineMovesUnderPlot, LinkUntouched DEF IInv
<1>4. TypeOK'
  BY <1>1 DEF IInv, TypeOK, inputVars, runVars, plotVars, urlVars
<1>5. QED  BY <1>3, <1>4 DEF IInv

\* The link is updated.
LEMMA SaveUrlKeeps ==
    ASSUME IInv, SaveUrl
    PROVE  IInv'
<1>1. /\ saving # None /\ saving' = None
      /\ url' = IF TooLong(saving) THEN url ELSE saving
      /\ UNCHANGED <<inputVars, engine, runVars, plotVars, initial, changed, edits>>
  BY DEF SaveUrl
<1>2. EngineStep /\ UNCHANGED scenario
  BY <1>1 DEF EngineStep, inputVars
<1>3. RunInv' /\ ScreenIsCurrent' /\ VerdictInv' /\ PlotInv' /\ SeriesIsCurrent'
  BY <1>1, <1>2, EngineMovesUnderRun, EngineMovesUnderPlot
<1>4. LinkInv'
  BY <1>1, <1>2 DEF IInv, LinkInv
<1>5. TypeOK'
  BY <1>1 DEF IInv, TypeOK, inputVars, runVars, plotVars
<1>6. QED  BY <1>3, <1>4, <1>5 DEF IInv

\* A step that changes nothing.
LEMMA Untouched ==
    ASSUME IInv, UNCHANGED vars
    PROVE  IInv'
<1>1. UNCHANGED <<inputVars, engine, runVars, plotVars, urlVars, edits>>
  BY DEF vars
<1>2. EngineStep /\ UNCHANGED scenario
  BY <1>1 DEF EngineStep, inputVars
<1>3. RunInv' /\ ScreenIsCurrent' /\ VerdictInv' /\ PlotInv' /\ SeriesIsCurrent' /\ LinkInv'
  BY <1>1, <1>2, EngineMovesUnderRun, EngineMovesUnderPlot, LinkUntouched DEF IInv
<1>4. TypeOK'
  BY <1>1 DEF IInv, TypeOK, inputVars, runVars, plotVars, urlVars
<1>5. QED  BY <1>3, <1>4 DEF IInv

\* Every step of Next, and the stutter.
LEMMA StepKeeps == IInv /\ [Next]_vars => IInv'
<1> SUFFICES ASSUME IInv, [Next]_vars PROVE IInv'
  OBVIOUS
<1>1. CASE UserEvent
  BY <1>1, EditsKeep, ShowJsonKeeps, ShowFormKeeps, SelectUnitKeeps, RecalculateKeeps,
     ReloadKeeps DEF UserEvent
<1>2. CASE RunStep
  BY <1>2, RunTimerKeeps, CalculatedKeeps, VerifiedKeeps, RunFailsKeeps DEF RunStep
<1>3. CASE PlotStep
  BY <1>3, PlotTimerKeeps, PlottedKeeps DEF PlotStep
<1>4. CASE EngineAnswers
  BY <1>4, EngineAnswersKeeps
<1>5. CASE SaveUrl
  BY <1>5, SaveUrlKeeps
<1>6. CASE UNCHANGED vars
  BY <1>6, Untouched
<1>7. QED  BY <1>1, <1>2, <1>3, <1>4, <1>5, <1>6 DEF Next

-----------------------------------------------------------------------------
(* The theorems.                                                           *)

\* The inductive invariant of the simulator.
LEMMA Invariance == Spec => []IInv
<1>1. QED  BY InitEstablishes, StepKeeps, PTL DEF Spec

\* The state has its types: inputs, requests, results (App.tsx:61-87).
THEOREM TypesCorrect == Spec => []TypeOK
<1>1. IInv => TypeOK
  BY DEF IInv
<1>2. QED  BY <1>1, Invariance, PTL

\* With no run on its way, the screen answers what is entered, for any number
\* of edits, superseded runs, failures and reloads (App.tsx:226-326).
THEOREM ScreenFollowsInputs == Spec => []ScreenIsCurrent
<1>1. IInv => ScreenIsCurrent
  BY DEF IInv
<1>2. QED  BY <1>1, Invariance, PTL

\* With no request on its way, the chart answers what is entered
\* (App.tsx:328-377).
THEOREM SeriesFollowsInputs == Spec => []SeriesIsCurrent
<1>1. IInv => SeriesIsCurrent
  BY DEF IInv
<1>2. QED  BY <1>1, Invariance, PTL

\* A report and a verdict on the screen are of one run's inputs
\* (App.tsx:257-298).
THEOREM VerdictsMatchReports == Spec => []VerdictIsOfTheReport
<1>1. IInv => VerdictIsOfTheReport
  BY DEF IInv, VerdictInv, VerdictIsOfTheReport, Drained, Runnable, Settled
<1>2. QED  BY <1>1, Invariance, PTL

\* A link in the address bar opens what is entered (App.tsx:179-224).
THEOREM LinksFollowInputs == Spec => []LinkIsCurrent
<1>1. IInv => LinkIsCurrent
  <2> SUFFICES ASSUME IInv, saving = None, ~TooLong(scenario),
                      scenario.form \notin Unrestorable
               PROVE  Boot(url) = scenario
    BY DEF LinkIsCurrent
  <2>1. LinkInv /\ scenario # None
    BY SimulatorAssumption DEF SimulatorAssumption, IInv, TypeOK
  <2>2. CASE ~changed
    BY <2>1, <2>2 DEF LinkInv
  <2>3. CASE changed
    BY <2>1, <2>3 DEF LinkInv, Boot
  <2>4. QED  BY <2>2, <2>3
<1>2. QED  BY <1>1, Invariance, PTL

\* A result that appears is of what is entered when it appears
\* (the isLatest tests, App.tsx:261-322, 359-367).
THEOREM NothingStale == Spec => NothingStaleAppears
<1> DEFINE Fresh ==
      /\ screen'.calc # screen.calc => screen'.calc \in {None, RunInputs(scenario)}
      /\ series' # series => series' \in {None, PlotInputs(scenario)}
<1>1. ASSUME IInv, [Next]_vars PROVE [Fresh]_vars
  <2>1. TypeOK /\ RunInv /\ PlotInv
    BY <1>1 DEF IInv
  <2>2. CASE UserEvent
    <3>1. screen'.calc \in {None, screen.calc}
      <4>1. screen' = screen \/ ClearErrors \/ screen' = Blank
        BY <2>2
        DEF UserEvent, ReplaceForm, SelectVersion, SelectMode, SelectOptions, OnJsonChange,
            ShowJson, ShowForm, SelectUnit, Recalculate, Reload, runVars
      <4>2. QED  BY <2>1, <4>1, ClearErrorsKeepsResults DEF Blank
    <3>2. series' \in {None, series}
      BY <2>2
      DEF UserEvent, ReplaceForm, SelectVersion, SelectMode, SelectOptions, OnJsonChange,
          ShowJson, ShowForm, SelectUnit, Recalculate, Reload, plotVars, Become, RestartPlot
    <3>3. QED  BY <3>1, <3>2
  <2>3. CASE RunStep
    <3>1. UNCHANGED series
      BY <2>3 DEF RunStep, RunTimer, Calculated, Verified, RunFails, plotVars
    <3>2. CASE RunTimer \/ Verified \/ RunFails
      <4>1. CASE RunTimer
        <5>1. \/ screen' = screen
              \/ screen' = [Blank EXCEPT !.resultError = {"tariff"}]
              \/ screen' = [screen EXCEPT !.engineError = FALSE, !.resultError = {},
                                          !.isComputing = TRUE]
          BY <4>1 DEF RunTimer
        <5>2. QED  BY <2>1, <3>1, <5>1 DEF TypeOK, Blank
      <4>2. CASE Verified
        <5>1. screen' = screen \/ \E v, e : screen' = [screen EXCEPT !.verd = v,
                                    !.resultError = e, !.isComputing = FALSE]
          BY <4>2 DEF Verified
        <5>2. QED  BY <2>1, <3>1, <5>1 DEF TypeOK
      <4>3. CASE RunFails
        <5>1. \/ screen' = screen
              \/ screen' = [screen EXCEPT !.calc = None, !.verd = None,
                                          !.engineError = TRUE, !.isComputing = FALSE]
          BY <4>3 DEF RunFails
        <5>2. QED  BY <2>1, <3>1, <5>1 DEF TypeOK
      <4>4. QED  BY <3>2, <4>1, <4>2, <4>3
    <3>3. CASE Calculated
      <4>1. PICK r \in runs :
               \/ screen' = screen
               \/ IsLatest(r) /\ screen' = [screen EXCEPT !.calc = r.job]
               \/ screen' = [screen EXCEPT !.calc = None]
               \/ screen' = [Blank EXCEPT !.resultError = {"calculate"}]
        BY <3>3 DEF Calculated
      <4>2. IsLatest(r) => r.job = RunInputs(scenario)
        BY <2>1 DEF RunInv
      <4>3. QED  BY <2>1, <3>1, <4>1, <4>2 DEF TypeOK, Blank
    <3>4. QED  BY <2>3, <3>1, <3>2, <3>3 DEF RunStep
  <2>4. CASE PlotStep
    BY <2>1, <2>4 DEF PlotStep, PlotTimer, Plotted, PlotInv, runVars
  <2>5. CASE EngineAnswers \/ SaveUrl
    BY <2>5 DEF EngineAnswers, SaveUrl, runVars, plotVars
  <2>6. QED  BY <1>1, <2>2, <2>3, <2>4, <2>5 DEF Next
<1>2. QED  BY <1>1, Invariance, PTL DEF Spec, NothingStaleAppears
=============================================================================

SPECIFICATION Spec
CONSTANTS
    DayLength = 8
    WeekLength = 2
    Base <- MCBase
    Sessions <- MCSessions
    Options <- MCOptions
    Unit = 1
    MaxTicks = 4
CHECK_DEADLOCK FALSE
INVARIANTS PointsAreEven LastPointIsTheFullRun PricedAsInTheMainRun CurveFallsForAReason
    UnpricedPeriodsStillCount StepRoundsOnce BoundsOfTheOneTariff SplittingIsFree
    VerdictsAreJust

SPECIFICATION Spec
CONSTANTS
    DayLength = 8
    WeekLength = 2
    Base <- MCBase
    Cdrs <- MCCdrs
    Options <- MCOptions
INVARIANTS TariffsGoByTheirIds OneTariffIsTheOverride VersionsAgree
    DimensionsAreUnordered TaxIncludedIsOnlyNotation OwnTotalsVerify FormKeepsTheBill

\* Four values among sixteen that the revisions narrow, move or fill.
CONSTANTS
    Values <- MCValues
    MaxRows = 4
SPECIFICATION SchemaSpec
INVARIANTS
    SchemaIsVersion
    StartupMigrates
    HistorySurvives

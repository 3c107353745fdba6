SPECIFICATION DbSpec
CONSTANTS
    Stops <- MCStops
    Uploads = {"plain", "repeated"}
INVARIANTS
    FailuresAreAboutData
    HeadServesModels
    RowsFitSchema
    VerifyIsSound
PROPERTIES
    OnlyObligationsAreLost

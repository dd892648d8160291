\* Two queries at once on a Drizzle connection.
SPECIFICATION FairSpec
CONSTANTS
    Requests = {r1, r2}
    Messages <- MCMessages
    Options <- MCOptions
    Names <- MCNames
    Administered <- MCAdministered
    MaxQueries = 2
    Lowers <- MCLowers
    Uppers <- MCUppers
    LowerOf <- MCLowerOf
    Others <- MCOthers
    DefaultId <- MCDefaultId
    Underscore = "_"
    Blank = " "
    Undefined = undefined
    NotText = notText
    Throws = throws
    DefaultPath = defaultPath
    NoOptions = noOptions
    NoMessage = noMessage
    NoSchema = noSchema
    NoConn = noConn
    NoApp = noApp
INVARIANTS QueriesScoped

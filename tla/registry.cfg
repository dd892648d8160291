\* One tenant, through registrations, updates, connections and restarts.
SPECIFICATION Spec
CONSTANTS
    Tenants = {t1}
    Keys <- MCKeys
    NameOf <- MCNameOf
    Names <- MCNames
    Inherited = {"constructor"}
    MaxMet = 2
    Presets <- MCPresets
    Contents <- MCContents
    NoRow = noRow
    NoPreset = noPreset
    NoDraft = noDraft
    NoConn = noConn
    NoCall = noCall
INVARIANTS TypeOK ServedAsEnabled

SPECIFICATION Spec
CONSTANTS
    ConnIDs = {c1, c2}
    ToolIDs = {t1, t2}
    ServerIDs = {s1}
    Slugs = {"x", "y"}
    Endpoints = {e1, e2}
    Admins = {a1, a2}
    Bundles <- MCBundles
    MaxWrites = 4
    None = None
SYMMETRY Symmetry
CHECK_DEADLOCK FALSE
INVARIANT TypeOK
INVARIANT CatalogueMatchesSettings
PROPERTY ImportsAsDecided

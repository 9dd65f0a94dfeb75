\* Two wasm files, two commits, two setups, three moves around the tool.
SPECIFICATION ProvSpec
CONSTANTS
    None = None
    Torn = Torn
    Names = {1, 2}
    Tree = Tree
    Revisions = {v1, v2}
    Setups = {s1, s2}
    Edits = {edit}
    Targets = {wasm32v1, wasm32}
    MaxMoves = 3
SYMMETRY GateSymmetry
INVARIANTS
    FilesAreWhole
    ShasumsAgree
PROPERTIES
    VerifiedIsPinned
    FreshManifestPasses

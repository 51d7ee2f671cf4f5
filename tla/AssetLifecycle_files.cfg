CONSTANTS
    Tasks = {t1}
    Uploads = {u1, u2}
    MaxVersions = 3
    MaxIncidents = 3
SYMMETRY Symmetry
SPECIFICATION Spec
INVARIANTS
    TypeOK
    OpenTaskKeepsItsFile
    LostFileIsStillACandidate
    MarkedRowsHaveNoFile

CONSTANTS
    Tasks = {t1}
    Uploads = {u1}
    MaxVersions = 2
    MaxIncidents = 1
SPECIFICATION Spec
PROPERTY ClosedTasksAreCleaned

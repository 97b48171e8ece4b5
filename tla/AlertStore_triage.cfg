SPECIFICATION Spec
CHECK_DEADLOCK FALSE
CONSTANTS
    pipeline = pipeline
    worker = worker
    Patchers = {patch1}
    Enrichers = {}
    Statuses = {"new", "acknowledged"}
    New = "new"
    Prunes = 0
    MaxOcc = 2
INVARIANTS
    TriageKept

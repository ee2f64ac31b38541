CONSTANTS
  Hosts = {h1, h2}
  Ids = {o1, o2, o3, o4}
  Intents = {n1, n2}
  Keys = {k1, k2}
  MaxOperations = 3
  RequestCap = 24
  Plan <- SharedPlan
SPECIFICATION Spec
INVARIANTS TypeOK OneWriter LockMatchesLedger RunsOnce NoDuplicateFiles UploadsCovered ReceiptTrue UploadsPlanned RequestsSuffice
PROPERTIES OutcomesFinal SingleWriting

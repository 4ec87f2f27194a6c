SPECIFICATION Spec
CONSTANTS
  MaxResolverRecords = 4
  MaxResolvedAddresses = 3
  MaxAllowedHosts = 2
  Attempts = {"a1", "a2"}
  DrainLimit = 2
  Workers = {"a1", "a2"}
  Orders = {"o1"}
  Configured = {"generic_hmac_sha256", "stripe_v1", "standard_webhooks"}
  ActiveKeys = {"k1"}
  ReplayWindow = 300
  MaxCrashes = 1
  Writers = {"command", "offline"}
  ReportPaths <- MCReportPaths
  SanitizedPaths = {"assertions.jsonl", "result-summary.json"}
  MaxConfigNodes = 6
  MaxConfigDepth = 4
  MaxDiagnostics = 2
  InitialTree <- MCTree
  RootChain <- MCRootChain
  MaxSwaps = 1
  Invocations <- MCInvocations
  Command = "command"
  RetryableStatuses = {503}
INVARIANTS
  PeerAuthorized
  OutcomeIsHonest EvidenceIsAdmitted
  ReceiverKeepsItsWord
  LoadedPathsHold
  ReportsAgree
CHECK_DEADLOCK FALSE

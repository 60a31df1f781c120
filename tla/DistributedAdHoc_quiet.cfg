\* Every conformance of MC_DistributedAdHoc, checked with and without diagnostics.
CONSTANTS
  Protocols <- MCProtocols
  Methods <- MCMethods
  Diagnose = {TRUE, FALSE}
SPECIFICATION Spec
INVARIANT
  ReportsMissingQuietly
CHECK_DEADLOCK FALSE

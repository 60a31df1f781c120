\* Every input of MC_DistributedChecks to each of the four checks.
CONSTANTS
  Functions <- MCFunctions
  Diagnose = {TRUE, FALSE}
  AdHocProtocols <- MCAdHocProtocols
  Methods <- MCMethods
  Decls <- MCDecls
  ModuleLoaded = {TRUE, FALSE}
  Decoders <- MCDecoders
  Systems <- MCSystems
  SerializationProtocolSet <- MCSerializationProtocols
SPECIFICATION Spec
INVARIANTS
  TypeOK
  ReportsFirstProblem
  MissingRequirementsDiagnosed
  InitializersDiagnosed
  SpecialPropertiesDiagnosed
  CandidatesDecode
\* Each check returns; the computation then stops.
CHECK_DEADLOCK FALSE

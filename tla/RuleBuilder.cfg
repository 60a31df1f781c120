\* Every declaration world of three protocols, both entry points.
CONSTANTS
  Decls <- MCDecls
  ObjCClasses <- MCObjCClasses
  NoValue = NoValue
  Worlds <- MCWorlds
  Entries <- MCEntries
SPECIFICATION Spec
INVARIANTS
  TypeOK
  ClosureComplete
  SignatureRequestsAcyclic
  RulesClosed
PROPERTIES
  Refinement
\* The builder is one call that runs to completion and stops at pc "done".
CHECK_DEADLOCK FALSE

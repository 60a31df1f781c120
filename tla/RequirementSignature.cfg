\* Requirement signatures of every minimized rule set over three terms,
\* in every rule order, built twice.
CONSTANTS
  TermOrder <- MCTermOrder
  Concretes <- MCConcretes
  ProtoOrder <- MCProtoOrder
  Layouts <- MCLayouts
  Supers <- MCSupers
  KindOrder <- MCKindOrder
  Protos <- MCProtos
  Kickoff <- MCKickoff
  NoValue = NoValue
  Inputs <- MCInputs
SPECIFICATION Spec
INVARIANTS
  TypeOK
  SignatureMeaning
  SameTypeCanonical
  Determinism
  EveryProtoCached
\* The computation is a batch job: it stops once both copies are done.
CHECK_DEADLOCK FALSE

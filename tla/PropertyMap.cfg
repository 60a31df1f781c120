\* Layout, superclass and concrete class-type unification over two keys,
\* every arrival order of up to three rules.
CONSTANTS
  Keys <- MCKeys
  SubstTerms <- MCSubstTerms
  Protocols <- MCProtocols
  Layouts <- MCLayouts
  LayoutLeq <- MCLayoutLeq
  ClassL <- MCClassL
  NativeClassL <- MCNativeClassL
  Classes <- MCClasses
  Parent <- MCParent
  ParentArg <- MCParentArg
  ObjCClasses <- MCObjCClasses
  Structs = {}
  StructArity = 1
  Leaves <- MCLeaves
  Param = Param
  PassArg = PassArg
  NoValue = NoValue
  Inputs <- ClassInputs
SPECIFICATION Spec
INVARIANTS
  TypeOK
  RelationsSound
  ConflictsAreLocal
  SuperclassChainWellFormed
  SuffixBagsInherited
\* The construction is a batch computation: it stops when a pass adds no rule.
CHECK_DEADLOCK FALSE

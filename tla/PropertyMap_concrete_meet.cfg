\* Two concrete struct types whose meet is more specific than both.
CONSTANTS
  Keys <- MCKeys
  SubstTerms <- MCSubstTerms
  Protocols <- MCProtocols
  Layouts <- MCLayouts
  LayoutLeq <- MCLayoutLeq
  ClassL <- MCClassL
  NativeClassL <- MCNativeClassL
  Classes <- MCClasses
  Parent <- MCParent
  ParentArg <- MCParentArg
  ObjCClasses <- MCObjCClasses
  Structs = {"S"}
  StructArity = 2
  Leaves <- MCLeaves
  Param = Param
  PassArg = PassArg
  NoValue = NoValue
  Inputs <- ConcreteMeetInputs
SPECIFICATION Spec
INVARIANT ActiveConcreteMatchesRule
CHECK_DEADLOCK FALSE

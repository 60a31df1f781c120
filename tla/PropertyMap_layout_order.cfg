\* AnyObject then the stricter _NativeClass at one key.
CONSTANTS
  Keys <- MCKeys
  SubstTerms <- MCSubstTerms
  Protocols <- MCProtocols
  Layouts <- MCLayouts
  LayoutLeq <- MCLayoutLeq
  ClassL <- MCClassL
  NativeClassL <- MCNativeClassL
  Classes <- MCClasses
  Parent <- MCParent
  ParentArg <- MCParentArg
  ObjCClasses <- MCObjCClasses
  Structs = {}
  StructArity = 1
  Leaves <- MCLeaves
  Param = Param
  PassArg = PassArg
  NoValue = NoValue
  Inputs <- LayoutOrderInputs
SPECIFICATION Spec
INVARIANT ActiveLayoutMatchesRule
CHECK_DEADLOCK FALSE

\* A concrete struct type at U.V, class constraints on its suffix V.
CONSTANTS
  Keys <- MCKeys
  SubstTerms <- MCSubstTerms
  Protocols <- MCProtocols
  Layouts <- MCLayouts
  LayoutLeq <- MCLayoutLeq
  ClassL <- MCClassL
  NativeClassL <- MCNativeClassL
  Classes <- MCClasses
  Parent <- MCParent
  ParentArg <- MCParentArg
  ObjCClasses <- MCObjCClasses
  Structs = {"S"}
  StructArity = 1
  Leaves <- MCLeaves
  Param = Param
  PassArg = PassArg
  NoValue = NoValue
  Inputs <- StructPostPassInputs
SPECIFICATION Spec
INVARIANT ConflictsAreLocal
CHECK_DEADLOCK FALSE

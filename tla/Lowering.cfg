\* Every requirement and every protocol declaration of MC_Lowering.
CONSTANTS
  Params = {"T", "U"}
  Structs = {"Pair"}
  Classes = {"C", "D"}
  Protos = {"P", "Q"}
  NoValue = NoValue
  SelfParam = "T"
  Inputs <- MCInputs
  Decls <- MCDecls
  Ground <- MCGround
  Conforms <- MCConforms
  SubclassOf <- MCSubclassOf
SPECIFICATION Spec
INVARIANTS
  TypeOK
  DesugaredNormalized
  PreservesMeaning
  StructuralMeaning
\* Each entry point runs once; the computation then stops.
CHECK_DEADLOCK FALSE

-------------------------------- MODULE Lowering --------------------------------
(***************************************************************************)
(* The requirement desugarer of RequirementLowering.cpp:52-344 as one      *)
(* component: desugarRequirement and realizeRequirement on a single        *)
(* requirement (Desugar), and StructuralRequirementsRequest on a protocol  *)
(* declaration, which realizes every requirement the declaration writes    *)
(* through the same operators (StructuralRequirements).  The two entry     *)
(* points share no state; a behaviour runs one of them, chosen at the      *)
(* start, while the other stays in its initial state on a fixed input.    *)
(***************************************************************************)
EXTENDS Naturals

CONSTANTS Params, Structs, Classes, Protos, NoValue, Inputs, Ground, Conforms,
          SubclassOf, SelfParam, Decls

VARIABLES check, req, desugared, realized, pc, proto, result, evaluated
desugarVars == <<req, desugared, realized, pc>>
structuralVars == <<proto, result, evaluated>>
allVars == <<check, desugarVars, structuralVars>>

De == INSTANCE Desugar
S == INSTANCE StructuralRequirements

(* An idle entry point: its initial state on a fixed input. *)
DesugarIdle == req = (CHOOSE r \in Inputs : TRUE) /\ De!Init
StructuralIdle == proto = (CHOOSE d \in Decls : TRUE) /\ S!Init

Init ==
  /\ check \in {"desugar", "structural"}
  /\ IF check = "desugar" THEN De!Init ELSE DesugarIdle
  /\ IF check = "structural" THEN S!Init ELSE StructuralIdle

Next ==
  \/ check = "desugar" /\ De!Next /\ UNCHANGED <<check, structuralVars>>
  \/ check = "structural" /\ S!Evaluate /\ UNCHANGED <<check, desugarVars>>

Spec == Init /\ [][Next]_allVars

-----------------------------------------------------------------------------
(* The properties of the two entry points, stated and explained in        *)
(* Desugar and StructuralRequirements.                                     *)

(* Desugaring and realization emit well-formed requirements, never        *)
(* marked inferred.                                                         *)
TypeOK == De!TypeOK

(* Every desugared or realized requirement has a type-parameter subject.  *)
DesugaredNormalized == De!DesugaredNormalized

(* Desugaring never strengthens a requirement and, where the contract     *)
(* decides it, never weakens it.                                            *)
PreservesMeaning == De!PreservesMeaning

(* The structural requirements mean what the protocol declaration says.   *)
StructuralMeaning == S!StructuralMeaning
=============================================================================

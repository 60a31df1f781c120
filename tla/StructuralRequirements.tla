------------------------- MODULE StructuralRequirements -------------------------
(***************************************************************************)
(* StructuralRequirementsRequest::evaluate and                             *)
(* realizeInheritedRequirements (RequirementLowering.cpp:271-344): the     *)
(* structural requirements of a protocol, in order:                         *)
(*   - each inherited type of the protocol, realized on Self, skipping an  *)
(*     inherited type that does not resolve;                                *)
(*   - the protocol's own where clause, realized;                          *)
(*   - for an @objc protocol, the implicit AnyObject layout on Self, and   *)
(*     nothing more;                                                        *)
(*   - otherwise, for each associated type, its inherited types realized   *)
(*     on it and then its own where clause.                                 *)
(* Realization and desugaring are Desugar's operators.  A protocol         *)
(* declaration is a record: objc flag, inherited types (NoValue for one    *)
(* that does not resolve), where clause, associated types.                 *)
(***************************************************************************)
EXTENDS Naturals, Sequences, SequencesExt

CONSTANTS
  Params, Structs, Classes, Protos, NoValue, Ground, Conforms, SubclassOf,
  SelfParam,   \* the protocol's Self type parameter
  Decls        \* the protocol declarations

VARIABLES proto, result, evaluated
vars == <<proto, result, evaluated>>

(* The desugaring operators; Desugar's own state is not used here. *)
D == INSTANCE Desugar WITH Inputs <- {}, req <- NoValue, desugared <- <<>>,
                           realized <- <<>>, pc <- "start"

SelfType == D!Ty(SelfParam, <<>>)

(* Mutant: the loop stops at the first inherited type that does not      *)
(* resolve instead of skipping it.                                        *)
realizeInheritedRequirementsBreak(type, inheritedTypes) ==
  LET stop == SelectSeq([i \in DOMAIN inheritedTypes |-> i],
                        LAMBDA i : inheritedTypes[i] = NoValue)
      upTo == IF stop = <<>> THEN Len(inheritedTypes) ELSE Head(stop) - 1
  IN FoldLeft(LAMBDA acc, t : acc \o D!realizeTypeRequirement(type, t, "typeReprLoc"),
              <<>>, SubSeq(inheritedTypes, 1, upTo))

(* realizeInheritedRequirements with infer = false: an inherited type     *)
(* that InheritedTypeRequest does not resolve is skipped (continue).      *)
realizeInheritedRequirements(type, inheritedTypes) ==
  FoldLeft(LAMBDA acc, t : IF t = NoValue THEN acc
                           ELSE acc \o D!realizeTypeRequirement(type, t, "typeReprLoc"),
           <<>>, inheritedTypes)

(* WhereClauseOwner::visitRequirements with realizeRequirement. *)
visitRequirements(where) ==
  FoldLeft(LAMBDA acc, r : acc \o D!realizeRequirement(r, "separatorLoc"), <<>>, where)

(* The implicit, inferred AnyObject requirement of an @objc protocol. *)
ObjCLayout ==
  [req |-> D!Requirement("layout", SelfType, "AnyObject"), loc |-> "protoLoc", inferred |-> TRUE]

StructuralRequirementsRequest(d) ==
  LET own == realizeInheritedRequirements(SelfType, d.inherited) \o visitRequirements(d.where)
      assocReqs ==
        FoldLeft(LAMBDA acc, a : acc \o realizeInheritedRequirements(D!Ty(a.name, <<>>), a.inherited)
                                     \o visitRequirements(a.where),
                 <<>>, d.assocs)
  IN IF d.objc THEN Append(own, ObjCLayout) ELSE own \o assocReqs

Init == /\ proto \in Decls
        /\ result = <<>>
        /\ evaluated = FALSE

(* The evaluator runs the request once and caches its result. *)
Evaluate == /\ ~evaluated
            /\ result' = StructuralRequirementsRequest(proto)
            /\ evaluated' = TRUE
            /\ UNCHANGED proto

Spec == Init /\ [][Evaluate]_vars

-----------------------------------------------------------------------------
(* What the declaration states: each resolved inherited type T of a      *)
(* subject X reads X : T (a superclass bound when T is a class), each     *)
(* where-clause requirement reads as written, and an @objc protocol is    *)
(* class-constrained.  Associated types of an @objc protocol are ignored  *)
(* (the declaration checker rejects them).                               *)
InheritedMeaning(s, ts) ==
  LET resolved == SelectSeq(ts, LAMBDA t : t # NoValue)
  IN [i \in DOMAIN resolved |->
        D!Requirement(IF D!IsClassType(resolved[i]) THEN "superclass" ELSE "conformance",
                      s, resolved[i])]
Written(d) ==
  InheritedMeaning(SelfType, d.inherited) \o d.where
  \o IF d.objc THEN <<ObjCLayout.req>>
     ELSE FoldLeft(LAMBDA acc, a : acc \o InheritedMeaning(D!Ty(a.name, <<>>), a.inherited) \o a.where,
                   <<>>, d.assocs)

TypeOK ==
  /\ proto \in Decls
  /\ \A i \in DOMAIN result :
       /\ result[i].req.kind \in {"conformance", "superclass", "layout", "sametype"}
       /\ result[i].loc \in {"typeReprLoc", "separatorLoc", "protoLoc"}
       /\ result[i].inferred \in BOOLEAN
       /\ result[i].inferred => result[i] = ObjCLayout   \* only the implicit one
  /\ evaluated \in BOOLEAN

(* The structural requirements mean what the protocol declaration says:   *)
(* every type satisfying the declaration satisfies every structural       *)
(* requirement, and every type satisfying the structural requirements     *)
(* satisfies each declared requirement the desugarer decides; no          *)
(* inherited type, where clause or associated type is lost by the walk,   *)
(* and an @objc protocol's Self is a class.                               *)
StructuralMeaning ==
  evaluated =>
    LET out == D!Unlocated(result)
        written == Written(proto)
    IN \A sigma \in D!Assignments :
         /\ D!AllHold(written, sigma) => D!AllHold(out, sigma)
         /\ D!AllHold(out, sigma) => D!AllHold(SelectSeq(written, LAMBDA r : D!Decided(r)), sigma)
=============================================================================

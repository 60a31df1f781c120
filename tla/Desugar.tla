-------------------------------- MODULE Desugar --------------------------------
(***************************************************************************)
(* Requirement desugaring and realization                                  *)
(* (lib/AST/RequirementMachine/RequirementLowering.cpp:52-266).            *)
(*                                                                         *)
(* desugarRequirement turns one requirement into zero or more requirements *)
(* whose subject is a type parameter: a composition splits into layout,    *)
(* superclass and conformance requirements, a same-type requirement is     *)
(* matched structurally, and anything else with a concrete subject is      *)
(* dropped.  realizeRequirement does the same for a written requirement,   *)
(* dispatching conformance and superclass requirements on the kind of the  *)
(* constraint type and attaching a location.                               *)
(*                                                                         *)
(* Types are records [head, args]; a type parameter is a head in Params.   *)
(* A constraint type is a protocol, a composition [protos, layout, super], *)
(* a class or another concrete type.  Each step takes one requirement.    *)
(***************************************************************************)
EXTENDS Naturals, Sequences, FiniteSets, SequencesExt

CONSTANTS
  Params,      \* type parameters
  Structs,     \* nominal heads with two generic arguments
  Classes,     \* class heads
  Protos,      \* protocols, in ProtocolDecl order
  NoValue,
  Inputs,      \* the requirements to desugar
  Ground,      \* ground types a type parameter may stand for
  Conforms,    \* <<ground type, protocol>>: the conformances that exist
  SubclassOf   \* <<class, class>>: reflexive, transitive subclassing

VARIABLES req, desugared, realized, pc
vars == <<req, desugared, realized, pc>>

Ty(h, args) == [head |-> h, args |-> args]
IsTypeParameter(t) == t.head \in Params
Requirement(k, a, b) == [kind |-> k, first |-> a, second |-> b]

(* Constraint types of conformance and superclass requirements. *)
ProtocolType(p) == [protos |-> <<p>>, layout |-> FALSE, super |-> NoValue]
IsProtocolType(c) == "protos" \in DOMAIN c /\ Len(c.protos) = 1 /\ ~c.layout /\ c.super = NoValue
IsExistentialType(c) == "protos" \in DOMAIN c
IsClassType(c) == "head" \in DOMAIN c /\ c.head \in Classes

-----------------------------------------------------------------------------
(* Mutant of mismatch: a concrete first type kept as the subject. *)
mismatchUnswapped(first, second) ==
  CASE IsTypeParameter(first) \/ IsTypeParameter(second) -> <<Requirement("sametype", first, second)>>
    [] OTHER -> <<>>

(* desugarSameTypeRequirement: the Matcher's mismatch callback. *)
mismatch(first, second) ==
  CASE IsTypeParameter(first) /\ IsTypeParameter(second) -> <<Requirement("sametype", first, second)>>
    [] IsTypeParameter(first)  -> <<Requirement("sametype", first, second)>>
    [] IsTypeParameter(second) -> <<Requirement("sametype", second, first)>>
    [] OTHER -> <<>>   \* FIXME: Record concrete type conflict

(* TypeMatcher::match: equal types match; the same nominal head matches   *)
(* argument-wise, left to right; anything else is a mismatch.            *)
RECURSIVE match(_, _)
match(a, b) ==
  IF a = b THEN <<>>
  ELSE IF a.head = b.head /\ a.head \in Structs
       THEN FoldLeft(LAMBDA acc, i : acc \o match(a.args[i], b.args[i]), <<>>, <<1, 2>>)
       ELSE mismatch(a, b)

desugarSameTypeRequirement(lhs, rhs) == match(lhs, rhs)

desugarSuperclassRequirement(subjectType, constraintType) ==
  IF ~IsTypeParameter(subjectType) THEN <<>>
  ELSE <<Requirement("superclass", subjectType, constraintType)>>

desugarLayoutRequirement(subjectType, layout) ==
  IF ~IsTypeParameter(subjectType) THEN <<>>
  ELSE <<Requirement("layout", subjectType, layout)>>

(* Mutant of desugarConformanceRequirement: the superclass of the        *)
(* composition forgotten.                                                *)
desugarConformanceRequirementNoSuper(subjectType, constraintType) ==
  IF IsProtocolType(constraintType)
  THEN IF ~IsTypeParameter(subjectType) THEN <<>>
       ELSE <<Requirement("conformance", subjectType, constraintType)>>
  ELSE (IF constraintType.layout THEN desugarLayoutRequirement(subjectType, "AnyObject") ELSE <<>>)
       \o (IF ~IsTypeParameter(subjectType) THEN <<>>
           ELSE [i \in DOMAIN constraintType.protos |->
                   Requirement("conformance", subjectType, ProtocolType(constraintType.protos[i]))])

(* desugarConformanceRequirement: the protocol fast path, else the        *)
(* existential layout's layout constraint, superclass and protocols.     *)
desugarConformanceRequirement(subjectType, constraintType) ==
  IF IsProtocolType(constraintType)
  THEN IF ~IsTypeParameter(subjectType) THEN <<>>
       ELSE <<Requirement("conformance", subjectType, constraintType)>>
  ELSE (IF constraintType.layout THEN desugarLayoutRequirement(subjectType, "AnyObject") ELSE <<>>)
       \o (IF constraintType.super # NoValue
           THEN desugarSuperclassRequirement(subjectType, Ty(constraintType.super, <<>>))
           ELSE <<>>)
       \o (IF ~IsTypeParameter(subjectType) THEN <<>>
           ELSE [i \in DOMAIN constraintType.protos |->
                   Requirement("conformance", subjectType, ProtocolType(constraintType.protos[i]))])

desugarRequirement(r) ==
  CASE r.kind = "conformance" -> desugarConformanceRequirement(r.first, r.second)
    [] r.kind = "superclass"  -> desugarSuperclassRequirement(r.first, r.second)
    [] r.kind = "layout"      -> desugarLayoutRequirement(r.first, r.second)
    [] r.kind = "sametype"    -> desugarSameTypeRequirement(r.first, r.second)

-----------------------------------------------------------------------------
(* StructuralRequirement: a requirement with a location and an inferred   *)
(* flag; inferRequirements is empty (FIXME: Implement).                   *)
LocatedInferred(reqs, loc) ==   \* mutant: wasInferred = true
  [i \in DOMAIN reqs |-> [req |-> reqs[i], loc |-> loc, inferred |-> TRUE]]
Located(reqs, loc) == [i \in DOMAIN reqs |-> [req |-> reqs[i], loc |-> loc, inferred |-> FALSE]]

realizeTypeRequirement(subjectType, constraintType, loc) ==
  CASE IsExistentialType(constraintType) ->
         Located(desugarConformanceRequirement(subjectType, constraintType), loc)
    [] IsClassType(constraintType) ->
         Located(desugarSuperclassRequirement(subjectType, constraintType), loc)
    [] OTHER -> <<>>   \* FIXME: Diagnose

realizeRequirement(r, loc) ==
  CASE r.kind \in {"conformance", "superclass"} -> realizeTypeRequirement(r.first, r.second, loc)
    [] r.kind = "layout"   -> Located(desugarLayoutRequirement(r.first, r.second), loc)
    [] r.kind = "sametype" -> Located(desugarSameTypeRequirement(r.first, r.second), loc)

-----------------------------------------------------------------------------
Init == /\ req \in Inputs
        /\ desugared = <<>>
        /\ realized = <<>>
        /\ pc = "start"

DesugarRequirement == /\ pc = "start"
                      /\ desugared' = desugarRequirement(req)
                      /\ pc' = "desugared"
                      /\ UNCHANGED <<req, realized>>

RealizeRequirement == /\ pc = "desugared"
                      /\ realized' = realizeRequirement(req, "separatorLoc")
                      /\ pc' = "done"
                      /\ UNCHANGED <<req, desugared>>

Next == DesugarRequirement \/ RealizeRequirement
Spec == Init /\ [][Next]_vars

-----------------------------------------------------------------------------
(* The meaning of a requirement: whether it holds when each type          *)
(* parameter stands for a ground type.                                     *)
Assignments == [Params -> Ground]

RECURSIVE Subst(_, _)
Subst(t, sigma) ==
  IF IsTypeParameter(t) THEN sigma[t.head]
  ELSE Ty(t.head, [i \in DOMAIN t.args |-> Subst(t.args[i], sigma)])

Holds(r, sigma) ==
  LET g == Subst(r.first, sigma)
      c == r.second
  IN CASE r.kind = "conformance" ->
            /\ \A i \in DOMAIN c.protos : <<g, c.protos[i]>> \in Conforms
            /\ c.layout => g.head \in Classes
            /\ c.super # NoValue => <<g.head, c.super>> \in SubclassOf
       [] r.kind = "superclass" -> <<g.head, c.head>> \in SubclassOf
       [] r.kind = "layout"     -> g.head \in Classes
       [] r.kind = "sametype"   -> g = Subst(c, sigma)

AllHold(reqs, sigma) == \A i \in DOMAIN reqs : Holds(reqs[i], sigma)
Unlocated(sreqs) == [i \in DOMAIN sreqs |-> sreqs[i].req]

(* The requirements the contract of desugarRequirement decides: a         *)
(* satisfiable requirement whose subject is a type parameter, or a        *)
(* satisfiable same-type requirement.  The others (concrete subjects,     *)
(* concrete conflicts) are dropped for another layer to diagnose.         *)
Decided(r) ==
  /\ \E sigma \in Assignments : Holds(r, sigma)
  /\ r.kind # "sametype" => IsTypeParameter(r.first)

Kinds == {"conformance", "superclass", "layout", "sametype"}
TypeOK ==
  /\ req \in Inputs
  /\ \A out \in {desugared, Unlocated(realized)} : \A i \in DOMAIN out : out[i].kind \in Kinds
  /\ \A i \in DOMAIN realized : realized[i].loc = "separatorLoc" /\ ~realized[i].inferred
  /\ pc \in {"start", "desugared", "done"}

(* Desugaring and realization only emit requirements whose subject is a  *)
(* type parameter: the matcher puts the type-parameter side first, and    *)
(* the composition split drops every part of a concrete subject.          *)
DesugaredNormalized ==
  \A out \in {desugared, Unlocated(realized)} :
    \A i \in DOMAIN out : IsTypeParameter(out[i].first)

(* Desugaring and realization never strengthen a requirement, and for a  *)
(* requirement the contract decides they never weaken it either: under   *)
(* every assignment of the type parameters the output holds exactly when *)
(* the input does (structural matching, composition splitting).          *)
PreservesMeaning ==
  pc = "done" =>
    \A out \in {desugared, Unlocated(realized)} :
      \A sigma \in Assignments :
        /\ Holds(req, sigma) => AllHold(out, sigma)
        /\ Decided(req) /\ AllHold(out, sigma) => Holds(req, sigma)
=============================================================================

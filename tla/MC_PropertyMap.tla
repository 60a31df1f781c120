--------------------------- MODULE MC_PropertyMap ---------------------------
(***************************************************************************)
(* Instances of PropertyMap for TLC.                                       *)
(*                                                                         *)
(* Two keys, V and its extension U.V, so a bag can hold a rule inherited   *)
(* from a suffix.  Classes: Base (native) with Derived : Base<Int>, and   *)
(* Other, an unrelated Objective-C class.  Layouts: AnyObject, the        *)
(* stricter _NativeClass, and _Trivial, which conflicts with both.        *)
(* Inputs are every sequence of at most MaxInitial distinct rules of a    *)
(* pool, so every arrival order of them is explored.                      *)
(***************************************************************************)
EXTENDS PropertyMap

V  == <<"v">>
UV == <<"u", "v">>
MCKeys == {V, UV}
MCSubstTerms == <<<<"x">>, <<"y">>>>
MCProtocols == {"P"}
MCLayouts == {"AnyObject", "_NativeClass", "_Trivial"}
MCLayoutLeq == {<<"_NativeClass", "AnyObject">>}
MCClassL == "AnyObject"
MCNativeClassL == "_NativeClass"
MCClasses == {"Base", "Derived", "Other"}
MCParent == [c \in MCClasses |-> IF c = "Derived" THEN "Base" ELSE NoValue]
MCParentArg == [c \in MCClasses |-> IF c = "Derived" THEN "Int" ELSE PassArg]
MCObjCClasses == {"Other"}
MCLeaves == {"Int", "Str"}

(* Rules of the pool. *)
PoolInputs(props, max) ==
  LET pool == {[rhs |-> k, prop |-> p] : k \in MCKeys, p \in props}
  IN {s \in BoundedSeq(pool, max) : IsInjective(s)}

(* Layouts, superclasses and concrete class types of arity one. *)
ClassProps ==
  {ProtocolSym("P"),
   LayoutSym("AnyObject"), LayoutSym("_NativeClass"), LayoutSym("_Trivial"),
   SuperclassSym("Base", <<Param>>), SuperclassSym("Derived", <<Param>>),
   SuperclassSym("Other", <<Param>>),
   ConcreteSym("Base", <<"Int">>), ConcreteSym("Base", <<Param>>),
   ConcreteSym("Base", <<"Str">>)}
ClassInputs == PoolInputs(ClassProps, 3)

(* A concrete struct type at U.V and the class constraints its suffix V  *)
(* may carry.                                                             *)
StructPostPassInputs ==
  {<<[rhs |-> V, prop |-> SuperclassSym("Base", <<Param>>)],
     [rhs |-> UV, prop |-> ConcreteSym("S", <<"Int">>)]>>,
   <<[rhs |-> V, prop |-> LayoutSym("AnyObject")],
     [rhs |-> UV, prop |-> ConcreteSym("S", <<"Int">>)]>>}

(* Two layouts where the stricter one arrives second. *)
LayoutOrderInputs ==
  {<<[rhs |-> V, prop |-> LayoutSym("AnyObject")],
     [rhs |-> V, prop |-> LayoutSym("_NativeClass")]>>}

(* Two concrete types whose meet is more specific than both. *)
ConcreteMeetInputs ==
  {<<[rhs |-> V, prop |-> ConcreteSym("S", <<"Int", Param>>)],
     [rhs |-> V, prop |-> ConcreteSym("S", <<Param, "Str">>)]>>}
=============================================================================

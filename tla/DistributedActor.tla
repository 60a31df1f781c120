------------------------------ MODULE DistributedActor ------------------------------
(***************************************************************************)
(* TypeChecker::checkDistributedActor and the checks it runs               *)
(* (lib/Sema/TypeCheckDistributed.cpp:34-52, 92-110, 291-379).             *)
(*                                                                         *)
(* Without the Distributed module the check diagnoses the missing import   *)
(* and stops.  Otherwise it synthesizes the default initializer, checks    *)
(* every constructor member (a designated initializer of a distributed     *)
(* actor takes exactly one parameter of the actor system type), checks    *)
(* the stored properties (a user-written 'id' or 'actorSystem' is an      *)
(* error, a synthesized one is skipped) and synthesizes the 'id' property. *)
(*                                                                         *)
(* A member is a record: a constructor with its designated flag and the   *)
(* types of its parameters ("System" is the actor system type), or a      *)
(* property with its name and synthesized flag.                           *)
(***************************************************************************)
EXTENDS Naturals, Sequences, SequencesExt, FiniteSets

CONSTANTS
  Decls,          \* the class declarations to check
  ModuleLoaded    \* whether the Distributed module can be loaded

VARIABLES decl, loaded, members, i, diags, pc
vars == <<decl, loaded, members, i, diags, pc>>

SpecialNames == {"id", "actorSystem"}
Ctor(designated, params) == [kind |-> "ctor", designated |-> designated, params |-> params]
Var(name, synthesized) == [kind |-> "var", name |-> name, synthesized |-> synthesized]

(* IsDistributedActorRequest for a class: declared 'distributed actor'. *)
isDistributedActor(d) == d.kind = "class" /\ d.explicitDistributed

(* getDefaultInitializer: a class without a designated initializer gets   *)
(* the implicit init(actorSystem:) (outside src/, from the language).     *)
HasDesignatedInit(ms) == \E k \in DOMAIN ms : ms[k].kind = "ctor" /\ ms[k].designated
getDefaultInitializer(ms) ==
  IF HasDesignatedInit(ms) THEN ms ELSE Append(ms, Ctor(TRUE, <<"System">>))

(* Mutant: a designated initializer with several actor-system parameters *)
(* is accepted.                                                            *)
checkDistributedActorConstructorAtLeastOne(d, ctor) ==
  LET transportParamsCount == Cardinality({k \in DOMAIN ctor.params : ctor.params[k] = "System"})
  IN IF ~isDistributedActor(d) \/ ~ctor.designated \/ transportParamsCount >= 1 THEN <<>>
     ELSE <<[kind |-> "ctor_missing_transport_param"]>>

(* checkDistributedActorConstructor: the diagnostics for one constructor. *)
checkDistributedActorConstructor(d, ctor) ==
  LET transportParamsCount == Cardinality({k \in DOMAIN ctor.params : ctor.params[k] = "System"})
  IN CASE ~isDistributedActor(d) \/ ~ctor.designated -> <<>>
       [] transportParamsCount = 0 -> <<[kind |-> "ctor_missing_transport_param"]>>
       [] transportParamsCount = 1 -> <<>>
       [] OTHER -> <<[kind |-> "ctor_must_have_one_transport_param", count |-> transportParamsCount]>>

(* Mutant: the isSynthesized check is dropped. *)
checkPropertyNoSkip(m) ==
  IF m.kind = "var" /\ m.name \in SpecialNames
  THEN <<[kind |-> "user_defined_special_property", name |-> m.name]>> ELSE <<>>

(* One iteration of checkDistributedActorProperties. *)
checkProperty(m) ==
  IF m.kind = "var" /\ ~m.synthesized /\ m.name \in SpecialNames
  THEN <<[kind |-> "user_defined_special_property", name |-> m.name]>> ELSE <<>>

Init == /\ decl \in Decls
        /\ loaded \in ModuleLoaded
        /\ members = decl.members
        /\ i = 1
        /\ diags = <<>>
        /\ pc = "start"

(* ensureDistributedModuleLoaded: DistributedModuleIsAvailableRequest     *)
(* diagnoses the missing import and the check returns.                     *)
ModuleMissing ==
  /\ pc = "start" /\ ~loaded
  /\ diags' = <<[kind |-> "needs_explicit_distributed_import"]>>
  /\ pc' = "done"
  /\ UNCHANGED <<decl, loaded, members, i>>

(* The module is there: the default initializer is synthesized first. *)
DefaultInitializer ==
  /\ pc = "start" /\ loaded
  /\ members' = getDefaultInitializer(members)
  /\ pc' = "ctors"
  /\ UNCHANGED <<decl, loaded, i, diags>>

(* The loop over the members, checking constructors. *)
CheckMemberConstructor ==
  /\ pc = "ctors" /\ i <= Len(members)
  /\ diags' = diags \o IF members[i].kind = "ctor"
                       THEN checkDistributedActorConstructor(decl, members[i]) ELSE <<>>
  /\ i' = i + 1
  /\ UNCHANGED <<decl, loaded, members, pc>>

ConstructorsDone ==
  /\ pc = "ctors" /\ i > Len(members)
  /\ i' = 1
  /\ pc' = "props"
  /\ UNCHANGED <<decl, loaded, members, diags>>

(* checkDistributedActorProperties, one member per step. *)
CheckMemberProperty ==
  /\ pc = "props" /\ i <= Len(members)
  /\ diags' = diags \o checkProperty(members[i])
  /\ i' = i + 1
  /\ UNCHANGED <<decl, loaded, members, pc>>

(* getDistributedActorIDProperty synthesizes 'id' last. *)
SynthesizeID ==
  /\ pc = "props" /\ i > Len(members)
  /\ members' = Append(members, Var("id", TRUE))
  /\ pc' = "done"
  /\ UNCHANGED <<decl, loaded, i, diags>>

Next ==
  \/ ModuleMissing \/ DefaultInitializer
  \/ CheckMemberConstructor \/ ConstructorsDone
  \/ CheckMemberProperty \/ SynthesizeID

Spec == Init /\ [][Next]_vars

-----------------------------------------------------------------------------
(* Independent statements of the two rules the check enforces. *)
SystemParams(c) == Len(SelectSeq(c.params, LAMBDA t : t = "System"))
BadInit(m) == m.kind = "ctor" /\ m.designated /\ SystemParams(m) # 1
UserSpecial(m) == m.kind = "var" /\ ~m.synthesized /\ m.name \in {"id", "actorSystem"}
Kinds(ks) == SelectSeq(diags, LAMBDA d : d.kind \in ks)
CtorKinds == {"ctor_missing_transport_param", "ctor_must_have_one_transport_param"}

(* With the Distributed module loaded, a distributed actor ends the check *)
(* with a designated initializer (written or the implicit one), and each *)
(* designated initializer, the implicit one included, is diagnosed, in    *)
(* member order, exactly when it does not take exactly one actor-system   *)
(* parameter, with the number it takes when that is more than one.  A     *)
(* non-distributed class, or a missing module, gets no initializer error; *)
(* a missing module gets only the import error and no synthesized member. *)
InitializersDiagnosed ==
  pc = "done" =>
    IF ~loaded
    THEN diags = <<[kind |-> "needs_explicit_distributed_import"]>> /\ members = decl.members
    ELSE /\ HasDesignatedInit(members)
         /\ Kinds(CtorKinds) =
              IF ~isDistributedActor(decl) THEN <<>>
              ELSE LET bad == SelectSeq(members, BadInit)
                   IN [k \in DOMAIN bad |->
                         IF SystemParams(bad[k]) = 0 THEN [kind |-> "ctor_missing_transport_param"]
                         ELSE [kind |-> "ctor_must_have_one_transport_param",
                               count |-> SystemParams(bad[k])]]

(* Each property the user wrote named 'id' or 'actorSystem' is diagnosed  *)
(* once, in member order; the compiler's own synthesized ones (an         *)
(* 'actorSystem' from derived conformance, the 'id' synthesized last) are *)
(* never diagnosed.                                                        *)
SpecialPropertiesDiagnosed ==
  pc = "done" /\ loaded =>
    LET user == SelectSeq(decl.members, UserSpecial)
    IN Kinds({"user_defined_special_property"}) =
         [k \in DOMAIN user |-> [kind |-> "user_defined_special_property", name |-> user[k].name]]
=============================================================================

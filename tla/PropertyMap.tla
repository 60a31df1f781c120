---------------------------- MODULE PropertyMap ----------------------------
(***************************************************************************)
(* Property unification of the requirement machine                         *)
(* (lib/AST/RequirementMachine/PropertyUnification.cpp).                   *)
(*                                                                         *)
(* A property rule  T.[p] => T  attaches the property [p] to the key T.    *)
(* PropertyMap::addProperty is called once per property rule, in          *)
(* non-decreasing key order, and merges the rule into the PropertyBag of   *)
(* its key: layouts are intersected, superclasses are kept as a chain of   *)
(* ancestor levels, concrete types are unified.  Merging records          *)
(* relations, new rules and rewrite loops in the RewriteSystem and marks   *)
(* rules conflicting.  The property map is rebuilt until a pass adds no    *)
(* rule; checkConcreteTypeRequirements runs after every pass.              *)
(*                                                                         *)
(* Data abstraction.  A key is a short term (a sequence of names); a bag   *)
(* of a longer key starts as a copy of the bag of its longest suffix key,  *)
(* so the existing rule of a bag may have a shorter right hand side than   *)
(* the key.  A type argument is a leaf type from Leaves or Param, an       *)
(* abstract type parameter; two type parameters are not told apart.       *)
(* Rules induced on substitution terms are recorded but not fed back.      *)
(***************************************************************************)
EXTENDS Naturals, Sequences, FiniteSets, SequencesExt

CONSTANTS
  Keys,          \* terms that own property bags
  SubstTerms,    \* SubstTerms[i]: the term substituted at argument position i
  Protocols,     \* protocol declarations
  Layouts,       \* known layout constraints
  LayoutLeq,     \* set of pairs <<a, b>>: layout a is at least as strict as b
  ClassL,        \* the AnyObject layout (LayoutConstraintKind::Class)
  NativeClassL,  \* the _NativeClass layout
  Classes,       \* class declarations, each with one generic parameter
  Parent,        \* Parent[c]: the superclass declaration of c, or NoValue
  ParentArg,     \* ParentArg[c]: the argument c passes to its superclass:
                 \* a leaf type, or PassArg for its own generic argument
  ObjCClasses,   \* classes that use the Objective-C object model
  Structs,       \* non-class nominal types
  StructArity,   \* number of generic arguments of a struct
  Leaves,        \* concrete leaf types usable as arguments
  Param,         \* an (abstract) type parameter in argument position
  PassArg,
  NoValue,       \* an empty Optional<>
  Inputs         \* the initial property rules: sequences of [rhs, prop]

ASSUME ClassL \in Layouts /\ NativeClassL \in Layouts
ASSUME Param \notin Leaves /\ NoValue \notin Layouts \cup Classes

VARIABLES
  rules,         \* RewriteSystem rules, indexed by rule ID
  relations,     \* RewriteSystem relations <<[p1], [p2]>>: [p1] implies [p2]
  certified,     \* IDs of the rules some recorded rewrite loop goes through
  bags,          \* PropertyBag of every key
  entries,       \* keys whose bag was created in this pass, in order
  checkedRules,  \* PropertyMap::CheckedRules (one pass)
  checkedPairs,  \* PropertyMap::CheckedRulePairs
  todo,          \* property rules this pass has still to add
  passStart,     \* number of rules when this pass started
  phase          \* "build", "completion", "done" or "aborted"

vars == <<rules, relations, certified, bags, entries, checkedRules,
          checkedPairs, todo, passStart, phase>>

-----------------------------------------------------------------------------
(* Symbols.  Every property symbol is a record [kind, head, args].         *)

Sym(kind, head, args) == [kind |-> kind, head |-> head, args |-> args]
ProtocolSym(p)      == Sym("protocol", p, <<>>)
LayoutSym(l)        == Sym("layout", l, <<>>)
SuperclassSym(c, a) == Sym("superclass", c, a)
ConcreteSym(h, a)   == Sym("concrete", h, a)

Args == Leaves \cup {Param}
ArityOf(h) == IF h \in Classes THEN 1 ELSE IF h \in Structs THEN StructArity ELSE 0
TypesOf(kind, heads) ==
  UNION {{Sym(kind, h, a) : a \in [1..ArityOf(h) -> Args]} : h \in heads}
Properties ==
  {ProtocolSym(p) : p \in Protocols} \cup {LayoutSym(l) : l \in Layouts}
  \cup TypesOf("superclass", Classes) \cup TypesOf("concrete", Classes \cup Structs)
  \cup TypesOf("concrete", Leaves)

(* LayoutConstraint::merge: the strictest layout implying both, if the    *)
(* layouts have one, otherwise an unknown layout (NoValue).               *)
LayoutImplies(a, b) == a = b \/ <<a, b>> \in LayoutLeq
LayoutMerge(a, b) ==
  LET lower == {m \in Layouts : LayoutImplies(m, a) /\ LayoutImplies(m, b)}
  IN IF \E g \in lower : \A m \in lower : LayoutImplies(m, g)
     THEN CHOOSE g \in lower : \A m \in lower : LayoutImplies(m, g)
     ELSE NoValue
IsClassLayout(l) == l \in {ClassL, NativeClassL}

(* ClassDecl::getLayoutConstraintKind *)
ClassLayoutOf(c) == IF c \in ObjCClasses THEN ClassL ELSE NativeClassL

RECURSIVE Ancestors(_)
Ancestors(c) == IF Parent[c] = NoValue THEN {} ELSE {Parent[c]} \cup Ancestors(Parent[c])

(* ClassDecl::isSuperclassOf: a is d or one of its ancestors. *)
isSuperclassOf(a, d) == a = d \/ a \in Ancestors(d)

(* TypeBase::getSuperclassForDecl: the superclass type of the class type  *)
(* sym at the level of its ancestor declaration a.                        *)
RECURSIVE getSuperclassForDecl(_, _)
getSuperclassForDecl(sym, a) ==
  IF sym.head = a THEN SuperclassSym(a, sym.args)
  ELSE getSuperclassForDecl(
         SuperclassSym(Parent[sym.head],
                       IF ParentArg[sym.head] = PassArg THEN sym.args
                       ELSE <<ParentArg[sym.head]>>), a)

(* Unifying two type arguments. *)
Clash == "clash"
ArgMeet(a, b) == IF a = b \/ b = Param THEN a ELSE IF a = Param THEN b ELSE Clash

(* RewriteSystem::computeTypeDifference for two concrete types or two     *)
(* superclass types of one key: a conflict, or the meet of both and       *)
(* whether it differs from the existing (lhs) and the new (rhs) type.     *)
computeTypeDifference(existing, new) ==
  LET conflict == existing.head # new.head
                  \/ \E i \in DOMAIN existing.args :
                        ArgMeet(existing.args[i], new.args[i]) = Clash
      meet == [existing EXCEPT !.args =
                 [i \in DOMAIN existing.args |-> ArgMeet(existing.args[i], new.args[i])]]
  IN [conflict |-> conflict, meet |-> meet,
      lhsDiff |-> ~conflict /\ meet # existing,
      rhsDiff |-> ~conflict /\ meet # new]

-----------------------------------------------------------------------------
(* The state the helpers below transform: the RewriteSystem and the       *)
(* PropertyMap.  An action reads St, composes helpers and commits.         *)

St == [rules |-> rules, relations |-> relations, certified |-> certified,
       bags |-> bags, checkedRules |-> checkedRules,
       checkedPairs |-> checkedPairs, aborted |-> FALSE]

Commit(s) ==
  /\ rules' = s.rules
  /\ relations' = s.relations
  /\ certified' = s.certified
  /\ bags' = s.bags
  /\ checkedRules' = s.checkedRules
  /\ checkedPairs' = s.checkedPairs

NewRule(rhs, prop, origin) ==
  [rhs |-> rhs, prop |-> prop, origin |-> origin,
   conflicting |-> FALSE, simplified |-> FALSE]

(* The rules that rewrite key.[prop] to key: those for a suffix of key.   *)
RulesFor(s, key, prop) ==
  {i \in DOMAIN s.rules : s.rules[i].prop = prop /\ IsSuffix(s.rules[i].rhs, key)}

(* RewriteSystem::simplify of key.[prop] in one step: the rule applied.   *)
simplifyRule(s, key, prop) ==
  CHOOSE i \in RulesFor(s, key, prop) :
    \A j \in RulesFor(s, key, prop) : Len(s.rules[j].rhs) <= Len(s.rules[i].rhs)

(* RewriteSystem::addRule(key.[prop], key, path): a rule already implied  *)
(* is not added, and its path closes a loop through the implying rule;    *)
(* otherwise the rule is added and its path closes a loop through it.     *)
(* path is the set of rules the path applies, or NoValue for no path.     *)
addRule(s, key, prop, origin, path) ==
  LET new == Len(s.rules) + 1
      redundant == RulesFor(s, key, prop) # {}
      through == IF redundant THEN {simplifyRule(s, key, prop)} ELSE {new}
  IN [s EXCEPT
        !.rules = IF redundant THEN @ ELSE Append(@, NewRule(key, prop, origin)),
        !.certified = IF path = NoValue THEN @ ELSE @ \cup path \cup through]

MarkConflicting(s, ids) ==
  [s EXCEPT !.rules = [i \in DOMAIN s.rules |->
                         IF i \in ids THEN [s.rules[i] EXCEPT !.conflicting = TRUE]
                         ELSE s.rules[i]]]

MarkSubstitutionSimplified(s, id) ==
  [s EXCEPT !.rules[id].simplified = TRUE]

(* checkRuleOnce / checkRulePairOnce insert into the set; the caller      *)
(* tests membership in the state before the insertion.                    *)
checkRuleOnce(s, id) == [s EXCEPT !.checkedRules = @ \cup {id}]
checkRulePairOnce(s, a, b) == [s EXCEPT !.checkedPairs = @ \cup {<<a, b>>}]
PairUnchecked(s, a, b) == <<a, b>> \notin s.checkedPairs

(* Mutant of recordRelation: the relation recorded the wrong way round. *)
recordRelationSwapped(s, key, lhsRuleID, rhsProperty) ==
  LET lhsProperty == s.rules[lhsRuleID].prop
  IN addRule([s EXCEPT !.relations = @ \cup {<<rhsProperty, lhsProperty>>}],
             key, rhsProperty, "relation", {lhsRuleID})

(* recordRelation: record [p1] < [p2] for the rule V.[p1] => V and add    *)
(* the rule key.[p2] => key with a path through V.[p1] => V.              *)
recordRelation(s, key, lhsRuleID, rhsProperty) ==
  LET lhsProperty == s.rules[lhsRuleID].prop
  IN addRule([s EXCEPT !.relations = @ \cup {<<lhsProperty, rhsProperty>>}],
             key, rhsProperty, "relation", {lhsRuleID})

(* Mutant of recordConflict: the existing rule is marked even when it     *)
(* only applies to a suffix of the key.                                   *)
recordConflictAnyLength(s, key, existingRuleID, newRuleID) ==
  LET existing == s.rules[existingRuleID]
      markExisting == /\ existing.prop.kind # "superclass"
                      /\ existing.prop.kind = s.rules[newRuleID].prop.kind
  IN MarkConflicting(s, {newRuleID} \cup IF markExisting THEN {existingRuleID} ELSE {})

(* recordConflict: the new rule is always marked; the existing one only   *)
(* if it is of the same kind, not a superclass, and its RHS is the key.   *)
recordConflict(s, key, existingRuleID, newRuleID) ==
  LET existing == s.rules[existingRuleID]
      newRule  == s.rules[newRuleID]
      markExisting == /\ existing.prop.kind # "superclass"
                      /\ existing.prop.kind = newRule.prop.kind
                      /\ Len(existing.rhs) = Len(key)
  IN MarkConflicting(s, {newRuleID} \cup IF markExisting THEN {existingRuleID} ELSE {})

-----------------------------------------------------------------------------
(* Property bags. *)

Unset == [type |-> NoValue, rule |-> NoValue]
NewPropertyBag ==
  [conformsTo |-> <<>>, conformsToRules |-> <<>>,
   layout |-> NoValue, layoutRule |-> NoValue,
   superclassDecl |-> NoValue, superclasses |-> [c \in Classes |-> Unset],
   concrete |-> Unset]

(* A concrete-type binding lives in one of two slots of a bag: the        *)
(* concrete type, or the superclass requirement at one class level.       *)
ConcreteSlot == "concrete"
SlotOf(bag, slot) == IF slot = ConcreteSlot THEN bag.concrete ELSE bag.superclasses[slot]
(* Mutant of SetSlot: the binding is always written through the concrete *)
(* type reference, whatever slot the caller passed.                      *)
SetSlotWrongRef(s, key, slot, type, rule) ==
  [s EXCEPT !.bags[key].concrete = [type |-> type, rule |-> rule]]
SetSlot(s, key, slot, type, rule) ==
  IF slot = ConcreteSlot
  THEN [s EXCEPT !.bags[key].concrete = [type |-> type, rule |-> rule]]
  ELSE [s EXCEPT !.bags[key].superclasses[slot] = [type |-> type, rule |-> rule]]

addConformanceProperty(s, key, property, ruleID) ==
  [s EXCEPT !.bags[key].conformsTo = Append(@, property.head),
            !.bags[key].conformsToRules = Append(@, ruleID)]

addLayoutProperty(s, key, property, ruleID) ==
  LET bag == s.bags[key]
      newLayout == property.head
      mergedLayout == LayoutMerge(bag.layout, newLayout)
  IN IF bag.layout = NoValue
     THEN [s EXCEPT !.bags[key].layout = newLayout, !.bags[key].layoutRule = ruleID]
     ELSE IF mergedLayout = NoValue
     THEN recordConflict(s, key, bag.layoutRule, ruleID)
     ELSE IF mergedLayout = bag.layout
     THEN IF PairUnchecked(s, bag.layoutRule, ruleID)
          THEN recordRelation(checkRulePairOnce(s, bag.layoutRule, ruleID),
                              key, bag.layoutRule, property)
          ELSE s
     ELSE IF mergedLayout = newLayout
     THEN LET s1 == IF PairUnchecked(s, ruleID, bag.layoutRule)
                    THEN recordRelation(checkRulePairOnce(s, ruleID, bag.layoutRule),
                                        key, ruleID, s.rules[bag.layoutRule].prop)
                    ELSE s
          IN [s1 EXCEPT !.bags[key].layoutRule = ruleID]
     ELSE [s EXCEPT !.aborted = TRUE]

(* processTypeDifference: for every argument position where the type of  *)
(* lhsRuleID is less specific than that of rhsRuleID, add the induced     *)
(* rule on the substituted term with a path through both rules; record   *)
(* the unification loop; mark lhsRuleID substitution-simplified when it  *)
(* applies to the whole key.                                              *)
processTypeDifference(s, key, lhsType, rhsType, lhsRuleID, rhsRuleID) ==
  LET changed == SelectSeq([i \in DOMAIN lhsType.args |-> i],
                           LAMBDA i : lhsType.args[i] # rhsType.args[i])
      induce(t, i) == addRule(t, SubstTerms[i], ConcreteSym(rhsType.args[i], <<>>),
                              "induced", {lhsRuleID, rhsRuleID})
      s1 == FoldLeft(induce, s, changed)
      s2 == [s1 EXCEPT !.certified = @ \cup {lhsRuleID, rhsRuleID}]
  IN IF s.rules[lhsRuleID].rhs = key THEN MarkSubstitutionSimplified(s2, lhsRuleID)
     ELSE s2

(* unifyConcreteTypes: unify the new type with the binding of a slot.    *)
unifyConcreteTypes(s, key, slot, property, ruleID) ==
  LET existing == SlotOf(s.bags[key], slot)
      d == computeTypeDifference(existing.type, property)
      pairFresh == PairUnchecked(s, existing.rule, ruleID)
      sp == checkRulePairOnce(s, existing.rule, ruleID)
  IN
  IF existing.type = NoValue THEN SetSlot(s, key, slot, property, ruleID)
  ELSE IF d.conflict THEN recordConflict(s, key, existing.rule, ruleID)
  ELSE IF d.lhsDiff /\ d.rhsDiff THEN
    LET s1 == IF pairFresh THEN addRule(sp, key, d.meet, "meet", NoValue) ELSE sp
        newRuleID == simplifyRule(s1, key, d.meet)
        s2 == IF PairUnchecked(s1, existing.rule, newRuleID)
              THEN processTypeDifference(checkRulePairOnce(s1, existing.rule, newRuleID),
                                         key, existing.type, d.meet,
                                         existing.rule, newRuleID)
              ELSE s1
        s3 == IF PairUnchecked(s2, ruleID, newRuleID)
              THEN processTypeDifference(checkRulePairOnce(s2, ruleID, newRuleID),
                                         key, property, d.meet, ruleID, newRuleID)
              ELSE s2
    IN SetSlot(s3, key, slot, d.meet, ruleID)
  ELSE IF d.lhsDiff THEN
    LET s1 == IF pairFresh
              THEN processTypeDifference(sp, key, existing.type, property,
                                         existing.rule, ruleID)
              ELSE sp
    IN SetSlot(s1, key, slot, property, ruleID)
  ELSE IF d.rhsDiff THEN
    IF pairFresh
    THEN processTypeDifference(sp, key, property, existing.type, ruleID, existing.rule)
    ELSE sp
  ELSE IF existing.rule # ruleID /\ pairFresh THEN
    MarkSubstitutionSimplified(
      [sp EXCEPT !.certified = @ \cup {existing.rule, ruleID}], ruleID)
  ELSE IF existing.rule # ruleID THEN sp
  ELSE s

(* recordSuperclassRelation: the rule of superclassType implies its      *)
(* superclass type at the level of otherClass.                            *)
recordSuperclassRelation(s, key, superclassType, superclassRuleID, otherClass) ==
  recordRelation(s, key, superclassRuleID,
                 getSuperclassForDecl(superclassType, otherClass))

(* Mutant of addSuperclassProperty: a more specific superclass is stored *)
(* at its level but SuperclassDecl is not moved to it.                    *)
addSuperclassPropertyKeepDecl(s0, key, property, ruleID) ==
  LET superclassDecl == property.head
      s == IF ruleID \notin s0.checkedRules
           THEN recordRelation(checkRuleOnce(s0, ruleID), key, ruleID,
                               LayoutSym(ClassLayoutOf(superclassDecl)))
           ELSE s0
      bag == s.bags[key]
      existingReq == bag.superclasses[bag.superclassDecl]
      sp == checkRulePairOnce(s, existingReq.rule, ruleID)
      fresh == PairUnchecked(s, existingReq.rule, ruleID)
  IN
  IF bag.superclassDecl = NoValue THEN
    [s EXCEPT !.bags[key].superclassDecl = superclassDecl,
              !.bags[key].superclasses[superclassDecl] = [type |-> property, rule |-> ruleID]]
  ELSE IF superclassDecl = bag.superclassDecl THEN
    unifyConcreteTypes(s, key, superclassDecl, property, ruleID)
  ELSE IF isSuperclassOf(superclassDecl, bag.superclassDecl) THEN
    LET s1 == IF fresh
              THEN recordSuperclassRelation(sp, key, existingReq.type,
                                            existingReq.rule, superclassDecl)
              ELSE sp
    IN unifyConcreteTypes(s1, key, superclassDecl, property, ruleID)
  ELSE IF isSuperclassOf(bag.superclassDecl, superclassDecl) THEN
    LET s1 == IF fresh
              THEN recordSuperclassRelation(sp, key, property, ruleID, bag.superclassDecl)
              ELSE sp
    IN [s1 EXCEPT !.bags[key].superclasses[superclassDecl] = [type |-> property, rule |-> ruleID]]
  ELSE MarkConflicting(s, {ruleID})

addSuperclassProperty(s0, key, property, ruleID) ==
  LET superclassDecl == property.head
      s == IF ruleID \notin s0.checkedRules
           THEN recordRelation(checkRuleOnce(s0, ruleID), key, ruleID,
                               LayoutSym(ClassLayoutOf(superclassDecl)))
           ELSE s0
      bag == s.bags[key]
      existingReq == bag.superclasses[bag.superclassDecl]
      sp == checkRulePairOnce(s, existingReq.rule, ruleID)
      fresh == PairUnchecked(s, existingReq.rule, ruleID)
  IN
  IF bag.superclassDecl = NoValue THEN
    [s EXCEPT !.bags[key].superclassDecl = superclassDecl,
              !.bags[key].superclasses[superclassDecl] = [type |-> property, rule |-> ruleID]]
  ELSE IF superclassDecl = bag.superclassDecl THEN
    unifyConcreteTypes(s, key, superclassDecl, property, ruleID)
  ELSE IF isSuperclassOf(superclassDecl, bag.superclassDecl) THEN
    LET s1 == IF fresh
              THEN recordSuperclassRelation(sp, key, existingReq.type,
                                            existingReq.rule, superclassDecl)
              ELSE sp
    IN unifyConcreteTypes(s1, key, superclassDecl, property, ruleID)
  ELSE IF isSuperclassOf(bag.superclassDecl, superclassDecl) THEN
    LET s1 == IF fresh
              THEN recordSuperclassRelation(sp, key, property, ruleID, bag.superclassDecl)
              ELSE sp
    IN [s1 EXCEPT !.bags[key].superclasses[superclassDecl] = [type |-> property, rule |-> ruleID],
                  !.bags[key].superclassDecl = superclassDecl]
  ELSE MarkConflicting(s, {ruleID})

addConcreteTypeProperty(s, key, property, ruleID) ==
  unifyConcreteTypes(s, key, ConcreteSlot, property, ruleID)

(* checkConcreteTypeRequirements, for one bag: a concrete class type     *)
(* implies its superclass and layout; a concrete non-class type conflicts *)
(* with a superclass bound and with a class layout.                       *)
checkConcreteTypeRequirement(s, key) ==
  LET bag == s.bags[key]
      concreteType == bag.concrete.type
      isClass == concreteType.head \in Classes
      s1 == IF isClass
            THEN recordRelation(s, key, bag.concrete.rule,
                                SuperclassSym(concreteType.head, concreteType.args))
            ELSE IF bag.superclassDecl # NoValue
            THEN recordConflict(s, key, bag.concrete.rule,
                                bag.superclasses[bag.superclassDecl].rule)
            ELSE s
  IN IF concreteType = NoValue THEN s
     ELSE IF isClass
     THEN recordRelation(s1, key, bag.concrete.rule, LayoutSym(ClassLayoutOf(concreteType.head)))
     ELSE IF bag.layoutRule # NoValue /\ IsClassLayout(bag.layout)
     THEN recordConflict(s1, key, bag.concrete.rule, bag.layoutRule)
     ELSE s1

checkConcreteTypeRequirements(s) ==
  FoldLeft(checkConcreteTypeRequirement, s, entries)

-----------------------------------------------------------------------------
(* The driver: property map construction, iterated until fixed point.    *)

(* getOrCreateProperties: a new bag starts as a copy of the bag of the   *)
(* longest key of this pass that is a proper suffix of the key.           *)
SuffixEntries(key) == {k \in ToSet(entries) : IsStrictSuffix(k, key)}
getOrCreateProperties(s, key) ==
  IF key \in ToSet(entries) THEN s
  ELSE IF SuffixEntries(key) = {} THEN [s EXCEPT !.bags[key] = NewPropertyBag]
  ELSE LET next == CHOOSE k \in SuffixEntries(key) :
                     \A j \in SuffixEntries(key) : Len(j) <= Len(k)
       IN [s EXCEPT !.bags[key] = s.bags[next]]

(* Mutant: the property rules of a pass by rule ID only, unsorted.       *)
PassOrderUnsorted(rs) ==
  SelectSeq([i \in 1..Len(rs) |-> i],
            LAMBDA i : rs[i].rhs \in Keys /\ ~rs[i].simplified)

(* The property rules of a pass, by key length and then rule ID.         *)
PassOrder(rs) ==
  LET ids == [i \in 1..Len(rs) |-> i]
      ofLength(n) == SelectSeq(ids, LAMBDA i : rs[i].rhs \in Keys /\ ~rs[i].simplified
                                               /\ Len(rs[i].rhs) = n)
      maxLen == Max({Len(k) : k \in Keys})
  IN FoldLeft(LAMBDA acc, n : acc \o ofLength(n), <<>>, [n \in 1..maxLen |-> n])

StartPass(rs) ==
  /\ bags' = [k \in Keys |-> NewPropertyBag]
  /\ entries' = <<>>
  /\ todo' = PassOrder(rs)
  /\ passStart' = Len(rs)
  /\ phase' = "build"

Init ==
  \E input \in Inputs :
    /\ rules = [i \in DOMAIN input |-> NewRule(input[i].rhs, input[i].prop, "input")]
    /\ relations = {}
    /\ certified = {}
    /\ checkedRules = {}
    /\ checkedPairs = {}
    /\ bags = [k \in Keys |-> NewPropertyBag]
    /\ entries = <<>>
    /\ todo = PassOrder(rules)
    /\ passStart = Len(rules)
    /\ phase = "build"

(* addProperty for the next property rule of the pass, by symbol kind.   *)
AddPropertyOfKind(kind, Add(_, _, _, _)) ==
  /\ phase = "build"
  /\ todo # <<>>
  /\ LET ruleID == Head(todo)
         key == rules[ruleID].rhs
         property == rules[ruleID].prop
         s == Add(getOrCreateProperties(St, key), key, property, ruleID)
     IN /\ property.kind = kind
        /\ Commit(s)
        /\ entries' = IF key \in ToSet(entries) THEN entries ELSE Append(entries, key)
        /\ todo' = Tail(todo)
        /\ phase' = IF s.aborted THEN "aborted" ELSE "build"
        /\ UNCHANGED passStart

AddConformance == AddPropertyOfKind("protocol", addConformanceProperty)
AddLayout      == AddPropertyOfKind("layout", addLayoutProperty)
AddSuperclass  == AddPropertyOfKind("superclass", addSuperclassProperty)
AddConcrete    == AddPropertyOfKind("concrete", addConcreteTypeProperty)

CheckConcreteTypeRequirements ==
  /\ phase = "build"
  /\ todo = <<>>
  /\ Commit(checkConcreteTypeRequirements(St))
  /\ phase' = "completion"
  /\ UNCHANGED <<entries, todo, passStart>>

(* Completion added rules: build the property map again, with fresh      *)
(* memoization tables (they belong to one construction pass).             *)
Rebuild ==
  /\ phase = "completion"
  /\ Len(rules) > passStart
  /\ StartPass(rules)
  /\ checkedRules' = {}
  /\ checkedPairs' = {}
  /\ UNCHANGED <<rules, relations, certified>>

(* A pass that added no rule: the fixed point is reached. *)
Finish ==
  /\ phase = "completion"
  /\ Len(rules) = passStart
  /\ phase' = "done"
  /\ UNCHANGED <<rules, relations, certified, bags, entries, checkedRules,
                 checkedPairs, todo, passStart>>

Next ==
  \/ AddConformance
  \/ AddLayout
  \/ AddSuperclass
  \/ AddConcrete
  \/ CheckConcreteTypeRequirements
  \/ Rebuild
  \/ Finish

Spec == Init /\ [][Next]_vars

-----------------------------------------------------------------------------
(* Properties. *)

Rule == [rhs : Keys \cup Range(SubstTerms), prop : Properties,
         origin : {"input", "relation", "meet", "induced"},
         conflicting : BOOLEAN, simplified : BOOLEAN]
Binding(types) == [type : types \cup {NoValue}, rule : Nat \cup {NoValue}]
Bag == [conformsTo : Seq(Protocols), conformsToRules : Seq(Nat),
        layout : Layouts \cup {NoValue}, layoutRule : Nat \cup {NoValue},
        superclassDecl : Classes \cup {NoValue},
        superclasses : [Classes -> Binding(TypesOf("superclass", Classes))],
        concrete : Binding(TypesOf("concrete", Classes \cup Structs))]

TypeOK ==
  /\ rules \in Seq(Rule)
  /\ relations \subseteq Properties \X Properties
  /\ certified \subseteq DOMAIN rules
  /\ bags \in [Keys -> Bag]
  /\ entries \in Seq(Keys)
  /\ checkedRules \subseteq DOMAIN rules
  /\ checkedPairs \subseteq (DOMAIN rules) \X (DOMAIN rules)
  /\ todo \in Seq(DOMAIN rules)
  /\ passStart \in 0..Len(rules)
  /\ phase \in {"build", "completion", "done", "aborted"}

(* The implication a relation claims: a stricter layout implies a looser  *)
(* one, a class type implies its superclass types at every ancestor level *)
(* and its class layout, a concrete class type implies itself as a        *)
(* superclass bound.                                                      *)
SuperclassImplies(p, q) ==
  \/ q.kind = "superclass" /\ isSuperclassOf(q.head, p.head)
                           /\ getSuperclassForDecl(p, q.head) = q
  \/ q.kind = "layout" /\ LayoutImplies(ClassLayoutOf(p.head), q.head)
Implies(p, q) ==
  \/ p.kind = "layout" /\ q.kind = "layout" /\ LayoutImplies(p.head, q.head)
  \/ p.kind = "superclass" /\ SuperclassImplies(p, q)
  \/ p.kind = "concrete" /\ p.head \in Classes
                         /\ SuperclassImplies(SuperclassSym(p.head, p.args), q)

(* Two properties that no type satisfies at once. *)
IncompatibleDir(p, q) ==
  \/ p.kind = "layout" /\ q.kind = "layout" /\ LayoutMerge(p.head, q.head) = NoValue
  \/ /\ p.kind = "superclass" /\ q.kind = "superclass"
     /\ \/ ~isSuperclassOf(p.head, q.head) /\ ~isSuperclassOf(q.head, p.head)
        \/ isSuperclassOf(q.head, p.head)
           /\ computeTypeDifference(getSuperclassForDecl(p, q.head), q).conflict
  \/ p.kind = "concrete" /\ q.kind = "concrete" /\ computeTypeDifference(p, q).conflict
  \/ p.kind = "concrete" /\ p.head \notin Classes /\ q.kind = "superclass"
  \/ p.kind = "concrete" /\ p.head \notin Classes
     /\ q.kind = "layout" /\ IsClassLayout(q.head)
Incompatible(p, q) == IncompatibleDir(p, q) \/ IncompatibleDir(q, p)

(* Every relation recorded by recordRelation (layout intersection,        *)
(* superclass chains, superclass and concrete-type post-pass) states an   *)
(* implication that holds: a wrong one lets homotopy reduction delete a   *)
(* rule that is not a consequence of the others.                          *)
RelationsSound ==
  \A r \in relations : Implies(r[1], r[2])

(* recordConflict marks a rule conflicting only because of a rule that    *)
(* applies to the same term: a rule V.[p] => V inherited by a longer key  *)
(* U.V from its suffix is never poisoned by a conflict at U.V, since it   *)
(* still holds for V and for every other term ending in V.                *)
ConflictsAreLocal ==
  \A i \in DOMAIN rules :
    rules[i].conflicting =>
      \E j \in DOMAIN rules \ {i} :
        /\ IsSuffix(rules[j].rhs, rules[i].rhs)
        /\ Incompatible(rules[i].prop, rules[j].prop)

(* addSuperclassProperty keeps one requirement per class level, every    *)
(* level an ancestor of SuperclassDecl, which is the most derived class   *)
(* seen, whatever order the superclass rules of a key arrive in.          *)
SuperclassChainWellFormed ==
  \A k \in ToSet(entries) :
    LET bag == bags[k] IN
    /\ bag.superclassDecl = NoValue <=> \A c \in Classes : bag.superclasses[c] = Unset
    /\ \A c \in Classes :
         bag.superclasses[c].type # NoValue =>
           /\ bag.superclasses[c].type.head = c
           /\ isSuperclassOf(c, bag.superclassDecl)

(* After addLayoutProperty the layout of a bag is the layout of its      *)
(* LayoutRule: the spec says the stricter new rule "becomes the bag's     *)
(* active layout rule".                                                   *)
ActiveLayoutMatchesRule ==
  \A k \in ToSet(entries) :
    bags[k].layoutRule # NoValue =>
      bags[k].layout = rules[bags[k].layoutRule].prop.head

(* After unifyConcreteTypes the concrete type of a bag is the type of its *)
(* ConcreteTypeRule: the spec says the meet "becomes the active binding". *)
ActiveConcreteMatchesRule ==
  \A k \in ToSet(entries) :
    bags[k].concrete.rule # NoValue =>
      bags[k].concrete.type = rules[bags[k].concrete.rule].prop
(* getOrCreateProperties gives a new key the bag of its longest suffix    *)
(* key, and buildPropertyMap calls addProperty in order of key length so  *)
(* that this bag is already complete: a term U.V satisfies everything V   *)
(* satisfies.  So the bag of a key holds every conformance of the bag of  *)
(* each of its suffixes, and has a layout, superclass and concrete type   *)
(* wherever that bag has one.                                              *)
SuffixBagsInherited ==
  \A k, j \in ToSet(entries) :
    IsStrictSuffix(j, k) =>
      /\ Range(bags[j].conformsTo) \subseteq Range(bags[k].conformsTo)
      /\ bags[j].layout # NoValue => bags[k].layout # NoValue
      /\ bags[j].superclassDecl # NoValue => bags[k].superclassDecl # NoValue
      /\ bags[j].concrete.type # NoValue => bags[k].concrete.type # NoValue
=============================================================================

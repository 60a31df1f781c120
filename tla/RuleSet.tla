------------------------------- MODULE RuleSet -------------------------------
(***************************************************************************)
(* What the rule builder promises (spec.md section 4.2), as one atomic     *)
(* step.  From the seeds of the call it reaches every protocol that a      *)
(* requirement signature conformance-references, and the rule set is:      *)
(*   - for each such protocol P, the permanent rules [P].[P] => [P] and    *)
(*     [P].A => [P:A] for each associated type A of P or of a protocol P   *)
(*     inherits;                                                           *)
(*   - one rule per requirement of P: its structural requirements if P is  *)
(*     in the initial component, else its requirement signature; plus the *)
(*     top-level requirements of a generic signature;                      *)
(*   - for each superclass requirement, the permanent rule                 *)
(*     [superclass: C].[layout: L] => [superclass: C], L being AnyObject   *)
(*     for an Objective-C class and _NativeClass otherwise.               *)
(* Requirement rules are unoriented here: orientation is the rewrite       *)
(* system's job.                                                           *)
(***************************************************************************)
EXTENDS RuleTerms

CONSTANTS Decls, ObjCClasses

VARIABLES world, entry, built, protocols, permanent, requirement
absvars == <<world, entry, built, protocols, permanent, requirement>>

ConformanceTargets(reqs) == {reqs[i].value : i \in {j \in DOMAIN reqs : reqs[j].kind = "conformance"}}
SignatureEdges == {<<p, q>> \in Decls \X Decls : q \in ConformanceTargets(world.signature[p])}
Seeds == IF entry.op = "addRequirements" THEN ConformanceTargets(entry.reqs)
         ELSE {entry.protos[i] : i \in DOMAIN entry.protos}
Component == IF entry.op = "addProtocols" THEN {entry.protos[i] : i \in DOMAIN entry.protos} ELSE {}
Closure == ReachVia(Seeds, SignatureEdges)

RequirementsOf(p) ==
  LET reqs == IF p \in Component THEN world.structural[p] ELSE world.signature[p]
  IN {reqs[i] : i \in DOMAIN reqs}
TopLevel == IF entry.op = "addRequirements" THEN {entry.reqs[i] : i \in DOMAIN entry.reqs} ELSE {}
Lowered == UNION {{<<r, p>> : r \in RequirementsOf(p)} : p \in Closure} \cup {<<r, NoValue>> : r \in TopLevel}

(* The rule table of spec 4.2, without orientation. *)
RuleFor(r, proto) ==
  LET t == TermFor(r.subject, proto)
  IN CASE r.kind = "conformance" -> {t, Append(t, ProtoSym(r.value))}
       [] r.kind = "superclass"  -> {t, Append(t, Sym("superclass", r.value, NoValue))}
       [] r.kind = "layout"      -> {t, Append(t, Sym("layout", r.value, NoValue))}
       [] r.kind = "concrete"    -> {t, Append(t, Sym("concrete", r.value, NoValue))}
       [] r.kind = "sametype"    -> {t, TermFor(r.value, proto)}

AssocRules(p) ==
  {<<<<ProtoSym(p), NameSym(n)>>, <<AssocSym(p, n)>>>> :
     n \in UNION {Range(world.assocTypes[q]) : q \in {p} \cup Range(world.inherited[p])}}
SuperclassRule(c) ==
  LET sup == Sym("superclass", c, NoValue)
      l == IF c \in ObjCClasses THEN "AnyObject" ELSE "_NativeClass"
  IN <<<<sup, Sym("layout", l, NoValue)>>, <<sup>>>>

PermanentRules ==
  {<<<<ProtoSym(p), ProtoSym(p)>>, <<ProtoSym(p)>>>> : p \in Closure}
  \cup UNION {AssocRules(p) : p \in Closure}
  \cup {SuperclassRule(lp[1].value) : lp \in {x \in Lowered : x[1].kind = "superclass"}}
RequirementRules == {RuleFor(lp[1], lp[2]) : lp \in Lowered}

(* The declarations and the call are whatever the caller provides. *)
Init ==
  /\ entry.op \in {"addRequirements", "addProtocols"}
  /\ built = FALSE
  /\ protocols = {} /\ permanent = {} /\ requirement = {}

Build ==
  /\ ~built
  /\ built' = TRUE
  /\ protocols' = Closure
  /\ permanent' = PermanentRules
  /\ requirement' = RequirementRules
  /\ UNCHANGED <<world, entry>>

(* A call of the builder returns. *)
Spec == Init /\ [][Build]_absvars /\ WF_absvars(Build)
=============================================================================

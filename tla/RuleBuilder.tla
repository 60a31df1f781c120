----------------------------- MODULE RuleBuilder -----------------------------
(***************************************************************************)
(* Building rewrite rules from requirements                                *)
(* (lib/AST/RequirementMachine/RequirementLowering.cpp: RuleBuilder and    *)
(* ProtocolDependenciesRequest).                                           *)
(*                                                                         *)
(* addRequirements (a generic signature) or addProtocols (a connected      *)
(* component of protocols) seeds the worklist Protocols through            *)
(* addProtocol, which records each protocol once in ProtocolMap with its   *)
(* initial-component flag.  collectRulesFromReferencedProtocols extends    *)
(* the worklist with protocol dependencies while scanning it by index,     *)
(* then emits the permanent rules of every protocol and lowers either its *)
(* structural requirements (initial component) or its requirement         *)
(* signature.  Finally addRequirements lowers the top-level requirements. *)
(*                                                                         *)
(* Data abstraction.  A requirement is a record [kind, subject, value]     *)
(* whose subject is "Self", an associated type name or a generic          *)
(* parameter; a same-type requirement to a concrete type has kind         *)
(* "concrete".  Concrete types carry no type parameters, so the           *)
(* substitution schema is empty.  A term is a sequence of symbols.  The   *)
(* declarations are chosen once, in Init, as a world.                     *)
(***************************************************************************)
EXTENDS RuleTerms

CONSTANTS
  Decls,        \* protocol declarations
  ObjCClasses,  \* classes that use the Objective-C object model
  Worlds,       \* declaration models, each a record of type World
  Entries(_)    \* the calls a world admits:
                \*   [op |-> "addRequirements", reqs |-> <<requirement, ...>>]
                \*   [op |-> "addProtocols", protos |-> <<protocol, ...>>]

Requirement == [kind : STRING, subject : STRING, value : STRING \cup Decls]

(* Per protocol: structural requirements (StructuralRequirementsRequest), *)
(* requirement signature, associated type members, the inherited         *)
(* protocols of RewriteContext::getInheritedProtocols, and which          *)
(* requirement signatures are serialized; gsb is the language option      *)
(* RequirementMachineProtocolSignatures = Disabled.                      *)
World == [structural : [Decls -> Seq(Requirement)],
          signature : [Decls -> Seq(Requirement)],
          assocTypes : [Decls -> Seq(STRING)],
          inherited : [Decls -> Seq(Decls)],
          lazy : SUBSET Decls,
          gsb : BOOLEAN]

ASSUME Worlds \subseteq World

VARIABLES
  world,             \* the declarations
  entry,             \* the call being made
  ProtocolMap,       \* protocol -> initial-component flag, or NoValue
  Protocols,         \* the worklist, in insertion order
  PermanentRules,    \* <<lhs, rhs>> pairs
  RequirementRules,  \* <<subject term, constraint term>> pairs
  scan,              \* the index i of the first loop
  emit,              \* position of the second loop
  pc                 \* "seed", "scan", "emit", "top", "done"

vars == <<world, entry, ProtocolMap, Protocols, PermanentRules, RequirementRules,
          scan, emit, pc>>

-----------------------------------------------------------------------------
(* ProtocolDependenciesRequest::evaluate: the protocols of the           *)
(* conformance requirements of the requirement signature when it is       *)
(* serialized or protocol signatures are built by the GSB, otherwise of   *)
(* the structural requirements; in requirement order.                     *)
ConformedProtocols(reqs) ==
  LET conf == SelectSeq(reqs, LAMBDA r : r.kind = "conformance")
  IN [i \in 1..Len(conf) |-> conf[i].value]
ProtocolDependencies(w, p) ==
  IF p \in w.lazy \/ w.gsb THEN ConformedProtocols(w.signature[p])
  ELSE ConformedProtocols(w.structural[p])

-----------------------------------------------------------------------------
(* State transformers over s = [map, list, perm, rules]. *)

(* Mutants of addProtocol: no duplicate check; the flag of an already     *)
(* recorded protocol overwritten; the map entry never written.            *)
addProtocolNoDedup(s, proto, initialComponent) ==
  [s EXCEPT !.map[proto] = initialComponent, !.list = Append(@, proto)]
addProtocolOverwrite(s, proto, initialComponent) ==
  IF s.map[proto] # NoValue THEN [s EXCEPT !.map[proto] = initialComponent]
  ELSE [s EXCEPT !.map[proto] = initialComponent, !.list = Append(@, proto)]
addProtocolNoMap(s, proto, initialComponent) ==
  IF s.map[proto] # NoValue THEN s
  ELSE [s EXCEPT !.list = Append(@, proto)]

(* RuleBuilder::addProtocol: record a protocol the first time it is seen. *)
addProtocol(s, proto, initialComponent) ==
  IF s.map[proto] # NoValue THEN s
  ELSE [s EXCEPT !.map[proto] = initialComponent, !.list = Append(@, proto)]

addProtocolsOf(s, protos, initialComponent) ==
  FoldLeft(LAMBDA acc, p : addProtocol(acc, p, initialComponent), s, protos)

(* RuleBuilder::addAssociatedType: [P].A => [P:A]. *)
addAssociatedType(s, name, proto) ==
  [s EXCEPT !.perm = Append(@, <<<<ProtoSym(proto), NameSym(name)>>,
                                 <<AssocSym(proto, name)>>>>)]

(* RuleBuilder::addRequirement: lower one requirement to the pair         *)
(* (subject term, constraint term); a superclass requirement also adds   *)
(* the permanent rule [superclass: C].[layout: L] => [superclass: C].    *)
SuperclassLayoutSwapped(c) ==   \* mutant: the object models swapped
  IF c \in ObjCClasses THEN "_NativeClass" ELSE "AnyObject"
SuperclassLayout(c) == IF c \in ObjCClasses THEN "AnyObject" ELSE "_NativeClass"
addRequirement(s, req, proto) ==
  LET subjectTerm == TermFor(req.subject, proto)
      sup == Sym("superclass", req.value, NoValue)
      constraintTerm ==
        CASE req.kind = "conformance" -> Append(subjectTerm, ProtoSym(req.value))
          [] req.kind = "superclass"  -> Append(subjectTerm, sup)
          [] req.kind = "layout"      -> Append(subjectTerm, Sym("layout", req.value, NoValue))
          [] req.kind = "concrete"    -> Append(subjectTerm, Sym("concrete", req.value, NoValue))
          [] req.kind = "sametype"    -> TermFor(req.value, proto)
  IN [s EXCEPT
        !.perm = IF req.kind = "superclass"
                 THEN Append(@, <<<<sup, Sym("layout", SuperclassLayout(req.value), NoValue)>>,
                                  <<sup>>>>)
                 ELSE @,
        !.rules = Append(@, <<subjectTerm, constraintTerm>>)]

addRequirementsOf(s, reqs, proto) ==
  FoldLeft(LAMBDA acc, r : addRequirement(acc, r, proto), s, reqs)

(* The body of the second loop of collectRulesFromReferencedProtocols for *)
(* one protocol: [P].[P] => [P], its own and inherited associated types,  *)
(* then its structural requirements if it belongs to the initial          *)
(* component, else its requirement signature.                            *)
addProtocolRules(s, proto) ==
  LET s1 == [s EXCEPT !.perm = Append(@, <<<<ProtoSym(proto), ProtoSym(proto)>>,
                                          <<ProtoSym(proto)>>>>)]
      s2 == FoldLeft(LAMBDA acc, a : addAssociatedType(acc, a, proto),
                     s1, world.assocTypes[proto])
      s3 == FoldLeft(LAMBDA acc, q :
                       FoldLeft(LAMBDA acc2, a : addAssociatedType(acc2, a, proto),
                                acc, world.assocTypes[q]),
                     s2, world.inherited[proto])
  IN addRequirementsOf(s3, IF s.map[proto] = TRUE THEN world.structural[proto]
                           ELSE world.signature[proto], proto)

St == [map |-> ProtocolMap, list |-> Protocols, perm |-> PermanentRules,
       rules |-> RequirementRules]
Commit(s) == /\ ProtocolMap' = s.map
             /\ Protocols' = s.list
             /\ PermanentRules' = s.perm
             /\ RequirementRules' = s.rules

-----------------------------------------------------------------------------
Init ==
  /\ world \in Worlds
  /\ entry \in Entries(world)
  /\ ProtocolMap = [p \in Decls |-> NoValue]
  /\ Protocols = <<>>
  /\ PermanentRules = <<>>
  /\ RequirementRules = <<>>
  /\ scan = 0
  /\ emit = 0
  /\ pc = "seed"

(* addRequirements / addProtocols up to collectRulesFromReferencedProtocols. *)
Seed ==
  /\ pc = "seed"
  /\ Commit(IF entry.op = "addRequirements"
            THEN addProtocolsOf(St, ConformedProtocols(entry.reqs), FALSE)
            ELSE addProtocolsOf(St, entry.protos, TRUE))
  /\ pc' = "scan"
  /\ UNCHANGED <<world, entry, scan, emit>>

(* First loop: while (i < Protocols.size()), the worklist growing as it is scanned. *)
ScanningEarlyExit == scan + 1 < Len(Protocols)   \* mutant: off by one
Scanning == scan < Len(Protocols)
scanNext(i) == i + 1                             \* Protocols[i++]
ScanProtocol ==
  /\ pc = "scan"
  /\ Scanning
  /\ Commit(addProtocolsOf(St, ProtocolDependencies(world, Protocols[scan + 1]), FALSE))
  /\ scan' = scanNext(scan)
  /\ UNCHANGED <<world, entry, emit, pc>>
ScanDone ==
  /\ pc = "scan"
  /\ ~Scanning
  /\ pc' = "emit"
  /\ UNCHANGED <<world, entry, ProtocolMap, Protocols, PermanentRules,
                 RequirementRules, scan, emit>>

(* Second loop: for (auto *proto : Protocols). *)
EmitProtocol ==
  /\ pc = "emit"
  /\ emit < Len(Protocols)
  /\ Commit(addProtocolRules(St, Protocols[emit + 1]))
  /\ emit' = emit + 1
  /\ UNCHANGED <<world, entry, scan, pc>>
EmitDone ==
  /\ pc = "emit"
  /\ emit = Len(Protocols)
  /\ pc' = IF entry.op = "addRequirements" THEN "top" ELSE "done"
  /\ UNCHANGED <<world, entry, ProtocolMap, Protocols, PermanentRules,
                 RequirementRules, scan, emit>>

(* addRequirements: the top-level requirements, rooted in generic parameters. *)
AddTopLevelRequirements ==
  /\ pc = "top"
  /\ Commit(addRequirementsOf(St, entry.reqs, NoValue))
  /\ pc' = "done"
  /\ UNCHANGED <<world, entry, scan, emit>>

Next == Seed \/ ScanProtocol \/ ScanDone \/ EmitProtocol \/ EmitDone
        \/ AddTopLevelRequirements

(* The builder is one synchronous call on one thread: nothing else can   *)
(* run in its place, so once a step is enabled it is eventually taken.   *)
Fairness == WF_vars(Next)
Spec == Init /\ [][Next]_vars /\ Fairness

-----------------------------------------------------------------------------
(* Reference definitions. *)

DependencyEdges == {<<p, q>> \in Decls \X Decls : q \in Range(ProtocolDependencies(world, p))}
Seeds == IF entry.op = "addRequirements" THEN Range(ConformedProtocols(entry.reqs))
         ELSE Range(entry.protos)
Component == IF entry.op = "addProtocols" THEN Range(entry.protos) ELSE {}
Reflexivity(p) == <<<<ProtoSym(p), ProtoSym(p)>>, <<ProtoSym(p)>>>>
ProtocolsIn(term) ==
  {term[i].a : i \in {j \in DOMAIN term : term[j].k \in {"protocol", "assoc"}}}

(* The refinement mapping: the builder's result is visible when the call *)
(* returns; requirement rules lose their orientation.                    *)
Abstract == INSTANCE RuleSet WITH
  built <- pc = "done",
  protocols <- IF pc = "done" THEN Range(Protocols) ELSE {},
  permanent <- IF pc = "done" THEN Range(PermanentRules) ELSE {},
  requirement <- IF pc = "done" THEN {{r[1], r[2]} : r \in Range(RequirementRules)} ELSE {}

TypeOK ==
  /\ world \in World
  /\ ProtocolMap \in [Decls -> BOOLEAN \cup {NoValue}]
  /\ Protocols \in Seq(Decls)
  /\ \A p \in Decls : ProtocolMap[p] # NoValue <=> p \in Range(Protocols)
  /\ scan \in 0..Len(Protocols)
  /\ emit \in 0..Len(Protocols)
  /\ pc \in {"seed", "scan", "emit", "top", "done"}

(* The worklist of collectRulesFromReferencedProtocols holds each protocol *)
(* at most once and only protocols reachable from the seeds, and once the  *)
(* index loop has caught up with the growing worklist it holds exactly     *)
(* the transitive closure of the seeds under ProtocolDependenciesRequest.  *)
ClosureComplete ==
  /\ IsInjective(Protocols)
  /\ Range(Protocols) \subseteq ReachVia(Seeds, DependencyEdges)
  /\ pc \in {"emit", "top", "done"} =>
       Range(Protocols) = ReachVia(Seeds, DependencyEdges)

(* A protocol is lowered from its structural requirements exactly when it *)
(* is in the component passed to addProtocols; every other protocol is    *)
(* lowered from its requirement signature, and that signature must not    *)
(* depend on the component being built (else the request would cycle):    *)
(* the first addProtocol call for a protocol decides its flag.            *)
SignatureRequestsAcyclic ==
  \A p \in Range(Protocols) :
    /\ ProtocolMap[p] = (p \in Component)
    /\ ProtocolMap[p] = FALSE =>
         ReachVia({p}, DependencyEdges) \cap Component = {}

(* When the builder is done, every protocol named by a permanent or a     *)
(* requirement rule has had its own rules emitted, and emitted once: the  *)
(* rule set is closed under the protocols it mentions.                    *)
RulesClosed ==
  pc = "done" =>
    /\ \A r \in Range(PermanentRules) \cup Range(RequirementRules) :
         ProtocolsIn(r[1]) \cup ProtocolsIn(r[2]) \subseteq Range(Protocols)
    /\ \A p \in Range(Protocols) :
         Cardinality({i \in DOMAIN PermanentRules : PermanentRules[i] = Reflexivity(p)}) = 1

(* The rule builder implements the rule set of spec section 4.2: every   *)
(* behaviour of addRequirements/addProtocols followed by the two loops of *)
(* collectRulesFromReferencedProtocols is, under the mapping, one Build   *)
(* step that yields the closure over requirement-signature references and *)
(* exactly the rules of the spec's table, and the call does return.      *)
Refinement == Abstract!Spec
=============================================================================

------------------------- MODULE RequirementSignature -------------------------
(***************************************************************************)
(* Building protocol requirement signatures from minimized rules           *)
(* (lib/AST/RequirementMachine/RequirementMachineRequests.cpp).            *)
(*                                                                         *)
(* computeMinimalRequirements builds, for every protocol of the component, *)
(* the requirement signature of its minimized rules: property rules become *)
(* requirements, concrete-type and same-type rules are collected per       *)
(* subject in a SmallDenseMap of connected components, each component is  *)
(* flattened into a chain or a star, and the list is sorted.               *)
(* RequirementSignatureRequestRQM::evaluate then caches every entry.       *)
(*                                                                         *)
(* The DenseMap iteration orders and the unstable sort are free choices.   *)
(* Two copies of the computation run on the same input, the second after  *)
(* the first, so that a property can compare their results.               *)
(***************************************************************************)
EXTENDS Naturals, Sequences, FiniteSets, SequencesExt

CONSTANTS
  TermOrder,   \* type-parameter terms in compareDependentTypes order
  Concretes,   \* concrete types
  ProtoOrder,  \* the protocols in TypeDecl::compare order
  Layouts,     \* layout constraints
  Supers,      \* superclass types
  KindOrder,   \* requirement kinds in Requirement::compare order
  Protos,      \* RequirementMachine::Protos: the protocols of the component
  Kickoff,     \* the protocol the request was evaluated on
  NoValue,
  Inputs       \* getMinimizedRules results: [protocol -> Seq(Rule)]

Protocols == Range(ProtoOrder)
Terms == Range(TermOrder)
Copies == {1, 2}

(* A minimized rule.  A property rule rhs.[prop] => rhs has lhs NoValue;  *)
(* a same-type rule lhs => rhs has prop NoValue.                          *)
PropKinds == {"protocol", "layout", "superclass", "concrete"}
Rule == [lhs : Terms \cup {NoValue}, rhs : Terms,
         prop : [kind : PropKinds, value : Protocols \cup Layouts \cup Supers \cup Concretes]
                \cup {NoValue}]
Req == [kind : Range(KindOrder), first : Terms,
        second : Terms \cup Protocols \cup Layouts \cup Supers \cup Concretes]

ASSUME Kickoff \in Range(Protos)
(* A minimized rule set has at most one concrete type per subject. *)
ASSUME \A in \in Inputs : \A p \in Range(Protos) :
         \A i, j \in DOMAIN in[p] :
           /\ in[p][i].prop # NoValue /\ in[p][i].prop.kind = "concrete"
           /\ in[p][j].prop # NoValue /\ in[p][j].prop.kind = "concrete"
           /\ in[p][i].rhs = in[p][j].rhs
           => i = j

VARIABLES
  input,     \* the minimized rules of every protocol
  pc,        \* per copy: "protos", "rules", "components", "publish", "done"
  protoIdx,  \* per copy: the index in Protos being built
  ruleIdx,   \* per copy: the next rule of that protocol
  reqs,      \* per copy: the requirement list being built
  comps,     \* per copy: sameTypeReqs, subject -> [members, concrete]
  flushed,   \* per copy: subjects whose component has been emitted
  result,    \* per copy: protocol -> requirement signature (NoValue if none)
  cache,     \* per copy: requests cached by evaluate
  returned   \* per copy: the value evaluate returns for Kickoff

vars == <<input, pc, protoIdx, ruleIdx, reqs, comps, flushed, result, cache, returned>>

-----------------------------------------------------------------------------
(* Requirement::compare: subject, then kind, then protocol.  Two          *)
(* requirements that compare equal are left in either order.              *)
Rank(s, x) == CHOOSE i \in DOMAIN s : s[i] = x
(* compareDependentTypes(a, b) < 0 *)
TermLess(a, b) == Rank(TermOrder, a) < Rank(TermOrder, b)
ReqLess(a, b) ==
  \/ TermLess(a.first, b.first)
  \/ a.first = b.first /\ Rank(KindOrder, a.kind) < Rank(KindOrder, b.kind)
  \/ /\ a.first = b.first /\ a.kind = b.kind /\ a.kind = "conformance"
     /\ Rank(ProtoOrder, a.second) < Rank(ProtoOrder, b.second)

(* llvm::array_pod_sort (qsort): every ordering of s in which no element  *)
(* is preceded by one that compares greater.                              *)
RECURSIVE SortedOrders(_)
SortedOrders(s) ==
  IF s = <<>> THEN {<<>>}
  ELSE UNION {{<<s[i]>> \o rest :
                 rest \in SortedOrders(RemoveAt(s, i))} :
              i \in {j \in DOMAIN s : \A k \in DOMAIN s : ~ReqLess(s[k], s[j])}}

NewComponent == [members |-> <<>>, concrete |-> NoValue]
ComponentOf(c, subject) ==
  IF subject \in DOMAIN comps[c] THEN comps[c][subject] ELSE NewComponent
SetComponent(c, subject, comp) ==
  [x \in DOMAIN comps[c] \cup {subject} |->
     IF x = subject THEN comp ELSE comps[c][x]]

ReqKindOf == [protocol |-> "conformance", layout |-> "layout", superclass |-> "superclass"]
SameTypeReq(a, b) == [kind |-> "sametype", first |-> a, second |-> b]

(* Mutants of buildRequirements: the members left in rule order; the     *)
(* star without its subject == X requirement.                             *)
buildRequirementsUnsorted(comp, subject) ==
  LET ms == comp.members
  IN IF comp.concrete = NoValue
     THEN [i \in DOMAIN ms |-> SameTypeReq(IF i = 1 THEN subject ELSE ms[i - 1], ms[i])]
     ELSE <<SameTypeReq(subject, comp.concrete)>>
          \o [i \in DOMAIN ms |-> SameTypeReq(ms[i], comp.concrete)]
buildRequirementsNoSubject(comp, subject) ==
  LET ms == SortSeq(comp.members, TermLess)
  IN IF comp.concrete = NoValue
     THEN [i \in DOMAIN ms |-> SameTypeReq(IF i = 1 THEN subject ELSE ms[i - 1], ms[i])]
     ELSE [i \in DOMAIN ms |-> SameTypeReq(ms[i], comp.concrete)]

(* ConnectedComponent::buildRequirements: sort the members, then a chain  *)
(* subject == m1, m1 == m2, ... or, with a concrete type X, a star        *)
(* subject == X, m1 == X, m2 == X, ...                                    *)
buildRequirements(comp, subject) ==
  LET ms == SortSeq(comp.members, TermLess)
  IN IF comp.concrete = NoValue
     THEN [i \in DOMAIN ms |-> SameTypeReq(IF i = 1 THEN subject ELSE ms[i - 1], ms[i])]
     ELSE <<SameTypeReq(subject, comp.concrete)>>
          \o [i \in DOMAIN ms |-> SameTypeReq(ms[i], comp.concrete)]

(* Mutant of propertyReq: the subject taken from the LHS of the rule. *)
propertyReqFromLHS(rule) ==
  [kind |-> ReqKindOf[rule.prop.kind], first |-> rule.lhs, second |-> rule.prop.value]

(* The requirement of a property rule: its RHS is the subject. *)
propertyReq(rule) ==
  [kind |-> ReqKindOf[rule.prop.kind], first |-> rule.rhs, second |-> rule.prop.value]

(* createRequirementFromRule, as a transformer of [reqs, comps]: concrete *)
(* types and same-type rules go to the component of their subject.       *)
createRequirementFromRule(c, rule) ==
  LET comp == ComponentOf(c, rule.rhs)
  IN CASE rule.prop = NoValue ->
            [reqs |-> reqs[c],
             comps |-> SetComponent(c, rule.rhs, [comp EXCEPT !.members = Append(@, rule.lhs)])]
       [] rule.prop.kind = "concrete" ->
            [reqs |-> reqs[c],
             comps |-> SetComponent(c, rule.rhs, [comp EXCEPT !.concrete = rule.prop.value])]
       [] OTHER ->
            [reqs |-> Append(reqs[c], propertyReq(rule)), comps |-> comps[c]]

(* Mutant of sortRequirements: the sort left out. *)
unsortedRequirements(s) == {s}

(* The final llvm::array_pod_sort of buildRequirementSignature. *)
sortRequirements(s) == SortedOrders(s)

(* Mutant of ProtosToBuild: only the protocols that have rules. *)
ProtosWithRules == SelectSeq(Protos, LAMBDA p : input[p] # <<>>)

(* computeMinimalRequirements iterates over Protos, not over the rules,   *)
(* so that a protocol without rules still gets an entry.                  *)
ProtosToBuild == Protos

-----------------------------------------------------------------------------
Active(c) == c = 1 \/ pc[1] = "done"
CurProto(c) == ProtosToBuild[protoIdx[c]]
CurRules(c) == input[CurProto(c)]

Init ==
  /\ input \in Inputs
  /\ pc = [c \in Copies |-> "protos"]
  /\ protoIdx = [c \in Copies |-> 1]
  /\ ruleIdx = [c \in Copies |-> 1]
  /\ reqs = [c \in Copies |-> <<>>]
  /\ comps = [c \in Copies |-> [x \in {} |-> NewComponent]]
  /\ flushed = [c \in Copies |-> {}]
  /\ result = [c \in Copies |-> [p \in Range(Protos) |-> NoValue]]
  /\ cache = [c \in Copies |-> [p \in Range(Protos) |-> NoValue]]
  /\ returned = [c \in Copies |-> NoValue]

(* The loop of computeMinimalRequirements over the protocols. *)
NextProto(c) ==
  /\ Active(c) /\ pc[c] = "protos"
  /\ pc' = [pc EXCEPT ![c] = IF protoIdx[c] <= Len(ProtosToBuild) THEN "rules" ELSE "publish"]
  /\ UNCHANGED <<input, protoIdx, ruleIdx, reqs, comps, flushed, result, cache, returned>>

(* One iteration of the loop over the minimized rules. *)
CreateRequirementFromRule(c) ==
  /\ Active(c) /\ pc[c] = "rules"
  /\ ruleIdx[c] <= Len(CurRules(c))
  /\ LET t == createRequirementFromRule(c, CurRules(c)[ruleIdx[c]])
     IN /\ reqs' = [reqs EXCEPT ![c] = t.reqs]
        /\ comps' = [comps EXCEPT ![c] = t.comps]
  /\ ruleIdx' = [ruleIdx EXCEPT ![c] = @ + 1]
  /\ UNCHANGED <<input, pc, protoIdx, flushed, result, cache, returned>>

RulesDone(c) ==
  /\ Active(c) /\ pc[c] = "rules"
  /\ ruleIdx[c] > Len(CurRules(c))
  /\ pc' = [pc EXCEPT ![c] = "components"]
  /\ UNCHANGED <<input, protoIdx, ruleIdx, reqs, comps, flushed, result, cache, returned>>

(* One iteration over sameTypeReqs, in whatever order the DenseMap has. *)
BuildComponent(c) ==
  /\ Active(c) /\ pc[c] = "components"
  /\ \E subject \in DOMAIN comps[c] \ flushed[c] :
       /\ reqs' = [reqs EXCEPT ![c] = @ \o buildRequirements(comps[c][subject], subject)]
       /\ flushed' = [flushed EXCEPT ![c] = @ \cup {subject}]
  /\ UNCHANGED <<input, pc, protoIdx, ruleIdx, comps, result, cache, returned>>

(* Sort, store the signature into result[proto], go to the next proto. *)
SortAndStore(c) ==
  /\ Active(c) /\ pc[c] = "components"
  /\ flushed[c] = DOMAIN comps[c]
  /\ \E sorted \in sortRequirements(reqs[c]) :
       result' = [result EXCEPT ![c][CurProto(c)] = sorted]
  /\ pc' = [pc EXCEPT ![c] = "protos"]
  /\ protoIdx' = [protoIdx EXCEPT ![c] = @ + 1]
  /\ ruleIdx' = [ruleIdx EXCEPT ![c] = 1]
  /\ reqs' = [reqs EXCEPT ![c] = <<>>]
  /\ comps' = [comps EXCEPT ![c] = [x \in {} |-> NewComponent]]
  /\ flushed' = [flushed EXCEPT ![c] = {}]
  /\ UNCHANGED <<input, cache, returned>>

Published(c, p) == IF p = Kickoff THEN returned[c] # NoValue ELSE cache[c][p] # NoValue

(* One iteration of evaluate's loop over the result DenseMap. *)
Publish(c) ==
  /\ Active(c) /\ pc[c] = "publish"
  /\ \E p \in {q \in Range(Protos) : result[c][q] # NoValue /\ ~Published(c, q)} :
       IF p = Kickoff
       THEN /\ returned' = [returned EXCEPT ![c] = result[c][p]]
            /\ UNCHANGED cache
       ELSE /\ cache' = [cache EXCEPT ![c][p] = result[c][p]]
            /\ UNCHANGED returned
  /\ UNCHANGED <<input, pc, protoIdx, ruleIdx, reqs, comps, flushed, result>>

PublishDone(c) ==
  /\ Active(c) /\ pc[c] = "publish"
  /\ \A q \in Range(Protos) : result[c][q] # NoValue => Published(c, q)
  /\ pc' = [pc EXCEPT ![c] = "done"]
  /\ UNCHANGED <<input, protoIdx, ruleIdx, reqs, comps, flushed, result, cache, returned>>

Next ==
  \E c \in Copies :
    \/ NextProto(c)
    \/ CreateRequirementFromRule(c)
    \/ RulesDone(c)
    \/ BuildComponent(c)
    \/ SortAndStore(c)
    \/ Publish(c)
    \/ PublishDone(c)

Spec == Init /\ [][Next]_vars

-----------------------------------------------------------------------------
(* Properties. *)

Signature == Seq(Req) \cup {NoValue}
TypeOK ==
  /\ input \in [Range(Protos) -> Seq(Rule)]
  /\ pc \in [Copies -> {"protos", "rules", "components", "publish", "done"}]
  /\ protoIdx \in [Copies -> 1..Len(Protos) + 1]
  /\ ruleIdx \in [Copies -> Nat]
  /\ reqs \in [Copies -> Seq(Req)]
  /\ \A c \in Copies :
       /\ DOMAIN comps[c] \subseteq Terms
       /\ \A t \in DOMAIN comps[c] :
            comps[c][t] \in [members : Seq(Terms), concrete : Concretes \cup {NoValue}]
  /\ flushed \in [Copies -> SUBSET Terms]
  /\ result \in [Copies -> [Range(Protos) -> Signature]]
  /\ cache \in [Copies -> [Range(Protos) -> Signature]]
  /\ returned \in [Copies -> Signature]

(* The equivalence classes of terms and concrete types that a set of      *)
(* equations generates.                                                   *)
Nodes == Terms \cup Concretes
RECURSIVE Saturate(_)
Saturate(R) ==
  LET R2 == R \cup {xz \in Nodes \X Nodes :
                      \E y \in Nodes : <<xz[1], y>> \in R /\ <<y, xz[2]>> \in R}
  IN IF R2 = R THEN R ELSE Saturate(R2)
Equiv(E) ==
  Saturate({<<x, x>> : x \in Nodes} \cup E \cup {<<e[2], e[1]>> : e \in E})
RuleEquations(rs) ==
  {<<r.lhs, r.rhs>> : r \in {r \in Range(rs) : r.prop = NoValue}}
  \cup {<<r.rhs, r.prop.value>> :
        r \in {r \in Range(rs) : r.prop # NoValue /\ r.prop.kind = "concrete"}}
ReqEquations(out) ==
  {<<q.first, q.second>> : q \in {q \in Range(out) : q.kind = "sametype"}}

(* The requirement signature built from the minimized rules of a protocol *)
(* says what the rules say: the same conformance, layout and superclass   *)
(* requirements, and same-type requirements that generate the same        *)
(* equivalence of terms and concrete types, whichever way the components *)
(* were flattened into chains and stars.                                  *)
SignatureMeaning ==
  \A c \in Copies, p \in Range(Protos) :
    result[c][p] # NoValue =>
      /\ Equiv(ReqEquations(result[c][p])) = Equiv(RuleEquations(input[p]))
      /\ {q \in Range(result[c][p]) : q.kind # "sametype"}
           = {propertyReq(r) :
                r \in {r \in Range(input[p]) : r.prop # NoValue /\ r.prop.kind # "concrete"}}

(* A same-type requirement between two type parameters is canonical: its  *)
(* subject precedes its constraint in compareDependentTypes order, which *)
(* the sort of the members of each component must ensure.                 *)
SameTypeCanonical ==
  \A c \in Copies, p \in Range(Protos) :
    result[c][p] # NoValue =>
      \A q \in Range(result[c][p]) :
        q.kind = "sametype" /\ q.second \in Terms => TermLess(q.first, q.second)

(* The spec: the same rules produce the same requirement signatures,     *)
(* whatever the iteration order of the DenseMaps and however the sort     *)
(* places requirements that compare equal.                                *)
Determinism ==
  pc[2] = "done" =>
    /\ result[1] = result[2]
    /\ returned[1] = returned[2]
    /\ cache[1] = cache[2]

(* After evaluate, every protocol of the component has its requirement   *)
(* signature: returned for the protocol the request was made on, cached   *)
(* for every other one, including protocols without minimized rules.     *)
EveryProtoCached ==
  \A c \in Copies :
    pc[c] = "done" =>
      \A p \in Range(Protos) :
        /\ result[c][p] # NoValue
        /\ p = Kickoff => returned[c] = result[c][p]
        /\ p # Kickoff => cache[c][p] = result[c][p]
=============================================================================

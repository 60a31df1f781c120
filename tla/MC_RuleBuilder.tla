--------------------------- MODULE MC_RuleBuilder ---------------------------
(***************************************************************************)
(* Instances of RuleBuilder for TLC.                                       *)
(*                                                                         *)
(* Three protocols P, Q, R, each with one associated type.  Between every  *)
(* ordered pair the first protocol either does not mention the second,    *)
(* inherits it (Self: Q) or constrains its associated type to it          *)
(* (PA: Q); inheritance is acyclic, associated-type conformances may      *)
(* cycle.  The requirement signature drops an inheritance requirement     *)
(* implied by another inherited protocol, as minimization does.  Q also   *)
(* has a layout and a same-type requirement, R a superclass and a         *)
(* concrete-type requirement.  R's signature may be serialized, and the   *)
(* GSB mode may be on.  A world admits a top-level generic signature and, *)
(* when protocol signatures are built here, the component of P.           *)
(***************************************************************************)
EXTENDS RuleBuilder

MCDecls == {"P", "Q", "R"}
Order == <<"P", "Q", "R">>
AssocName == [p \in MCDecls |-> CASE p = "P" -> "PA" [] p = "Q" -> "QA" [] p = "R" -> "RA"]
MCObjCClasses == {"NSObject"}

Req(k, s, v) == [kind |-> k, subject |-> s, value |-> v]
Pairs == {pq \in MCDecls \X MCDecls : pq[1] # pq[2]}
Graphs ==
  {g \in [Pairs -> {"none", "inherit", "assoc"}] :
     \A p \in MCDecls :
       p \notin ReachVia({q \in MCDecls : <<p, q>> \in Pairs /\ g[<<p, q>>] = "inherit"},
                         {e \in Pairs : g[e] = "inherit"})}

InheritEdges(g) == {e \in Pairs : g[e] = "inherit"}
InheritedOf(g, p) == ReachVia({q \in MCDecls : <<p, q>> \in InheritEdges(g)}, InheritEdges(g))
InOrder(S) == SelectSeq(Order, LAMBDA x : x \in S)

Extra(p) == CASE p = "Q" -> <<Req("layout", "QA", "AnyObject"), Req("sametype", "QA", "Self")>>
              [] p = "R" -> <<Req("superclass", "Self", "NSObject"), Req("concrete", "RA", "Int")>>
              [] OTHER   -> <<>>
EdgeReq(g, p, q) == IF g[<<p, q>>] = "inherit" THEN Req("conformance", "Self", q)
                    ELSE Req("conformance", AssocName[p], q)
Structural(g, p) ==
  [i \in 1..Len(InOrder({q \in MCDecls : <<p, q>> \in Pairs /\ g[<<p, q>>] # "none"})) |->
     EdgeReq(g, p, InOrder({q \in MCDecls : <<p, q>> \in Pairs /\ g[<<p, q>>] # "none"})[i])]
  \o Extra(p)
Redundant(g, p, r) ==
  /\ r.kind = "conformance" /\ r.subject = "Self"
  /\ \E m \in MCDecls : <<p, m>> \in InheritEdges(g) /\ m # r.value /\ r.value \in InheritedOf(g, m)
Signature(g, p) == SelectSeq(Structural(g, p), LAMBDA r : ~Redundant(g, p, r))

MCWorlds ==
  {[structural |-> [p \in MCDecls |-> Structural(g, p)],
    signature  |-> [p \in MCDecls |-> Signature(g, p)],
    assocTypes |-> [p \in MCDecls |-> <<AssocName[p]>>],
    inherited  |-> [p \in MCDecls |-> InOrder(InheritedOf(g, p))],
    lazy |-> lz, gsb |-> gs] : g \in Graphs, lz \in {{}, {"R"}}, gs \in BOOLEAN}

(* The connected component of P in the dependency graph. *)
DepEdges(w) == {<<p, q>> \in MCDecls \X MCDecls : q \in Range(ConformedProtocols(w.structural[p]))}
ComponentOfP(w) == {q \in ReachVia({"P"}, DepEdges(w)) : "P" \in ReachVia({q}, DepEdges(w))}

TopLevel == <<Req("conformance", "T", "P"), Req("superclass", "T", "Base"),
              Req("layout", "T", "AnyObject"), Req("concrete", "T", "Int"),
              Req("sametype", "T", "U")>>
MCEntries(w) ==
  {[op |-> "addRequirements", reqs |-> TopLevel]}
  \cup (IF ~w.gsb /\ ComponentOfP(w) \cap w.lazy = {}
        THEN {[op |-> "addProtocols", protos |-> InOrder(ComponentOfP(w))]} ELSE {})
=============================================================================

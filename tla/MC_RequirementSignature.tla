----------------------- MODULE MC_RequirementSignature -----------------------
(***************************************************************************)
(* Instances of RequirementSignature for TLC.                              *)
(*                                                                         *)
(* Three terms A < B < C.  The minimized rules of P are those of a         *)
(* confluent system: every term reduces to the least term of its class,   *)
(* one class may be bound to the concrete type X, and term A may conform  *)
(* to Q and have a layout.  Every order of the rules is an input.  The    *)
(* second protocol Q has either no rules or one conformance rule.         *)
(***************************************************************************)
EXTENDS RequirementSignature

MCTermOrder == <<"A", "B", "C">>
MCTerms == Range(MCTermOrder)
T1 == "A"
MCConcretes == {"X"}
MCProtoOrder == <<"P", "Q">>
MCLayouts == {"AnyObject"}
MCSupers == {"C"}
MCKindOrder == <<"superclass", "layout", "conformance", "sametype">>
MCProtos == <<"P", "Q">>
MCKickoff == "P"

SameRule(l, r) == [lhs |-> l, rhs |-> r, prop |-> NoValue]
PropRule(t, k, v) == [lhs |-> NoValue, rhs |-> t, prop |-> [kind |-> k, value |-> v]]

(* rep[t]: the least term of the class of t. *)
Reps == {rep \in [MCTerms -> MCTerms] :
           \A t \in MCTerms : Rank(MCTermOrder, rep[t]) <= Rank(MCTermOrder, t) /\ rep[rep[t]] = rep[t]}
RuleSets ==
  UNION {{ {SameRule(t, rep[t]) : t \in {u \in MCTerms : rep[u] # u}}
           \cup concrete \cup props :
           concrete \in {{}} \cup {{PropRule(k, "concrete", "X")} : k \in Range(rep)},
           props \in SUBSET {PropRule(T1, "protocol", "Q"), PropRule(T1, "layout", "AnyObject")}} :
         rep \in Reps}
Orders(S) == {s \in SetToAllKPermutations(S) : Len(s) = Cardinality(S)}
MCInputs ==
  {[p \in {"P", "Q"} |-> IF p = "P" THEN rs ELSE q] :
     rs \in UNION {Orders(S) : S \in RuleSets},
     q \in {<<>>, <<PropRule(T1, "protocol", "P")>>}}
=============================================================================

------------------------------ MODULE RuleTerms ------------------------------
(***************************************************************************)
(* The symbols and terms of rewrite rules, shared by the rule builder      *)
(* (RuleBuilder) and the specification of the rules it builds (RuleSet).   *)
(***************************************************************************)
EXTENDS Naturals, Sequences, FiniteSets, SequencesExt

CONSTANT NoValue

(* Symbols and terms. *)
Sym(k, a, b) == [k |-> k, a |-> a, b |-> b]
ProtoSym(p)    == Sym("protocol", p, NoValue)
NameSym(n)     == Sym("name", n, NoValue)
AssocSym(p, n) == Sym("assoc", p, n)
GenericSym(n)  == Sym("generic", n, NoValue)

(* RewriteContext::getMutableTermForType: Self of a protocol is [P], an   *)
(* associated type of it [P:A]; a top-level type parameter is rooted in a *)
(* generic parameter symbol.                                              *)
TermFor(subject, proto) ==
  CASE proto = NoValue  -> <<GenericSym(subject)>>
    [] subject = "Self" -> <<ProtoSym(proto)>>
    [] OTHER            -> <<ProtoSym(proto), AssocSym(proto, subject)>>

(* The nodes reachable from S along the edges E (reflexive). *)
RECURSIVE ReachVia(_, _)
ReachVia(S, E) ==
  LET N == S \cup {e[2] : e \in {x \in E : x[1] \in S}}
  IN IF N = S THEN S ELSE ReachVia(N, E)

=============================================================================

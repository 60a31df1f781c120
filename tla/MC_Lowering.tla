------------------------------ MODULE MC_Lowering ------------------------------
(***************************************************************************)
(* Instances of Lowering for TLC.                                          *)
(*                                                                         *)
(* Type parameters T and U; IntT; classes C and its subclass D; the         *)
(* two-argument struct Pair nested up to depth two.                        *)
(*  - Desugar: every same-type requirement between these types, every      *)
(*    conformance of T, IntT or Pair<T, IntT> to a protocol or a           *)
(*    composition of P, Q, AnyObject and a class, every superclass and     *)
(*    layout requirement of those subjects.                                *)
(*  - StructuralRequirements: Self is T, the associated type is U.  An     *)
(*    inherited type is a protocol, a composition, the class C, or one     *)
(*    that does not resolve; a protocol inherits up to two of them and has *)
(*    a where clause of at most one requirement; a non-@objc protocol has  *)
(*    at most one associated type with at most one inherited type and one  *)
(*    where-clause requirement.                                             *)
(* Type parameters range over IntT, C, D and Pair of IntT and C.            *)
(* Types and requirements are built locally, as Desugar builds them.       *)
(***************************************************************************)
EXTENDS Lowering

MCTy(h, args) == [head |-> h, args |-> args]
MCReq(k, a, b) == [kind |-> k, first |-> a, second |-> b]
MCProto(p) == [protos |-> <<p>>, layout |-> FALSE, super |-> NoValue]

T == MCTy("T", <<>>)
U == MCTy("U", <<>>)
IntT == MCTy("Int", <<>>)
C == MCTy("C", <<>>)
D == MCTy("D", <<>>)
Pair(a, b) == MCTy("Pair", <<a, b>>)

Leaves == {T, U, IntT, C}
Depth1 == {Pair(a, b) : a, b \in Leaves}
Depth2 == {Pair(Pair(a, b), c) : a, b, c \in {T, IntT}}
Types == Leaves \cup Depth1 \cup Depth2

Subjects == {T, IntT, Pair(T, IntT)}
Compositions ==
  {[protos |-> ps, layout |-> l, super |-> sc] :
     ps \in {<<>>, <<"P">>, <<"Q">>, <<"P", "Q">>}, l \in BOOLEAN, sc \in {NoValue, "C", "D"}}

MCInputs ==
  {MCReq("sametype", a, b) : a, b \in Types}
  \cup {MCReq("conformance", s, c) : s \in Subjects, c \in Compositions}
  \cup {MCReq("superclass", s, c) : s \in Subjects, c \in {C, D, IntT}}
  \cup {MCReq("layout", s, "AnyObject") : s \in Subjects}

MCGround == {IntT, C, D} \cup {Pair(a, b) : a, b \in {IntT, C}}
MCConforms == {<<IntT, "P">>, <<D, "P">>, <<C, "Q">>, <<D, "Q">>, <<Pair(IntT, IntT), "Q">>}
MCSubclassOf == {<<"C", "C">>, <<"D", "D">>, <<"D", "C">>}

Inherited ==
  {NoValue, MCProto("P"), C,
   [protos |-> <<"P", "Q">>, layout |-> FALSE, super |-> NoValue],
   [protos |-> <<"Q">>, layout |-> TRUE, super |-> "D"]}
WhereReqs ==
  {MCReq("sametype", U, Pair(T, IntT)),
   MCReq("sametype", Pair(U, IntT), Pair(IntT, T)),
   MCReq("conformance", U, MCProto("Q")),
   MCReq("superclass", T, MCTy("D", <<>>)),
   MCReq("layout", U, "AnyObject")}

UpTo(X, n) == UNION {[1..k -> X] : k \in 0..n}
AssocDecls == {<<>>} \cup {<<[name |-> "U", inherited |-> i, where |-> w]>> :
                             i \in UpTo(Inherited, 1), w \in UpTo(WhereReqs, 1)}
MCDecls ==
  {[objc |-> o, inherited |-> i, where |-> w, assocs |-> a] :
     o \in BOOLEAN, i \in UpTo(Inherited, 2), w \in UpTo(WhereReqs, 1),
     a \in AssocDecls}
  \* An @objc protocol declares no associated type.
  \ {d \in [objc : {TRUE}, inherited : UpTo(Inherited, 2), where : UpTo(WhereReqs, 1),
            assocs : AssocDecls \ {<<>>}] : TRUE}
=============================================================================

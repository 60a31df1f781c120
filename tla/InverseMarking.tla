---------------------------- MODULE InverseMarking ----------------------------
(***************************************************************************)
(* The marks of an inverse constraint (include/swift/AST/InverseMarking.h). *)
(*                                                                         *)
(* An InverseMarking holds two Marks, inverse and positive.  A Mark is an  *)
(* OptionalEnum<Kind> and a SourceLoc: "unset" (no value) differs from     *)
(* "set to None", although getKind() returns None for both.  set() asserts *)
(* that the mark is unset; the assert is compiled out of a release build,  *)
(* where set() overwrites.  setIfUnset() calls set() only on an unset      *)
(* mark, and its Mark overload copies another mark's kind and location.   *)
(* A marking is made empty or by forInverse; afterwards its friend may     *)
(* call setIfUnset on either mark, with a kind or with another mark.      *)
(***************************************************************************)
EXTENDS Naturals

CONSTANTS
  Kinds,     \* Kind::None, Inferred, Explicit, LegacyExplicit
  None,      \* Kind::None
  Locs,      \* source locations, NoLoc among them
  NoLoc,     \* SourceLoc()
  Unset,     \* an OptionalEnum with no value
  MaxCalls   \* bound on the calls made on one marking

ASSUME None \in Kinds /\ NoLoc \in Locs /\ Unset \notin Kinds

Which == {"inverse", "positive"}
Mark == [kind : Kinds \cup {Unset}, loc : Locs]
EmptyMark == [kind |-> Unset, loc |-> NoLoc]

VARIABLES
  marking,   \* [inverse |-> Mark, positive |-> Mark]
  build,     \* "assert" or "release"
  aborted,   \* an assert has failed
  calls,     \* calls made so far
  given      \* history: per mark, the first mark a call carried a kind in

vars == <<marking, build, aborted, calls, given>>

-----------------------------------------------------------------------------
(* Mark operations, as functions of a mark to [m, abort]. *)

getKind(m) == IF m.kind = Unset THEN None ELSE m.kind
isPresent(m) == getKind(m) # None

(* Mark::set: assert(!kind.hasValue()); kind = k; loc = l. *)
set(m, k, l) ==
  [m |-> [kind |-> k, loc |-> l], abort |-> build = "assert" /\ m.kind # Unset]

(* Mutant of setIfUnset: the hasValue check dropped. *)
setIfUnsetNoCheck(m, k, l) == set(m, k, l)

(* Mark::setIfUnset(Kind, SourceLoc). *)
setIfUnset(m, k, l) ==
  IF m.kind # Unset THEN [m |-> m, abort |-> FALSE] ELSE set(m, k, l)

setIfUnsetFrom(m, other) ==
  IF other.kind = Unset THEN [m |-> m, abort |-> FALSE]
  ELSE setIfUnset(m, other.kind, other.loc)

(* Mark::with: the same location, another kind. *)
with(m, k) == [kind |-> k, loc |-> m.loc]

(* InverseMarking::forInverse: inverse set to (kind, loc), positive set to None. *)
forInverse(k, l) ==
  [inverse |-> set(EmptyMark, k, l).m, positive |-> set(EmptyMark, None, NoLoc).m]

-----------------------------------------------------------------------------
Init ==
  /\ build \in {"assert", "release"}
  /\ marking \in {[inverse |-> EmptyMark, positive |-> EmptyMark]}
                 \cup {forInverse(k, l) : k \in Kinds, l \in Locs}
  /\ aborted = FALSE
  /\ calls = 0
  /\ given = marking

(* A call on mark w with result r, carrying the mark c (EmptyMark when it *)
(* carries no kind: setIfUnset of an empty Mark()).                         *)
Apply(w, r, c) ==
  /\ marking' = [marking EXCEPT ![w] = r.m]
  /\ aborted' = r.abort
  /\ calls' = calls + 1
  /\ given' = [given EXCEPT ![w] = IF @.kind = Unset THEN c ELSE @]
  /\ UNCHANGED build

Ready == ~aborted /\ calls < MaxCalls

(* setIfUnset(kind, loc) on one mark. *)
SetIfUnset(w, k, l) == Ready /\ Apply(w, setIfUnset(marking[w], k, l), [kind |-> k, loc |-> l])

(* setIfUnset(other) on one mark, other being a fresh Mark(kind, loc), an *)
(* empty Mark(), the other mark of this marking, or that mark .with(k).   *)
SetIfUnsetFrom(w, other) ==
  Ready /\ Apply(w, setIfUnsetFrom(marking[w], other), IF other.kind = Unset THEN EmptyMark ELSE other)

Others(w) ==
  LET o == marking[CHOOSE x \in Which : x # w]
  IN {EmptyMark, o} \cup {[kind |-> k, loc |-> l] : k \in Kinds, l \in Locs}
     \cup {with(o, k) : k \in Kinds}

Next ==
  \E w \in Which :
    \/ \E k \in Kinds, l \in Locs : SetIfUnset(w, k, l)
    \/ \E other \in Others(w) : SetIfUnsetFrom(w, other)

Spec == Init /\ [][Next]_vars

-----------------------------------------------------------------------------
=============================================================================

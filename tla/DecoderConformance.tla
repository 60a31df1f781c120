---------------------------- MODULE DecoderConformance ----------------------------
(***************************************************************************)
(* An invocation decoder through the two checks that look at it: the       *)
(* ad-hoc requirement check of its DistributedTargetInvocationDecoder      *)
(* conformance (DistributedAdHoc, TypeCheckDistributed.cpp:174-204) and,   *)
(* for a decoder the check accepts, the request that finds its             *)
(* decodeNextArgument (DecodingMethod, :469-547).  The comment at          *)
(* :542-543 says the type checker rejects a decoder without a correct      *)
(* decodeNextArgument, which the request's assertion relies on.            *)
(***************************************************************************)
EXTENDS Naturals, Sequences

CONSTANTS Methods, Diagnose, Decoders, Systems, Protocols

VARIABLES proto, witnesses, diagnose, diags, anyMissing, ret, adhocPc, returned,
          system, members, k, candidates, requestPc
adhocVars == <<proto, witnesses, diagnose, diags, anyMissing, ret, adhocPc, returned>>
requestVars == <<system, members, k, candidates, requestPc>>
vars == <<adhocVars, requestVars>>

Decoder == "DistributedTargetInvocationDecoder"

AdHoc == INSTANCE DistributedAdHoc WITH Protocols <- {Decoder}, pc <- adhocPc
Request == INSTANCE DecodingMethod WITH pc <- requestPc

Init == AdHoc!Init /\ Request!Init

(* The conformance is checked first; the request runs only on a decoder  *)
(* the check accepted.                                                     *)
CheckConformance == ~returned /\ AdHoc!Next /\ UNCHANGED requestVars
FindDecodingMethod == returned /\ ~ret /\ Request!Next /\ UNCHANGED adhocVars

Next == CheckConformance \/ FindDecodingMethod

Spec == Init /\ [][Next]_vars

-----------------------------------------------------------------------------
(* A decoder whose conformance the type checker accepts has exactly one   *)
(* decodeNextArgument the request can return (the assertion at :544).    *)
AcceptedDecoderDecodes ==
  requestPc = "done" => Len(candidates) = 1
=============================================================================

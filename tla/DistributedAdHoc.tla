------------------------------ MODULE DistributedAdHoc ------------------------------
(***************************************************************************)
(* checkDistributedActorSystemAdHocProtocolRequirements                     *)
(* (lib/Sema/TypeCheckDistributed.cpp:113-215).                            *)
(*                                                                         *)
(* A conformance to one of the distributed protocols must also provide     *)
(* ad-hoc requirements, methods the protocol cannot state:                 *)
(*   - DistributedActorSystem: remoteCall, then remoteCallVoid; the first  *)
(*     one missing is diagnosed (an error and a note) and the check        *)
(*     returns true, but only when diagnose is set;                        *)
(*   - DistributedTargetInvocationDecoder: recordArgument, recordErrorType *)
(*     and recordReturnType are each looked up and each missing one is     *)
(*     diagnosed; the check returns true if any was missing;               *)
(*   - DistributedTargetInvocationResultHandler: nothing yet (FIXME).      *)
(* The lookups (getRemoteCallOnDistributedActorSystem and friends) are an  *)
(* input: the set of ad-hoc methods the adoptee declares.                  *)
(***************************************************************************)
EXTENDS Naturals, Sequences, SequencesExt

CONSTANTS
  Protocols,   \* the protocols a conformance may be checked against
  Methods,     \* the ad-hoc method names
  Diagnose     \* the values of the diagnose argument callers pass

VARIABLES proto, witnesses, diagnose, diags, anyMissing, ret, pc, returned
vars == <<proto, witnesses, diagnose, diags, anyMissing, ret, pc, returned>>

(* The order in which each protocol's ad-hoc requirements are looked up. *)
AdHocOrder(p) ==
  CASE p = "DistributedActorSystem" -> <<"remoteCall", "remoteCallVoid">>
    [] p = "DistributedTargetInvocationDecoder" ->
         <<"recordArgument", "recordErrorType", "recordReturnType">>
    [] OTHER -> <<>>

Error(name) == [kind |-> "missing_adhoc_requirement", name |-> name]
Note(name)  == [kind |-> "note_missing_adhoc_requirement", name |-> name]

(* The requirement looked up at step pc, and the next step. *)
Step == AdHocOrder(proto)[pc]
Looking == ~returned /\ pc \in DOMAIN AdHocOrder(proto)
NextStep == pc + 1
Missing(name) == name \notin witnesses

Init == /\ proto \in Protocols
        /\ witnesses \in SUBSET Methods
        /\ diagnose \in Diagnose
        /\ diags = <<>>
        /\ anyMissing = FALSE
        /\ ret = FALSE   \* meaningful once returned
        /\ pc = 1
        /\ returned = FALSE

(* :127-145 and :150-166: "if (!decl && diagnose)": diagnose and return  *)
(* true.                                                                   *)
SystemRequirementMissing ==
  /\ proto = "DistributedActorSystem"
  /\ Looking
  /\ Missing(Step) /\ diagnose
  /\ diags' = diags \o <<Error(Step), Note(Step)>>
  /\ ret' = TRUE
  /\ returned' = TRUE
  /\ UNCHANGED <<proto, witnesses, diagnose, anyMissing, pc>>

(* Otherwise the next lookup; :169 returns false after the last one. *)
SystemRequirementPassed ==
  /\ proto = "DistributedActorSystem"
  /\ Looking
  /\ ~(Missing(Step) /\ diagnose)
  /\ IF NextStep \in DOMAIN AdHocOrder(proto)
     THEN pc' = NextStep /\ UNCHANGED <<ret, returned>>
     ELSE returned' = TRUE /\ ret' = FALSE /\ UNCHANGED pc
  /\ UNCHANGED <<proto, witnesses, diagnose, diags, anyMissing>>

(* Mutant: a missing requirement is diagnosed but the flag is not set. *)
DecoderRequirementNoFlag ==
  /\ proto = "DistributedTargetInvocationDecoder"
  /\ Looking
  /\ diags' = IF Missing(Step) THEN Append(diags, Error(Step)) ELSE diags
  /\ pc' = NextStep
  /\ UNCHANGED <<proto, witnesses, diagnose, anyMissing, ret, returned>>

(* :178-199: each missing requirement is diagnosed (whatever diagnose    *)
(* says) and sets anyMissingAdHocRequirements.                            *)
DecoderRequirement ==
  /\ proto = "DistributedTargetInvocationDecoder"
  /\ Looking
  /\ diags' = IF Missing(Step) THEN Append(diags, Error(Step)) ELSE diags
  /\ anyMissing' = (anyMissing \/ Missing(Step))
  /\ pc' = NextStep
  /\ UNCHANGED <<proto, witnesses, diagnose, ret, returned>>

(* :202-214: return true if a decoder requirement was missing; the       *)
(* result-handler branch checks nothing; return false.                    *)
Return ==
  /\ proto # "DistributedActorSystem"
  /\ ~returned
  /\ pc \notin DOMAIN AdHocOrder(proto)
  /\ ret' = anyMissing
  /\ returned' = TRUE
  /\ UNCHANGED <<proto, witnesses, diagnose, diags, anyMissing, pc>>

Next == SystemRequirementMissing \/ SystemRequirementPassed \/ DecoderRequirement \/ Return

Spec == Init /\ [][Next]_vars

-----------------------------------------------------------------------------
(* The ad-hoc requirements of the protocol that the adoptee lacks. *)
MissingRequirements == {m \in Range(AdHocOrder(proto)) : m \notin witnesses}
ErrorsNamed == {diags[k].name : k \in {j \in DOMAIN diags : diags[j].kind = "missing_adhoc_requirement"}}

(* When it diagnoses, the check returns true exactly when an ad-hoc      *)
(* requirement is missing, and names in errors: for an actor system the    *)
(* first missing method (remoteCall before remoteCallVoid), with its note; *)
(* for an invocation decoder every missing method.                         *)
MissingRequirementsDiagnosed ==
  returned /\ diagnose =>
    /\ ret = (MissingRequirements # {})
    /\ ErrorsNamed =
         IF proto = "DistributedActorSystem" /\ MissingRequirements # {}
         THEN {Head(SelectSeq(AdHocOrder(proto), LAMBDA m : m \in MissingRequirements))}
         ELSE MissingRequirements
    /\ \A k \in DOMAIN diags :
         diags[k].kind = "missing_adhoc_requirement" /\ proto = "DistributedActorSystem" =>
           k < Len(diags) /\ diags[k + 1] = Note(diags[k].name)

(* The result of the check says whether the conformance lacks an ad-hoc  *)
(* requirement whatever the diagnose argument: the decoder branch returns *)
(* true with or without diagnostics, and callers asking quietly rely on   *)
(* the result alone.                                                       *)
ReportsMissingQuietly ==
  returned => ret = (MissingRequirements # {})
=============================================================================

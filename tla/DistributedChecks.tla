---------------------------- MODULE DistributedChecks ----------------------------
(***************************************************************************)
(* The entry points of lib/Sema/TypeCheckDistributed.cpp side by side:    *)
(* checkDistributedFunction (DistributedFunction), the ad-hoc requirement *)
(* check (DistributedAdHoc), checkDistributedActor (DistributedActor) and  *)
(* GetDistributedActorArgumentDecodingMethodRequest (DecodingMethod).      *)
(* The type checker invokes each on its own declaration and they share no *)
(* state, so a behaviour runs one of them, chosen at the start, to its     *)
(* end; the others stay in an initial state on a fixed input.              *)
(***************************************************************************)
EXTENDS Naturals, Sequences

CONSTANTS
  Functions, Diagnose,                  \* DistributedFunction and DistributedAdHoc
  AdHocProtocols, Methods,              \* DistributedAdHoc
  Decls, ModuleLoaded,                  \* DistributedActor
  Decoders, Systems, SerializationProtocolSet   \* DecodingMethod

VARIABLES
  check,
  fn, fDiagnose, fI, fDiags, fRet, fPc,
  proto, witnesses, aDiagnose, aDiags, anyMissing, aRet, aPc, returned,
  decl, loaded, members, actI, actDiags, actPc,
  system, dmMembers, k, candidates, dmPc

fVars == <<fn, fDiagnose, fI, fDiags, fRet, fPc>>
aVars == <<proto, witnesses, aDiagnose, aDiags, anyMissing, aRet, aPc, returned>>
actVars == <<decl, loaded, members, actI, actDiags, actPc>>
dmVars == <<system, dmMembers, k, candidates, dmPc>>
vars == <<check, fVars, aVars, actVars, dmVars>>

F == INSTANCE DistributedFunction
       WITH diagnose <- fDiagnose, i <- fI, diags <- fDiags, ret <- fRet, pc <- fPc
A == INSTANCE DistributedAdHoc
       WITH Protocols <- AdHocProtocols, diagnose <- aDiagnose, diags <- aDiags,
            ret <- aRet, pc <- aPc
Act == INSTANCE DistributedActor WITH i <- actI, diags <- actDiags, pc <- actPc
DM == INSTANCE DecodingMethod
        WITH Protocols <- SerializationProtocolSet, members <- dmMembers, pc <- dmPc

Checks == {"function", "adhoc", "actor", "decoding"}

(* An idle check: its initial state on a fixed input. *)
FIdle == fn = (CHOOSE f \in Functions : TRUE) /\ fDiagnose = TRUE /\ F!Init
AIdle == proto = (CHOOSE p \in AdHocProtocols : TRUE) /\ witnesses = {} /\ aDiagnose = TRUE /\ A!Init
ActIdle == decl = (CHOOSE d \in Decls : TRUE) /\ loaded = TRUE /\ Act!Init
DMIdle == system = (CHOOSE s \in Systems : TRUE) /\ dmMembers = <<>> /\ DM!Init

Init ==
  /\ check \in Checks
  /\ IF check = "function" THEN F!Init ELSE FIdle
  /\ IF check = "adhoc" THEN A!Init ELSE AIdle
  /\ IF check = "actor" THEN Act!Init ELSE ActIdle
  /\ IF check = "decoding" THEN DM!Init ELSE DMIdle

Next ==
  \/ check = "function" /\ F!Next /\ UNCHANGED <<check, aVars, actVars, dmVars>>
  \/ check = "adhoc" /\ A!Next /\ UNCHANGED <<check, fVars, actVars, dmVars>>
  \/ check = "actor" /\ Act!Next /\ UNCHANGED <<check, fVars, aVars, dmVars>>
  \/ check = "decoding" /\ DM!Next /\ UNCHANGED <<check, fVars, aVars, actVars>>

Spec == Init /\ [][Next]_vars

-----------------------------------------------------------------------------
(* The properties of the four checks, stated and explained in their        *)
(* modules.                                                                 *)

(* checkDistributedFunction: its state stays well formed and every        *)
(* parameter is checked before the result.                                 *)
TypeOK == F!TypeOK

(* checkDistributedFunction returns true exactly for an ill-formed         *)
(* function and, diagnosing, reports the first problem only.               *)
ReportsFirstProblem == F!ReportsFirstProblem

(* The diagnosing ad-hoc check returns true exactly when a requirement is *)
(* missing and names the missing requirements.                             *)
MissingRequirementsDiagnosed == A!MissingRequirementsDiagnosed

(* checkDistributedActor diagnoses exactly the designated initializers    *)
(* without one actor-system parameter.                                     *)
InitializersDiagnosed == Act!InitializersDiagnosed

(* checkDistributedActor diagnoses exactly the user-written id and        *)
(* actorSystem properties.                                                 *)
SpecialPropertiesDiagnosed == Act!SpecialPropertiesDiagnosed

(* The decoding-method request's candidates are exactly the members that  *)
(* decode an argument.                                                     *)
CandidatesDecode == DM!CandidatesDecode

(* The decoding-method request never reaches the generic parameter list  *)
(* of a non-generic decodeNextArgument overload.                           *)
NonGenericMembersSkipped == DM!NonGenericMembersSkipped
=============================================================================

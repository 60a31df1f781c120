------------------------------ MODULE DistributedFunction ------------------------------
(***************************************************************************)
(* checkDistributedFunction (lib/Sema/TypeCheckDistributed.cpp:223-289).   *)
(*                                                                         *)
(* The parameters of a distributed function are checked in order: a       *)
(* parameter whose type is not both Encodable and Decodable is an error     *)
(* (diagnosed only when diagnose is set) and ends the check; an inout      *)
(* parameter is an error and ends the check; a variadic parameter is       *)
(* diagnosed and the loop goes on.  Then a non-Void result type must be    *)
(* Decodable and Encodable.  The function returns true when it found a     *)
(* problem.                                                                 *)
(*                                                                         *)
(* A type is abstracted to the serialization protocols it conforms to and  *)
(* whether it is a nominal type (which gets a ": Codable" fix-it).          *)
(***************************************************************************)
EXTENDS Naturals, Sequences, SequencesExt

CONSTANTS
  Functions,   \* the functions to check: [params : Seq(Param), result : Type]
  Diagnose     \* the values of the diagnose argument callers pass

VARIABLES fn, diagnose, i, diags, ret, pc
vars == <<fn, diagnose, i, diags, ret, pc>>

SerializationProtocols == {"Encodable", "Decodable"}

(* Mutant: only the first conformance of the || is looked up.  *)
CodableEncodableOnly(t) == "Encodable" \in t.conforms

(* conformsToProtocol(T, Encodable) and conformsToProtocol(T, Decodable)  *)
(* are both valid.                                                          *)
Codable(t) == SerializationProtocols \subseteq t.conforms

(* The empty tuple type (), for which isVoid holds. *)
VoidType == [conforms |-> {}, nominal |-> FALSE, void |-> TRUE]

(* func->diagnose(...), with addCodableFixIt when the type is nominal. *)
Diag(kind, fixit) == [kind |-> kind, fixit |-> fixit]
Report(kind, t) == IF diagnose THEN Append(diags, Diag(kind, t.nominal)) ELSE diags

Init == /\ fn \in Functions
        /\ diagnose \in Diagnose
        /\ i = 1
        /\ diags = <<>>
        /\ ret = FALSE   \* meaningful once pc = "done"
        /\ pc = "params"

Param == fn.params[i]
InParams == pc = "params" /\ i <= Len(fn.params)

(* :235-246: not Codable; diagnosed only if diagnose; return true. *)
ParamNotCodable ==
  /\ InParams
  /\ ~Codable(Param)
  /\ diags' = Report("param_not_codable", Param)
  /\ ret' = TRUE
  /\ pc' = "done"
  /\ UNCHANGED <<fn, diagnose, i>>

(* :249-257: inout; diagnosed whatever diagnose says; return true. *)
ParamInOut ==
  /\ InParams
  /\ Codable(Param)
  /\ Param.inout
  /\ diags' = Append(diags, Diag("inout", FALSE))
  /\ ret' = TRUE
  /\ pc' = "done"
  /\ UNCHANGED <<fn, diagnose, i>>

(* :260-266: a variadic parameter is diagnosed and the loop continues. *)
ParamChecked ==
  /\ InParams
  /\ Codable(Param)
  /\ ~Param.inout
  /\ diags' = IF Param.variadic THEN Append(diags, Diag("variadic", FALSE)) ELSE diags
  /\ i' = i + 1
  /\ UNCHANGED <<fn, diagnose, ret, pc>>

(* Mutant: the loop ends one parameter early. *)
ParamsDoneEarly ==
  /\ pc = "params"
  /\ i >= Len(fn.params)
  /\ pc' = "result"
  /\ UNCHANGED <<fn, diagnose, i, diags, ret>>

ParamsDone ==
  /\ pc = "params"
  /\ i > Len(fn.params)
  /\ pc' = "result"
  /\ UNCHANGED <<fn, diagnose, i, diags, ret>>

(* :270-284: a non-Void result that is not Codable. *)
ResultNotCodable ==
  /\ pc = "result"
  /\ ~fn.result.void
  /\ ~Codable(fn.result)
  /\ diags' = Report("result_not_codable", fn.result)
  /\ ret' = TRUE
  /\ pc' = "done"
  /\ UNCHANGED <<fn, diagnose, i>>

(* :288: no problem found. *)
ResultChecked ==
  /\ pc = "result"
  /\ fn.result.void \/ Codable(fn.result)
  /\ ret' = FALSE
  /\ pc' = "done"
  /\ UNCHANGED <<fn, diagnose, i, diags>>

Next ==
  \/ ParamNotCodable \/ ParamInOut \/ ParamChecked \/ ParamsDone
  \/ ResultNotCodable \/ ResultChecked

Spec == Init /\ [][Next]_vars

-----------------------------------------------------------------------------
ErrorKinds == {"param_not_codable", "inout", "result_not_codable"}

TypeOK ==
  /\ fn \in Functions
  /\ diagnose \in BOOLEAN
  /\ i \in 1..(Len(fn.params) + 1)
  /\ \A k \in DOMAIN diags : diags[k].kind \in ErrorKinds \cup {"variadic"}
  /\ ret \in BOOLEAN
  /\ pc \in {"params", "result", "done"}
  /\ pc = "result" => i = Len(fn.params) + 1   \* every parameter was checked

(* What makes a distributed function ill-formed ("All parameters and the *)
(* result type must be Codable", and no inout parameter), and the error   *)
(* that names the first offending parameter, or else the result.          *)
IsCodable(t) == \A proto \in {"Encodable", "Decodable"} : proto \in t.conforms  \* Codable
Offending(p) == ~IsCodable(p) \/ p.inout
FirstOffending == SelectSeq([k \in DOMAIN fn.params |-> k], LAMBDA k : Offending(fn.params[k]))
ResultOffends == ~fn.result.void /\ ~IsCodable(fn.result)
Invalid == FirstOffending # <<>> \/ ResultOffends
ExpectedError ==
  IF FirstOffending # <<>>
  THEN LET p == fn.params[Head(FirstOffending)]
       IN IF ~IsCodable(p) THEN "param_not_codable" ELSE "inout"
  ELSE "result_not_codable"

(* checkDistributedFunction returns true exactly when the function is    *)
(* ill-formed, whatever the diagnose flag; and when it diagnoses, it       *)
(* reports exactly one error, the one for the first offending parameter   *)
(* (or the result), after the variadic diagnostics of the parameters     *)
(* before it.                                                                     *)
ReportsFirstProblem ==
  pc = "done" =>
    /\ ret = Invalid
    /\ diagnose =>
         LET errors == SelectSeq(diags, LAMBDA d : d.kind \in ErrorKinds)
         IN IF Invalid THEN errors = <<Last(diags)>> /\ Last(diags).kind = ExpectedError
            ELSE errors = <<>>

=============================================================================

-------------------------- MODULE MC_DistributedAdHoc --------------------------
(***************************************************************************)
(* Instances of DistributedAdHoc for TLC: a conformance of an adoptee that *)
(* declares any subset of the five ad-hoc methods, to each of the three    *)
(* distributed protocols and to another protocol.                          *)
(***************************************************************************)
EXTENDS DistributedAdHoc

MCProtocols == {"DistributedActorSystem", "DistributedTargetInvocationDecoder",
                "DistributedTargetInvocationResultHandler", "Other"}
MCMethods == {"remoteCall", "remoteCallVoid", "recordArgument", "recordErrorType",
              "recordReturnType"}
=============================================================================

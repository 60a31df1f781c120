-------------------------- MODULE MC_DistributedChecks --------------------------
(***************************************************************************)
(* Instances of DistributedChecks for TLC.                                *)
(*  - functions of at most two parameters; a type conforms to any subset   *)
(*    of Encodable and Decodable and is nominal or not (a closure type); a *)
(*    parameter may be inout and variadic; the result is Void or a type;   *)
(*  - conformances of an adoptee declaring any subset of the five ad-hoc   *)
(*    methods to the three distributed protocols and to another one;       *)
(*  - classes of up to two members, distributed or not: constructors with  *)
(*    up to two parameters of the actor system type or another, properties *)
(*    named id, actorSystem or otherwise, written or synthesized;          *)
(*  - decoders with up to two decodeNextArgument members: the right shape  *)
(*    with any conformances, or one shape test failing (a non-generic one  *)
(*    among them), under 'any Codable', a single protocol, a composition  *)
(*    with AnyObject and one with no protocol; and actor systems whose     *)
(*    lookups fail in each of the ways the request tests.                  *)
(***************************************************************************)
EXTENDS DistributedChecks, TLC

MCSerialization == {"Encodable", "Decodable"}
MCVoid == [conforms |-> {}, nominal |-> FALSE, void |-> TRUE]
MCTypes == [conforms : SUBSET MCSerialization, nominal : BOOLEAN, void : {FALSE}]
MCParams == [conforms : SUBSET MCSerialization, nominal : BOOLEAN,
             inout : BOOLEAN, variadic : BOOLEAN]
MCFunctions ==
  [params : UNION {[1..n -> MCParams] : n \in 0..2}, result : MCTypes \cup {MCVoid}]

MCAdHocProtocols == {"DistributedActorSystem", "DistributedTargetInvocationDecoder",
                     "DistributedTargetInvocationResultHandler", "Other"}
MCMethods == {"remoteCall", "remoteCallVoid", "recordArgument", "recordErrorType",
              "recordReturnType"}

MCCtors == {[kind |-> "ctor", designated |-> d, params |-> ps] :
              d \in BOOLEAN, ps \in UNION {[1..n -> {"System", "Other"}] : n \in 0..2}}
MCVars == [kind : {"var"}, name : {"id", "actorSystem", "other"}, synthesized : BOOLEAN]
MCDecls == [kind : {"class"}, explicitDistributed : BOOLEAN,
            members : UNION {[1..n -> MCCtors \cup MCVars] : n \in 0..2}]

MCSerializationProtocols == {"Encodable", "Decodable", "Sendable"}
MCSerializers ==
  { [composition |-> TRUE,  members |-> {"Encodable", "Decodable"}],
    [composition |-> FALSE, members |-> {"Encodable"}],
    [composition |-> TRUE,  members |-> {"Encodable", "AnyObject"}],
    [composition |-> TRUE,  members |-> {"AnyObject"}] }
Assocs == {"InvocationDecoder", "SerializationRequirement"}
NominalDecoder == [error |-> FALSE, nominal |-> TRUE]
Resolved(ser) ==
  [distributed |-> TRUE, actorProtocol |-> TRUE, actorSystemDecl |-> TRUE,
   systemProtocol |-> TRUE, assocDecls |-> Assocs,
   witness |-> [InvocationDecoder |-> NominalDecoder,
                SerializationRequirement |-> [error |-> FALSE, existential |-> TRUE] @@ ser]]
Codable == Resolved([composition |-> TRUE, members |-> MCSerialization])
(* The systems a lookup resolves, and one broken in each way the lookups *)
(* test: a declaration missing, a decoder that is not nominal, a          *)
(* requirement that is not existential.                                   *)
MCResolvedSystems == {Resolved(ser) : ser \in MCSerializers}
MCBrokenSystems ==
  { [Codable EXCEPT !.distributed = FALSE],
    [Codable EXCEPT !.actorProtocol = FALSE],
    [Codable EXCEPT !.actorSystemDecl = FALSE],
    [Codable EXCEPT !.systemProtocol = FALSE],
    [Codable EXCEPT !.assocDecls = {"SerializationRequirement"}],
    [Codable EXCEPT !.assocDecls = {"InvocationDecoder"}],
    [Codable EXCEPT !.witness.InvocationDecoder.nominal = FALSE],
    [Codable EXCEPT !.witness.SerializationRequirement.existential = FALSE] }
MCSystems == MCResolvedSystems \cup MCBrokenSystems
Shape == [isFunc |-> TRUE, async |-> FALSE, throws |-> TRUE, params |-> 0,
          genericParams |-> 1, returnsParam |-> TRUE]
CodableShape == [conformances |-> MCSerialization] @@ Shape
MCWellShaped == {[conformances |-> c] @@ Shape : c \in SUBSET MCSerializationProtocols}
MCMisshaped ==
  { [CodableShape EXCEPT !.isFunc = FALSE],
    [CodableShape EXCEPT !.async = TRUE],
    [CodableShape EXCEPT !.throws = FALSE],
    [CodableShape EXCEPT !.params = 1],
    [CodableShape EXCEPT !.genericParams = 2],
    [CodableShape EXCEPT !.returnsParam = FALSE],
    [CodableShape EXCEPT !.genericParams = 0, !.returnsParam = FALSE] }
MCDecoders == UNION {[1..n -> MCWellShaped \cup MCMisshaped] : n \in 0..2}
=============================================================================

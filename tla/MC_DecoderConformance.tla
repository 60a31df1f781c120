------------------------- MODULE MC_DecoderConformance -------------------------
EXTENDS DecoderConformance

MCMethods == {"recordArgument", "recordErrorType", "recordReturnType"}
MCProtocols == {"Encodable", "Decodable"}
(* The actor system of a resolved distributed actor: a nominal decoder and *)
(* 'any Codable'.                                                          *)
MCSystems ==
  {[distributed |-> TRUE, actorProtocol |-> TRUE, actorSystemDecl |-> TRUE,
    systemProtocol |-> TRUE, assocDecls |-> {"InvocationDecoder", "SerializationRequirement"},
    witness |-> [InvocationDecoder |-> [error |-> FALSE, nominal |-> TRUE],
                 SerializationRequirement |->
                   [error |-> FALSE, existential |-> TRUE, composition |-> TRUE,
                    members |-> {"Encodable", "Decodable"}]]]}

(* A decoder without decodeNextArgument, with a Codable one, and with two. *)
CodableDecode == [isFunc |-> TRUE, async |-> FALSE, throws |-> TRUE, params |-> 0,
                  genericParams |-> 1, returnsParam |-> TRUE,
                  conformances |-> {"Encodable", "Decodable"}]
MCDecoders == {<<>>, <<CodableDecode>>, <<CodableDecode, CodableDecode>>}
=============================================================================

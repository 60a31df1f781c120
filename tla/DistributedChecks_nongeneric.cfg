\* The decoding-method request on a decoder with a non-generic
\* decodeNextArgument overload.
CONSTANTS
  Functions <- MCFunctions
  Diagnose = {TRUE, FALSE}
  AdHocProtocols <- MCAdHocProtocols
  Methods <- MCMethods
  Decls <- MCDecls
  ModuleLoaded = {TRUE, FALSE}
  Decoders <- MCDecoders
  Systems <- MCSystems
  SerializationProtocolSet <- MCSerializationProtocols
SPECIFICATION Spec
INVARIANT NonGenericMembersSkipped
CHECK_DEADLOCK FALSE

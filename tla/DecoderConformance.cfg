CONSTANTS
  Methods <- MCMethods
  Diagnose = {TRUE, FALSE}
  Decoders <- MCDecoders
  Systems <- MCSystems
  Protocols <- MCProtocols
SPECIFICATION Spec
INVARIANT AcceptedDecoderDecodes
CHECK_DEADLOCK FALSE

------------------------------ MODULE DecodingMethod ------------------------------
(***************************************************************************)
(* ASTContext::getDistributedActorArgumentDecodingMethod and              *)
(* GetDistributedActorArgumentDecodingMethodRequest::evaluate, with the    *)
(* associated-type lookups they make (lib/Sema/TypeCheckDistributed.cpp:  *)
(* 381-413, 435-546).  For a distributed actor, the request looks up the   *)
(* InvocationDecoder and SerializationRequirement of its actor system and, *)
(* among the members named    *)
(* decodeNextArgument of the actor's invocation decoder, find the one of   *)
(* shape "func decodeNextArgument<Arg: SerializationRequirement>() throws  *)
(* -> Arg", and assert that there is exactly one.                          *)
(*                                                                         *)
(* The serialization requirement is a protocol or a composition; only the  *)
(* protocols of a composition count (AnyObject does not).  A member is a   *)
(* record of what the loop inspects: whether it is a function, async,      *)
(* throws, its number of parameters and of generic parameters, whether it  *)
(* returns its generic parameter, and the protocols its generic signature  *)
(* makes that parameter conform to.                                        *)
(***************************************************************************)
EXTENDS Naturals, Sequences, SequencesExt, FiniteSets

CONSTANTS
  Decoders,        \* the decodeNextArgument members of a decoder, in lookup order
  Systems,         \* what the lookups find: see below
  Protocols        \* the protocols among the members of a serializer type

(* A system records whether the actor is distributed, which of the known  *)
(* protocols and associated type declarations the context has, and the    *)
(* type witnesses of the actor's system: the invocation decoder (nominal   *)
(* or not) and the serialization requirement (existential or not; a       *)
(* protocol or a composition).  A type is a record with an error flag.    *)
VARIABLES system, members, k, candidates, pc
vars == <<system, members, k, candidates, pc>>

ErrorType == [error |-> TRUE]

(* getAssociatedTypeOfDistributedSystem (:381-413): each missing protocol *)
(* or associated type declaration gives the error type; otherwise the     *)
(* member's witness in the actor's conformance.                            *)
getAssociatedTypeOfDistributedSystem(member) ==
  IF \/ ~system.actorProtocol \/ ~system.actorSystemDecl \/ ~system.systemProtocol
     \/ member \notin system.assocDecls
  THEN ErrorType
  ELSE system.witness[member]

(* GetDistributedActorInvocationDecoderRequest (:450-457): null for an    *)
(* error type or a type that is not nominal.                                *)
InvocationDecoderIsNull ==
  LET t == getAssociatedTypeOfDistributedSystem("InvocationDecoder")
  IN IF t.error THEN TRUE ELSE ~t.nominal

(* getDistributedSerializationRequirementType (:435-439). *)
Serializer == getAssociatedTypeOfDistributedSystem("SerializationRequirement")
SerializerIsExistential == ~Serializer.error /\ Serializer.existential

(* :487-497: the set serializationReqs. *)
serializationReqs(s) ==
  IF s.composition THEN s.members \cap Protocols ELSE s.members

(* :501-508: a synchronous throwing function without parameters gets as  *)
(* far as its generic parameter list, which is null (AST: not a generic   *)
(* context) when it has no generic parameters.                             *)
ReachesGenericParams(fd) == fd.isFunc /\ ~fd.async /\ fd.throws /\ fd.params = 0
NullGenericParams(fd) == ReachesGenericParams(fd) /\ fd.genericParams = 0

(* :501-521: the continues on the shape of the member. *)
WellShaped(fd) ==
  /\ ReachesGenericParams(fd)
  /\ fd.genericParams = 1
  /\ fd.returnsParam

(* Mutant: a requirement counts when any serialization requirement is    *)
(* covered.                                                               *)
CoversSome(fd, reqs) == reqs = {} \/ fd.conformances \cap reqs # {}

(* :525-538: the number of serialization requirements covered equals     *)
(* their number (the generic requirements are minimized: no duplicates).  *)
CoversAll(fd, reqs) == Cardinality(fd.conformances \cap reqs) = Cardinality(reqs)

Init == /\ system \in Systems
        /\ members \in Decoders
        /\ k = 1
        /\ candidates = <<>>
        /\ pc = "lookup"

(* :459-461: no request for an actor that is not distributed. *)
NotDistributed ==
  /\ pc = "lookup" /\ ~system.distributed
  /\ pc' = "none"
  /\ UNCHANGED <<system, members, k, candidates>>

(* :473-474: assert(decoder) on a null invocation decoder. *)
DecoderMissing ==
  /\ pc = "lookup" /\ system.distributed
  /\ InvocationDecoderIsNull
  /\ pc' = "assertDecoder"
  /\ UNCHANGED <<system, members, k, candidates>>

(* :482-485: castTo<ExistentialType> on a requirement that is not one. *)
SerializerNotExistential ==
  /\ pc = "lookup" /\ system.distributed
  /\ ~InvocationDecoderIsNull
  /\ ~SerializerIsExistential
  /\ pc' = "castSerializer"
  /\ UNCHANGED <<system, members, k, candidates>>

(* :476-485: the decoder's decodeNextArgument members are looked up and  *)
(* the loop starts.                                                         *)
LookupDone ==
  /\ pc = "lookup" /\ system.distributed
  /\ ~InvocationDecoderIsNull
  /\ SerializerIsExistential
  /\ pc' = "loop"
  /\ UNCHANGED <<system, members, k, candidates>>

Member == members[k]

(* One iteration of the loop over the looked-up members. *)
Skip ==
  /\ pc = "loop" /\ k <= Len(members)
  /\ ~NullGenericParams(Member)
  /\ ~WellShaped(Member) \/ ~CoversAll(Member, serializationReqs(Serializer))
  /\ k' = k + 1
  /\ UNCHANGED <<system, members, candidates, pc>>

Candidate ==
  /\ pc = "loop" /\ k <= Len(members)
  /\ WellShaped(Member) /\ CoversAll(Member, serializationReqs(Serializer))
  /\ candidates' = Append(candidates, k)
  /\ k' = k + 1
  /\ UNCHANGED <<system, members, pc>>

(* :512: genericParamList->size() on the null list of a non-generic member. *)
GenericParamsNull ==
  /\ pc = "loop" /\ k <= Len(members)
  /\ NullGenericParams(Member)
  /\ pc' = "nullGenericParams"
  /\ UNCHANGED <<system, members, k, candidates>>

(* :544-545: assert(candidates.size() == 1); return candidates.front(). *)
Return ==
  /\ pc = "loop" /\ k > Len(members)
  /\ pc' = "done"
  /\ UNCHANGED <<system, members, k, candidates>>

Next ==
  \/ NotDistributed \/ DecoderMissing \/ SerializerNotExistential \/ LookupDone
  \/ Skip \/ Candidate \/ GenericParamsNull \/ Return

Spec == Init /\ [][Next]_vars

-----------------------------------------------------------------------------
(* The decodeNextArgument a decoder must provide, stated on its own: a    *)
(* synchronous throwing function without parameters and with a single    *)
(* generic parameter Arg that it returns, where Arg conforms to every     *)
(* protocol of the serialization requirement.                             *)
Decodes(fd) ==
  /\ fd.isFunc /\ fd.throws /\ ~fd.async
  /\ fd.params = 0 /\ fd.genericParams = 1 /\ fd.returnsParam
  /\ \A p \in Serializer.members \cap Protocols : p \in fd.conformances

(* The request's candidates are exactly the members that decode an       *)
(* argument, in lookup order, whatever other requirements they carry.     *)
CandidatesDecode ==
  pc = "done" => candidates = SelectSeq([j \in DOMAIN members |-> j], LAMBDA j : Decodes(members[j]))

(* The request skips every member that is not a decodeNextArgument of    *)
(* the right shape (:500-521), a non-generic overload included, and never *)
(* reaches the generic parameter list of a non-generic function.          *)
NonGenericMembersSkipped ==
  pc # "nullGenericParams"
=============================================================================

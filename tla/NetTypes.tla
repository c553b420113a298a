------------------------------ MODULE NetTypes ------------------------------
(***************************************************************************)
(* The layouts of the types that cross the wire, as codecs of Codecs: the  *)
(* scalars, ids, references and times, glam's vectors, the blanket impls   *)
(* for std's containers, and the payloads that the game states and the     *)
(* registration handshake are made of.  A float stands for its bits and a  *)
(* signed number for its two's complement.                                 *)
(***************************************************************************)
EXTENDS Codecs

WireVecCap == 2^25  \* WIRE_VEC_CAP

Tuple(cs) == <<"tuple", cs>>  \* impls that marshal their members in order

-----------------------------------------------------------------------------
(* Scalars.                                                                *)

U8 == <<"uint", 1>>
U16 == <<"uint", 2>>
U32 == <<"uint", 4>>
F32 == U32
U64 == <<"uint", 8>>
F64 == U64
Bool == <<"bool">>
VlqU16 == <<"vlq", 2>>
VlqU32 == <<"vlq", 4>>
VlqU64 == <<"vlq", 8>>
Uuid == <<"array", U8, 16>>
AzUuid == <<"array", U8, 16>>
HalfF32 == U16
RawSequenceNumber == <<"native", 8>>
Sentinel == <<"sentinel">>
Duration == <<"duration">>
String == <<"string", "vlq", WireVecCap>>
Boxed(c) == c
Option(c) == <<"option", c>>
BitSet(words) == <<"array", U64, words>>

-----------------------------------------------------------------------------
(* Containers, by their blanket impls.                                     *)

Vec(c) == <<"list", c, "vlq", WireVecCap>>
ArrayVec(c, cap) == <<"list", c, "vlq", cap>>
ArrayString(cap) == <<"string", "vlq", cap>>
Array(c, n) == <<"array", c, n>>
IndexSet(c) == <<"set", c, "vlq", WireVecCap>>
IndexMap(k, c) == <<"map", k, c, "vlq", WireVecCap>>
HashSet(c) == <<"set", c, "vlq", WireVecCap>>
BTreeSet(c) == <<"set", c, "vlq", WireVecCap>>
HashMap(k, c) == <<"map", k, c, "vlq", WireVecCap>>
BTreeMap(k, c) == <<"map", k, c, "vlq", WireVecCap>>

-----------------------------------------------------------------------------
(* Ids, references and times.                                              *)

EntityId == U64
ComponentId == U64
GdeId == U64
ActorRequestId == Tuple(<<U64, U64>>)
RemoteServerContextRef == Tuple(<<AzUuid>>)
RemoteServerGdeRef == Tuple(<<RemoteServerContextRef, GdeId>>)
RemoteTypelessServerFacetRef == Tuple(<<RemoteServerGdeRef, U64>>)
RemoteServerFacetRef == Tuple(<<RemoteTypelessServerFacetRef>>)
Crc32Value == U32
AssetId == Tuple(<<AzUuid, U32>>)
TimePoint == U64
WallClockTimePoint == U64
ClientActorHash == U64
InterestId == U16
FragmentKey == U32
ActorId == Uuid
HubId == U32
Timestamp == U64
ActorRef == Tuple(<<U32, Uuid, Uuid>>)
MovementInteractionId == Tuple(<<HubId, HubId, U64, Timestamp>>)
MigratedPersistenceMetadata == Tuple(<<U64, Bool, Timestamp, Timestamp, Array(U32, 2)>>)
CrashTarget == <<"repr", 4, {{}, {0}, {1}}>>

-----------------------------------------------------------------------------
(* Vectors, raw and in half precision.                                     *)

Vec2 == Tuple(<<F32, F32>>)
Aabb2d == Tuple(<<Vec2, Vec2>>)
Vec3 == Tuple(<<F32, F32, F32>>)
Vec4 == Tuple(<<F32, F32, F32, F32>>)
Quat == Tuple(<<F32, F32, F32, F32>>)
Mat3 == Tuple(<<Vec3, Vec3, Vec3>>)
Affine3A == Tuple(<<Vec3, Vec3, Vec3, Vec3>>)
Aabb3d == Tuple(<<Vec3, Vec3>>)
Vec2Comp == Tuple(<<HalfF32, HalfF32>>)
Vec3Comp == Tuple(<<HalfF32, HalfF32, HalfF32>>)
QuatComp == Tuple(<<HalfF32, HalfF32, HalfF32, HalfF32>>)
QuantizedAngles == Tuple(<<U32, U32>>)
Float16 == U16  \* the bucket
PackedPosition == Tuple(<<F32, F32, Float16>>)

-----------------------------------------------------------------------------
(* Payloads of the game states.                                            *)

AfflictionData == Tuple(<<F32, TimePoint, F32, TimePoint, F32, U8, Bool>>)
DyeData == Tuple(<<U8, U8, U8, U8>>)
CharacterAttributeType == <<"enum", 4, 4>>
GeneralCooldownType == <<"enum", 4, 2>>
GatheringStatus == <<"enum", 4, 3>>
PaperdollSlotAlias == <<"enum", 4, 60>>
ReplicationCategory == <<"enum", 1, 6>>
GameModeParticipantStatusByte == <<"enum", 1, 4>>

PaperdollSlotFlags == Array(U8, 7)
LoadedAmmoData == Tuple(<<U8, U64>>)
LinkedLoadoutItem == Tuple(<<U32, U16>>)
LoadoutAttribute == Tuple(<<U32, U32>>)
PaperdollLoadout == Tuple(<<String, Vec(LinkedLoadoutItem), Bool, Vec(LoadoutAttribute)>>)
ReplicatedItemDescriptor ==
    Tuple(<<U64, VlqU32, VlqU32>> \o Repeat(VlqU16, 6) \o Repeat(U8, 4)
          \o <<Uuid, U8, U32>> \o Repeat(U8, 4))
SimpleItemDescriptor ==
    Tuple(<<U32, U16, U32, Bool, U32, U32, Bool, Bool, ArrayVec(U32, 5), ArrayVec(U32, 5),
            Bool, ArrayVec(U32, 3)>>)
ContainerItemClasses == Tuple(<<Vec(U64)>>)

CorridorPath == Tuple(<<Vec3, F32, ArrayVec(Vec3Comp, 49), ArrayVec(HalfF32, 50)>>)
ClientPathingCorridorPaths == Tuple(<<ArrayVec(Option(CorridorPath), 6), F32>>)

StatusEffectInstanceData == Tuple(<<U64, HalfF32, U8, U8>>)
RemoteStatusEffectData == U8  \* high_bit_set is bit 7
DynamicScalingStatusEffectData == Tuple(<<U32, U32, F32, U64, U64>>)
ActiveTrayIconData == Tuple(<<U32, U64, U8, F32>>)
StatusEffects == Tuple(<<StatusEffectInstanceData, RemoteStatusEffectData,
                         DynamicScalingStatusEffectData, ActiveTrayIconData>>)

VitalsStateData == Tuple(<<U8, U64, U64, U8>>)

\* VitalsComponentReplicatedState, a derived state of two groups; its containers
\* (ReplicatedContainer.tla) are not dirty here.
VitalsContents ==
    <<"derived", << <<F32, F32, VitalsStateData, U8, F32, HalfF32, F32, HalfF32, U32, U32, U32, U8, U8, U16>>,
                    <<F32, <<"skip">>, <<"skip">>, F32, HalfF32>> >> >>

WarDataAssetReference == Tuple(<<U32, Uuid, Uuid>>)
WarDataDetailBlock == Tuple(<<Uuid, U8, U32, U8, Bool, U32, U64, WarDataAssetReference>>)

-----------------------------------------------------------------------------
(* Registration.                                                           *)

RegistrationEntityId == <<"variant", [d \in 0 .. 1 |-> IF d = 0 THEN <<String>> ELSE <<Uuid>>]>>
LoginToken ==
    Tuple(Repeat(String, 5) \o <<U32>> \o Repeat(String, 5) \o Repeat(U32, 3)
          \o <<String, U32, Bool, String, Option(Bool), String, String, String>>)
AuthToken == Tuple(<<U32, Bool, U32, String, String, String, U32>> \o Repeat(String, 5))
ImpersonatedValues == Tuple(<<RegistrationEntityId, RegistrationEntityId>>)
RegistrationRequestV3Msg ==
    Tuple(<<Crc32Value, IndexMap(U32, String), String, LoginToken, AuthToken,
            ImpersonatedValues, Bool>>)
=============================================================================

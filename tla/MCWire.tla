------------------------------- MODULE MCWire -------------------------------
(***************************************************************************)
(* An instance of WireStream: a fragment type for every codec, with the    *)
(* values at which its encoding changes, and for the layouts of NetTypes.  *)
(***************************************************************************)
EXTENDS WireStream, NetTypes

Letters == <<{0, 6}, {1, 6}>>
Exactly(what) == [exact |-> what, bucket |-> {}]
Bucket(b) == [exact |-> "no", bucket |-> b]
Component(size, negative) == [size |-> size, negative |-> negative, bucket |-> {size}]
Flags(n, on) == [i \in 1 .. n |-> i \in on]
Entry(k, v) == [key |-> Bits(k), val |-> v]
Mute(player, seq, reason) == [player |-> player, seq |-> seq, reason |-> reason]
Point(n) == Repeat({n, 31}, n)
Classes == [u \in {UuidOf(1), UuidOf(2)} |->
              IF u = UuidOf(1) THEN [index |-> {3}, codec |-> U16] ELSE [index |-> {}, codec |-> String]]
InClass(index, uuid, body) == [index |-> index, uuid |-> uuid, body |-> body]
Dirty(n, on) == [i \in 1 .. n |-> IF i \in on THEN {i % 8} ELSE None]

\* Each codec with its values.
Table == <<
    [c |-> U16, vals |-> << {}, {0, 8, 15} >>],
    [c |-> <<"uint", 8>>, vals |-> << {0, 31, 32, 63} >>],
    [c |-> <<"bool">>, vals |-> << FALSE, TRUE >>],
    [c |-> <<"vlq", 2>>, vals |-> << 0 .. 6, {7}, {14, 15} >>],
    [c |-> <<"vlq", 4>>, vals |-> << 0 .. 13, {14}, {21, 3}, {27, 0}, {28}, 0 .. 31 >>],
    [c |-> <<"vlq", 8>>, vals |-> << {}, {26}, {27}, {28}, {34, 2}, {41}, {42}, {48}, {55, 1}, {56}, 0 .. 63 >>],
    [c |-> <<"sequence">>, vals |-> << None, {}, {0, 60} >>],
    [c |-> <<"enum", 1, 3>>, vals |-> << 0, 3 >>],
    [c |-> <<"sentinel">>, vals |-> << None, {0, 31} >>],
    [c |-> <<"duration">>, vals |-> << {30}, {32} >>],
    [c |-> <<"string", "vlq", 3>>, vals |-> << <<>>, Letters >>],
    [c |-> <<"string", "u16", 2>>, vals |-> << Letters >>],
    [c |-> <<"list", U16, "vlq", 2>>, vals |-> << <<>>, <<{9}, {1}>> >>],
    [c |-> <<"list", <<"list", U8, "vlq", 2>>, "u16", 2>>, vals |-> << << <<>>, <<{9 - 2}>> >> >>],
    [c |-> <<"set", U8, "vlq", 2>>, vals |-> << {{}, {1, 5}} >>],
    [c |-> <<"map", U8, <<"vlq", 4>>, "vlq", 2>>, vals |-> << [k \in {{}, {1}} |-> {8}] >>],
    [c |-> <<"map", U8, <<"option", U8>>, "u16", 2>>, vals |-> << [k \in {{2}} |-> None] >>],
    [c |-> <<"array", U8, 2>>, vals |-> << <<{1}, {}>> >>],
    [c |-> <<"array16", U8, 2>>, vals |-> << <<{1}, {}>> >>],
    [c |-> <<"live", U8, 9>>, vals |-> << [i \in 1 .. 9 |-> Entry(i, IF i % 3 = 0 THEN None ELSE {i % 8})] >>],
    [c |-> <<"live", U8, 8>>, vals |-> << [i \in 1 .. 8 |-> Entry(i, {0})] >>],
    [c |-> <<"chain", 7>>, vals |-> << Flags(7, {1, 7}) >>],
    [c |-> <<"chain", 8>>, vals |-> << Flags(8, {8}), Flags(8, {}) >>],
    [c |-> <<"chain", 0>>, vals |-> << <<>> >>],
    [c |-> <<"flat", 8>>, vals |-> << Flags(8, {8}) >>],
    [c |-> <<"flat", 9>>, vals |-> << Flags(9, {1, 9}) >>],
    [c |-> <<"option", U16>>, vals |-> << None, {3} >>],
    [c |-> <<"choice", U8, U16>>, vals |-> << [is |-> FALSE, val |-> {1}], [is |-> TRUE, val |-> {9}] >>],
    [c |-> <<"tuple", <<U8, <<"vlq", 4>>, <<"bool">> >> >>, vals |-> << <<{1}, {20}, TRUE>> >>],
    [c |-> <<"omitted", <<U8, U16, U8>> >>, vals |-> << <<{}, {9}, {}>>, <<{1}, {2}, {3}>> >>],
    [c |-> <<"masked", <<U8, U16>>, <<None, 3>> >>,
     vals |-> << [mask |-> {3, 5}, vals |-> <<{1}, None>>], [mask |-> {}, vals |-> <<{1}, {9}>>] >>],
    [c |-> <<"entity">>, vals |-> << [format |-> None, name |-> Letters], [format |-> {1}, name |-> UuidOf(1)] >>],
    [c |-> <<"gde">>, vals |-> << [actor |-> UuidOf(2), target |-> {5}] >>],
    [c |-> <<"euler">>, vals |-> << [parts |-> <<Exactly("zero"), Exactly("one"), Bucket({7})>>, negative |-> FALSE] >>],
    [c |-> <<"quat">>, vals |-> << [parts |-> <<Exactly("one"), Bucket({15}), Exactly("zero")>>, negative |-> TRUE] >>],
    [c |-> <<"vec3">>, vals |-> << [parts |-> <<Bucket({15}), Exactly("one")>>, negative |-> TRUE],
                                   [parts |-> <<Exactly("zero"), Bucket({})>>, negative |-> FALSE] >>],
    [c |-> <<"smallest">>, vals |-> << <<Component(1, FALSE), Component(0, FALSE), Component(3, TRUE), Component(3, FALSE)>>,
                                       <<Component(2, FALSE), Component(2, TRUE), Component(2, TRUE), Component(2, TRUE)>> >>],
    [c |-> <<"scale">>, vals |-> << Repeat(HalfOne, 3), Repeat({3}, 3), <<{3}, {4}, {3}>> >>],
    [c |-> <<"transform">>, vals |-> << [mask |-> {}, vals |-> <<None, None, Repeat({31}, 3)>>],
                                        [mask |-> {0, 1}, vals |-> <<Repeat({1}, 3), Repeat({2}, 4), None>>] >>],
    [c |-> <<"packed">>, vals |-> << [bytes |-> 15, bits |-> 7], [bytes |-> 16, bits |-> 0] >>],
    [c |-> <<"quantized", 0, 100, 1>>, vals |-> << 0, 50, 100 >>],
    [c |-> <<"quantized", 0 - 500, 500, 1>>, vals |-> << 0 - 500, 77 >>],
    [c |-> ReplicationControl, vals |-> << <<None, {1}, {8}, <<{1}, {15}>> >> >>],
    [c |-> ReplicationPerformanceData, vals |-> << <<{15}>> \o Repeat({31}, 11) >>],
    [c |-> Tuple(<<RawSequenceNumber, <<"skip">>, F64, Boxed(HalfF32), Option(AzUuid), BitSet(2)>>),
     vals |-> << <<{0, 63}, {1}, {62}, {15}, None, <<{}, {63}>> >> >>],
    [c |-> <<"variant", [d \in {0, 2} |-> IF d = 0 THEN <<>> ELSE <<U8, <<"skip">>, U16>>]>>,
     vals |-> << [is |-> 0, fields |-> <<>>] >>],
    [c |-> <<"class", Classes>>, vals |-> << InClass({3}, UuidOf(1), <<{1}, {2}>>), InClass({}, UuidOf(2), <<{}>>),
                                             InClass({}, UuidOf(1), <<{}, {7}>>) >>],
    [c |-> <<"parameters", Classes>>, vals |-> << <<InClass({3}, UuidOf(1), <<{1}, {2}>>), InClass({}, UuidOf(2), <<{0}, {6}>>)>> >>],
    [c |-> <<"mutes">>,
     vals |-> << [entries |-> [i \in 1 .. 9 |-> Mute({i}, {i \div 4}, IF i \in {2, 9} THEN Letters ELSE None)],
                  base |-> None, strings |-> <<>>],
                 [entries |-> <<Mute({}, None, None), Mute({1}, {5}, None), Mute({1}, {}, None), Mute({1}, {5}, None)>>,
                  base |-> None, strings |-> <<>>],
                 [entries |-> <<>>, base |-> {3}, strings |-> <<Letters, <<>> >>] >>],
    [c |-> <<"derived", <<Repeat(U8, 15), <<>>, Repeat(U8, 7)>> \o Repeat(Repeat(U8, 2), 6)>>,
     vals |-> << <<Dirty(15, {1, 15}), <<>>, Dirty(7, {7})>> \o Repeat(Dirty(2, {}), 5) \o <<Dirty(2, {2})>>,
                 <<Dirty(15, {}), <<>>, Dirty(7, {2})>> \o Repeat(Dirty(2, {}), 6),
                 <<Dirty(15, {8}), <<>>, Dirty(7, {})>> \o Repeat(Dirty(2, {1}), 6) >>],
    [c |-> VitalsContents, vals |-> << <<[Dirty(14, {4, 9, 14}) EXCEPT ![3] = <<{1}, {2}, {63}, {3}>>], Dirty(5, {1, 5})>> >>],
    [c |-> <<"fixed", <<Repeat(U8, 29), Repeat(U8, 1)>> \o Repeat(Repeat(U8, 2), 7)>>,
     vals |-> << <<Dirty(29, {1, 28, 29}), Dirty(1, {})>> \o Repeat(Dirty(2, {}), 6) \o <<Dirty(2, {1, 2})>>,
                 <<Dirty(29, {}), Dirty(1, {1})>> \o Repeat(Dirty(2, {}), 7) >>],
    [c |-> Tuple(<<ArrayVec(U8, 2), ArrayString(2), IndexSet(U8), HashMap(U8, U8), BTreeSet(U8), BTreeMap(U8, Bool)>>),
     vals |-> << <<<<{1}, {2}>>, Letters, {{1}}, [k \in {{3}} |-> {4}], {}, [k \in {{3}, {}} |-> TRUE]>> >>],
    [c |-> Tuple(<<ActorRequestId, RemoteServerFacetRef>>),
     vals |-> << <<<<{1}, {2}>>, << <<<< <<UuidOf(3)>>, {4}>>, {5}>> >> >> >>],
    [c |-> Tuple(<<AssetId, ClientActorHash, InterestId, TimePoint>>),
     vals |-> << << <<UuidOf(1), {31}>>, {63}, {15}, {0}>> >>],
    [c |-> ActorRef, vals |-> << <<{0}, UuidOf(1), UuidOf(2)>> >>],
    [c |-> Tuple(<<MovementInteractionId, CrashTarget>>), vals |-> << << <<{1}, {2}, {3}, {4}>>, {1}>> >>],
    [c |-> MigratedPersistenceMetadata, vals |-> << <<{1}, TRUE, {2}, {3}, <<{4}, {5}>> >> >>],
    [c |-> Affine3A, vals |-> << Repeat(Point(3), 4) >>],
    [c |-> Tuple(<<Vec4, Aabb2d>>), vals |-> << <<Point(4), <<Point(2), Point(2)>> >> >>],
    [c |-> Tuple(<<Vec2Comp, Vec3Comp, QuatComp, QuantizedAngles, PackedPosition>>),
     vals |-> << <<Repeat({15}, 2), Repeat({1}, 3), Repeat({2}, 4), <<{3}, {31}>>, <<{4}, {5}, {15}>> >> >>],
    [c |-> Tuple(<<AfflictionData, DyeData>>),
     vals |-> << << <<{1}, {2}, {3}, {63}, {4}, {7}, TRUE>>, <<{1}, {}, {2}, {7}>> >> >>],
    [c |-> Tuple(<<CharacterAttributeType, GeneralCooldownType, GatheringStatus, PaperdollSlotAlias, ReplicationCategory,
                   GameModeParticipantStatusByte>>), vals |-> << <<4, 2, 3, 60, 6, 4>> >>],
    [c |-> Tuple(<<PaperdollSlotFlags, LoadedAmmoData, PaperdollLoadout>>),
     vals |-> << <<Repeat({7}, 7), <<{1}, {60}>>, <<Letters, << <<{1}, {2}>> >>, FALSE, << <<{3}, {4}>> >> >> >> >>],
    [c |-> ReplicatedItemDescriptor,
     vals |-> << <<{60}, {7}, {}>> \o Repeat({1}, 6) \o Repeat({7}, 4) \o <<UuidOf(4), {1}, {31}>> \o Repeat({2}, 4) >>],
    [c |-> Tuple(<<SimpleItemDescriptor, ContainerItemClasses>>),
     vals |-> << << <<{1}, {2}, {3}, TRUE, {4}, {5}, FALSE, TRUE, <<{31}>>, <<>>, FALSE, <<>> >>, << <<{63}>> >> >> >>],
    [c |-> ClientPathingCorridorPaths,
     vals |-> << << <<None, <<Point(3), {1}, <<Repeat({15}, 3)>>, <<{2}, {3}>> >> >>, {31}>> >>],
    [c |-> WarDataDetailBlock, vals |-> << <<UuidOf(1), {1}, {2}, {3}, TRUE, {4}, {5}, <<{6}, UuidOf(2), UuidOf(3)>> >> >>],
    [c |-> StatusEffects, vals |-> << << <<{1}, {15}, {2}, {3}>>, {7, 0}, <<{1}, {2}, {3}, {4}, {5}>>, <<{1}, {2}, {3}, {4}>> >> >>],
    [c |-> RegistrationRequestV3Msg,
     vals |-> << <<{31}, [k \in {{1}} |-> <<>>], <<>>,
                   Repeat(<<>>, 5) \o <<{1}>> \o Repeat(<<>>, 5) \o <<{2}, {3}, {4}, <<>>, {5}, TRUE, <<>>, None, <<>>, <<>>, <<>> >>,
                   <<{6}, FALSE, {7}, <<>>, <<>>, <<>>, {8}>> \o Repeat(<<>>, 5),
                   <<[is |-> 0, fields |-> <<Letters>>], [is |-> 0, fields |-> << <<>> >>]>>, TRUE>> >>],
    [c |-> ImpersonatedValues,
     vals |-> << <<[is |-> 1, fields |-> <<UuidOf(5)>>], [is |-> 0, fields |-> <<Letters>>]>> >>]
>>

MCTypes == [t \in 1 .. Len(Table) |-> Table[t].c]
MCSamples == FlattenSeq([t \in 1 .. Len(Table) |->
                 [i \in 1 .. Len(Table[t].vals) |-> [type |-> t, val |-> Table[t].vals[i]]]])
MCIndexed == {t \in 1 .. Len(Table) : t % 3 # 0}
MCInterests == {0 .. 15}
MCKeys == {{0}}
MCControlIds == {{2}, {15}}
MCHeaders == {[seq |-> None, context |-> {}, bandwidth |-> {1}, unreliable |-> TRUE],
              [seq |-> {27}, context |-> {7}, bandwidth |-> {}, unreliable |-> FALSE]}
MCBundleType == [index |-> {3}, uuid |-> UuidOf(8)]
MCSchema == [u \in {UuidOf(8)} |-> {3}]
=============================================================================

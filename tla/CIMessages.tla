----------------------------- MODULE CIMessages -----------------------------
(***************************************************************************)
(* The bytes of MIDI-CI messages.  A message is a record of its class, its *)
(* Common (source, destination, address) and the members of the class.     *)
(* Serialize(m, max) is what Message::serialize writes through CIFactory,  *)
(* one SysEx per packet; Read(data) is what Messenger::processInput makes  *)
(* of one through CIRetrieval; Answers(m) are the replies of the receiver. *)
(* Indices into bytes are those of the code.                               *)
(***************************************************************************)
EXTENDS PropertyChunking, Sequences, SequencesExt, TLC

CONSTANTS
    Values,         \* one-byte members
    Numbers,        \* members of two to four bytes
    Channels,       \* numbers of channels
    ProfileSets,    \* sequences of profile ids, each of five bytes
    Datas,          \* headers, bodies, data: sequences of bytes
    RequestIds,
    OwnDetails,     \* of a device: its DeviceDetails
    InstanceId,     \* its product_instance_id
    HostProfiles    \* its profiles, a sequence of [address, profile, enabled]

FunctionBlock == \h7F
Broadcast == \h7F7F7F7F
Version12 == 2

ProfileIds == UNION {Range(s) : s \in ProfileSets}

-----------------------------------------------------------------------------
(* Numbers, least significant byte first.                                  *)

Direct(v, n) == [k \in 1 .. n |-> (v \div 256 ^ (k - 1)) % 256]
SevenBit(v, n) == [k \in 1 .. n |-> (v \div 128 ^ (k - 1)) % 128]

Number(bytes, base) == FoldRight(LAMBDA b, rest : b + base * rest, bytes, 0)

At(data, index) == data[index + 1]
From(data, index, n) == SubSeq(data, index + 1, index + n)
Rest(data, index) == SubSeq(data, index + 1, Len(data))
DirectAt(data, index, n) == Number(From(data, index, n), 256)
SevenBitAt(data, index) == Number(From(data, index, 2), 128)

\* midiCI32to28
To28(v) == Number([k \in 1 .. 4 |-> Direct(v, 4)[k] % 128], 128)

-----------------------------------------------------------------------------
(* The classes of messages, in the order of Message.hpp, for a Common c.   *)

DiscoveryMessages(c) ==
    LET Details == [manufacturer : Numbers, family : {n % 65536 : n \in Numbers},
                    model : {1, \h765}, revision : Numbers]
    IN  {c @@ d @@ [type |-> "DiscoveryInquiry", features |-> \h7F, maxSysex |-> n,
                    path |-> 0] : d \in Details, n \in Numbers}
        \cup
        {c @@ d @@ [type |-> "DiscoveryReply", features |-> \h7F, maxSysex |-> n,
                    path |-> 0, block |-> 0] : d \in Details, n \in Numbers}

PropertyMessages(c) ==
    {c @@ [type |-> t, features |-> v] :
        t \in {"PropertyGetCapabilities", "PropertyGetCapabilitiesReply"}, v \in Values}
    \cup
    {c @@ [type |-> t, id |-> id, header |-> h, body |-> <<>>] :
        t \in {"GetPropertyData", "SetPropertyDataReply"}, id \in RequestIds, h \in Datas}
    \cup
    {c @@ [type |-> t, id |-> id, header |-> h, body |-> b] :
        t \in {"SetPropertyData", "SubscribeProperty", "GetPropertyDataReply",
               "SubscribePropertyReply"},
        id \in RequestIds, h \in Datas, b \in Datas}

EndpointMessages(c) ==
    {c @@ [type |-> "EndpointInquiry", status |-> v] : v \in Values}
    \cup {c @@ [type |-> "EndpointReply", status |-> v, data |-> d] :
            v \in Values, d \in Datas}
    \cup {c @@ [type |-> "InvalidateMUID", target |-> n] : n \in Numbers}

ProfileMessages(c) ==
    {c @@ [type |-> "ProfileInquiry"]}
    \cup {c @@ [type |-> "ProfileReply", enabled |-> e, disabled |-> d] :
            e, d \in ProfileSets}
    \cup {c @@ [type |-> t, profile |-> p] : p \in ProfileIds,
            t \in {"SetProfileOff", "ProfileAddedReport", "ProfileRemovedReport"}}
    \cup {c @@ [type |-> t, profile |-> p, channels |-> n] : p \in ProfileIds, n \in Channels,
            t \in {"SetProfileOn", "ProfileEnabledReport", "ProfileDisabledReport"}}

ProfileDataMessages(c) ==
    {c @@ [type |-> "ProfileDetailsReply", profile |-> p, target |-> v, data |-> d] :
        p \in ProfileIds, v \in Values, d \in Datas}
    \cup {c @@ [type |-> "ProfileSpecificData", profile |-> p, data |-> d] :
        p \in ProfileIds, d \in Datas}

ProcessMessages(c) ==
    {c @@ [type |-> t] : t \in {"ProcessInquiryCapabilities", "MidiMessageReportNotifyEnd"}}
    \cup {c @@ [type |-> "ProcessInquiryCapabilitiesReply", features |-> v] : v \in Values}
    \cup {c @@ [type |-> "MidiMessageReportInquiry", control |-> u, system |-> v,
                controllers |-> w, notes |-> x] : u, v, w, x \in Values}
    \cup {c @@ [type |-> "MidiMessageReportReply", system |-> v,
                controllers |-> w, notes |-> x] : v, w, x \in Values}

-----------------------------------------------------------------------------
(* CIFactory.                                                              *)

\* CISubId2
SubId == [DISCOVERY_INQUIRY |-> \h70, DISCOVERY_REPLY |-> \h71,
    ENDPOINT_MESSAGE_INQUIRY |-> \h72, ENDPOINT_MESSAGE_REPLY |-> \h73,
    INVALIDATE_MUID |-> \h7E, ACK |-> \h7D, NAK |-> \h7F,
    PROFILE_INQUIRY |-> \h20, PROFILE_INQUIRY_REPLY |-> \h21,
    PROFILE_SET_ON |-> \h22, PROFILE_SET_OFF |-> \h23,
    PROFILE_ENABLED_REPORT |-> \h24, PROFILE_DISABLED_REPORT |-> \h25,
    PROFILE_ADDED_REPORT |-> \h26, PROFILE_REMOVED_REPORT |-> \h27,
    PROFILE_DETAILS_REPLY |-> \h29, PROFILE_SPECIFIC_DATA |-> \h2F,
    PROPERTY_EXCHANGE_CAPABILITIES_INQUIRY |-> \h30,
    PROPERTY_EXCHANGE_CAPABILITIES_REPLY |-> \h31,
    PROPERTY_GET_DATA_INQUIRY |-> \h34, PROPERTY_GET_DATA_REPLY |-> \h35,
    PROPERTY_SET_DATA_INQUIRY |-> \h36, PROPERTY_SET_DATA_REPLY |-> \h37,
    PROPERTY_SUBSCRIPTION_INQUIRY |-> \h38, PROPERTY_SUBSCRIPTION_REPLY |-> \h39,
    PROPERTY_NOTIFY |-> \h3F, PROCESS_INQUIRY_CAPABILITIES |-> \h40,
    PROCESS_INQUIRY_CAPABILITIES_REPLY |-> \h41,
    PROCESS_INQUIRY_MIDI_MESSAGE_REPORT |-> \h42,
    PROCESS_INQUIRY_MIDI_MESSAGE_REPORT_REPLY |-> \h43,
    PROCESS_INQUIRY_END_OF_MIDI_MESSAGE |-> \h44]

\* midiCIMessageCommon; the version is read by nobody.
MessageCommon(address, id, source, destination) ==
    <<\h7E, address, \h0D, SubId[id], Version12>>
        \o Direct(source, 4) \o Direct(destination, 4)

\* The fourth byte of the manufacturer is overwritten by the family.
DiscoveryCommon(address, id, source, destination, m) ==
    MessageCommon(address, id, source, destination)
        \o Direct(m.manufacturer, 3) \o Direct(m.family, 2) \o Direct(m.model, 2)
        \o Direct(m.revision, 4) \o <<m.features>> \o Direct(m.maxSysex, 4) \o <<m.path>>

midiCIDiscovery(m) ==
    DiscoveryCommon(FunctionBlock, "DISCOVERY_INQUIRY", m.source, Broadcast, m)

midiCIDiscoveryReply(m) ==
    DiscoveryCommon(m.address, "DISCOVERY_REPLY", m.source, m.destination, m) \o <<m.block>>

\* midiCIPropertyCommon
PropertyPacket(id, m, header, total, index, body) ==
    MessageCommon(FunctionBlock, id, m.source, m.destination)
        \o <<m.id>> \o SevenBit(Len(header), 2) \o header
        \o SevenBit(total, 2) \o SevenBit(index, 2) \o SevenBit(Len(body), 2) \o body

\* Mutant: packets are numbered from 0.
PropertyPacketsFromZero(id, m, max) ==
    LET h == Len(m.header)
        n == NumChunks(h, Len(m.body), max)
    IN  [k \in 1 .. n |->
            PropertyPacket(id, m, IF k = 1 THEN m.header ELSE <<>>, n, k - 1,
                SubSeq(m.body, Offset(h, Len(m.body), max, k) + 1,
                               Offset(h, Len(m.body), max, k + 1)))]

\* midiCIPropertyChunks
PropertyPackets(id, m, max) ==
    LET h == Len(m.header)
        n == NumChunks(h, Len(m.body), max)
    IN  [k \in 1 .. n |->
            PropertyPacket(id, m, IF k = 1 THEN m.header ELSE <<>>, n, k,
                SubSeq(m.body, Offset(h, Len(m.body), max, k) + 1,
                               Offset(h, Len(m.body), max, k + 1)))]

midiCIProfileInquiry(m) ==
    MessageCommon(m.address, "PROFILE_INQUIRY", m.source, m.destination)

midiCIProfileInquiryReply(m) ==
    MessageCommon(m.address, "PROFILE_INQUIRY_REPLY", m.source, m.destination)
        \o SevenBit(Len(m.enabled), 2) \o FlattenSeq(m.enabled)
        \o SevenBit(Len(m.disabled), 2) \o FlattenSeq(m.disabled)

midiCIProfileSet(on, m, channels) ==
    MessageCommon(m.address, IF on THEN "PROFILE_SET_ON" ELSE "PROFILE_SET_OFF",
                  m.source, m.destination)
        \o m.profile \o SevenBit(channels, 2)

midiCIProfileReport(enabled, m) ==
    MessageCommon(m.address,
                  IF enabled THEN "PROFILE_ENABLED_REPORT" ELSE "PROFILE_DISABLED_REPORT",
                  m.source, Broadcast)
        \o m.profile \o SevenBit(m.channels, 2)

midiCIProfileAddedRemoved(removed, m) ==
    MessageCommon(m.address,
                  IF removed THEN "PROFILE_REMOVED_REPORT" ELSE "PROFILE_ADDED_REPORT",
                  m.source, Broadcast)
        \o m.profile

\* The data without its length.
midiCIProfileDetailsReply(address, source, destination, m) ==
    MessageCommon(address, "PROFILE_DETAILS_REPLY", source, destination)
        \o m.profile \o <<m.target>> \o m.data

midiCIProfileSpecificData(m) ==
    MessageCommon(m.address, "PROFILE_SPECIFIC_DATA", m.source, m.destination)
        \o m.profile \o Direct(Len(m.data), 4) \o m.data

midiCIPropertyExchangeCapabilitiesReply(m) ==
    MessageCommon(m.address, "PROPERTY_EXCHANGE_CAPABILITIES_REPLY", m.source, m.destination)
        \o <<m.features, 0, 0>>

midiCIPropertyGetCapabilities(m) ==
    MessageCommon(m.address, "PROPERTY_EXCHANGE_CAPABILITIES_INQUIRY",
                  m.source, m.destination)
        \o <<m.features, 0, 0>>

midiCIProcessInquiryCapabilities(m) ==
    MessageCommon(FunctionBlock, "PROCESS_INQUIRY_CAPABILITIES", m.source, m.destination)

midiCIProcessInquiryCapabilitiesReply(source, destination, features) ==
    MessageCommon(FunctionBlock, "PROCESS_INQUIRY_CAPABILITIES_REPLY", source, destination)
        \o <<features>>

midiCIMidiMessageReport(m) ==
    MessageCommon(m.address, "PROCESS_INQUIRY_MIDI_MESSAGE_REPORT", m.source, m.destination)
        \o <<m.control, m.system, 0, m.controllers, m.notes>>

midiCIMidiMessageReportReply(m) ==
    MessageCommon(m.address, "PROCESS_INQUIRY_MIDI_MESSAGE_REPORT_REPLY",
                  m.source, m.destination)
        \o <<m.system, 0, m.controllers, m.notes>>

midiCIEndOfMidiMessage(m) ==
    MessageCommon(m.address, "PROCESS_INQUIRY_END_OF_MIDI_MESSAGE", m.source, m.destination)

midiCIInvalidateMuid(m) ==
    MessageCommon(FunctionBlock, "INVALIDATE_MUID", m.source, Broadcast)
        \o SevenBit(To28(m.target), 4)

midiCIEndpointMessage(m) ==
    MessageCommon(FunctionBlock, "ENDPOINT_MESSAGE_INQUIRY", m.source, m.destination)
        \o <<m.status>>

midiCIEndpointMessageReply(m) ==
    MessageCommon(FunctionBlock, "ENDPOINT_MESSAGE_REPLY", m.source, m.destination)
        \o <<m.status>> \o SevenBit(Len(m.data), 2) \o m.data

\* midiCIAckNak, with the zeros dst has where no details are given.
midiCIAckNak(nak, address, source, destination, m) ==
    MessageCommon(address, IF nak THEN "NAK" ELSE "ACK", source, destination)
        \o <<m.original, m.code, m.status>>
        \o (IF Len(m.details) >= 5 THEN From(m.details, 0, 5) ELSE <<0, 0, 0, 0, 0>>)
        \o <<Len(m.text) % 128, Len(m.text) \div 128>> \o m.text

-----------------------------------------------------------------------------
(* Message.cpp: the packets of each class.                                 *)

\* The last two pass the members of their Common in the wrong places.
SerializeOther(m) ==
    CASE m.type = "ProfileSpecificData" -> <<midiCIProfileSpecificData(m)>>
      [] m.type = "MidiMessageReportReply" -> <<midiCIMidiMessageReportReply(m)>>
      [] m.type = "MidiMessageReportNotifyEnd" -> <<midiCIEndOfMidiMessage(m)>>
      [] m.type = "ProfileDetailsReply" ->
            <<midiCIProfileDetailsReply(m.address, 0, m.source, m)>>
      [] m.type = "ProcessInquiryCapabilitiesReply" ->
            <<midiCIProcessInquiryCapabilitiesReply(m.address, m.source, m.features)>>

SerializeReply(m, max) ==
    CASE m.type = "ProfileReply" -> <<midiCIProfileInquiryReply(m)>>
      [] m.type = "PropertyGetCapabilitiesReply" ->
            <<midiCIPropertyExchangeCapabilitiesReply(m)>>
      [] m.type = "GetPropertyDataReply" ->
            PropertyPackets("PROPERTY_GET_DATA_REPLY", m, max)
      [] m.type = "SetPropertyDataReply" ->
            PropertyPackets("PROPERTY_SET_DATA_REPLY", m, max)
      [] m.type = "SubscribePropertyReply" ->
            PropertyPackets("PROPERTY_SUBSCRIPTION_REPLY", m, max)
      [] OTHER -> SerializeOther(m)

SerializeReport(m, max) ==
    CASE m.type = "ProfileEnabledReport" -> <<midiCIProfileReport(TRUE, m)>>
      [] m.type = "ProfileDisabledReport" -> <<midiCIProfileReport(FALSE, m)>>
      [] m.type = "ProfileAddedReport" -> <<midiCIProfileAddedRemoved(FALSE, m)>>
      [] m.type = "ProfileRemovedReport" -> <<midiCIProfileAddedRemoved(TRUE, m)>>
      [] m.type = "MidiMessageReportInquiry" -> <<midiCIMidiMessageReport(m)>>
      [] m.type = "ProcessInquiryCapabilities" -> <<midiCIProcessInquiryCapabilities(m)>>
      [] OTHER -> SerializeReply(m, max)

SerializeEndpoint(m, max) ==
    CASE m.type = "EndpointInquiry" -> <<midiCIEndpointMessage(m)>>
      [] m.type = "EndpointReply" -> <<midiCIEndpointMessageReply(m)>>
      [] m.type = "InvalidateMUID" -> <<midiCIInvalidateMuid(m)>>
      [] m.type = "ProfileInquiry" -> <<midiCIProfileInquiry(m)>>
      [] m.type = "SetProfileOff" -> <<midiCIProfileSet(FALSE, m, 0)>>
      [] OTHER -> SerializeReport(m, max)

SerializeProperty(m, max) ==
    CASE m.type = "GetPropertyData" -> PropertyPackets("PROPERTY_GET_DATA_INQUIRY", m, max)
      [] m.type = "SetPropertyData" -> PropertyPackets("PROPERTY_SET_DATA_INQUIRY", m, max)
      [] m.type = "SubscribeProperty" ->
            PropertyPackets("PROPERTY_SUBSCRIPTION_INQUIRY", m, max)
      [] OTHER -> SerializeEndpoint(m, max)

SerializeDiscovery(m, max) ==
    CASE m.type = "DiscoveryInquiry" -> <<midiCIDiscovery(m)>>
      [] m.type = "DiscoveryReply" -> <<midiCIDiscoveryReply(m)>>
      [] m.type = "SetProfileOn" -> <<midiCIProfileSet(TRUE, m, m.channels)>>
      [] m.type = "PropertyGetCapabilities" -> <<midiCIPropertyGetCapabilities(m)>>
      [] OTHER -> SerializeProperty(m, max)

\* sendNakForError is no class of its own.
Serialize(m, max) ==
    IF m.type = "Nak" THEN <<midiCIAckNak(TRUE, m.address, m.source, m.destination, m)>>
    ELSE SerializeDiscovery(m, max)

-----------------------------------------------------------------------------
(* CIRetrieval and Messenger::processInput.                                *)

ReadDetails(data) ==
    [manufacturer |-> DirectAt(data, 13, 3), family |-> DirectAt(data, 16, 2),
     model |-> DirectAt(data, 18, 2), revision |-> DirectAt(data, 20, 4)]

MaxSysexSize(data) == DirectAt(data, 25, 4)

ReadCommon(data) ==
    [source |-> DirectAt(data, 5, 4), destination |-> DirectAt(data, 9, 4),
     address |-> At(data, 1)]

\* getProfileIdEntry, as often as the number before it says and bytes last.
Entries(data, index) ==
    LET n == SevenBitAt(data, index)
        fit == (Len(data) - index - 2) \div 5
    IN  [k \in 1 .. (IF n < fit THEN n ELSE fit) |-> From(data, index + 5 * k - 3, 5)]

\* getProfileSet
ReadProfileSet(data) ==
    LET enabled == Entries(data, 13)
        index == 15 + 5 * Len(enabled)
    IN  [enabled |-> enabled,
         disabled |-> IF index + 2 <= Len(data) THEN Entries(data, index) ELSE <<>>]

ReadProfile(data) == [profile |-> From(data, 13, 5)]
ReadChannels(data) == [channels |-> SevenBitAt(data, 18)]

\* The header, and what follows it, of a property packet.
HeaderSize(data) == SevenBitAt(data, 14)
ReadHeader(data) ==
    [id |-> At(data, 13),
     header |-> IF 16 + HeaderSize(data) <= Len(data)
                THEN From(data, 16, HeaderSize(data)) ELSE <<>>]
ReadBody(data) ==
    LET size == SevenBitAt(data, 20 + HeaderSize(data))
        left == Len(data) - 22 - HeaderSize(data)
    IN  [body |-> From(data, 22 + HeaderSize(data), IF size < left THEN size ELSE left)]
ReadChunk(data) ==
    [total |-> SevenBitAt(data, 16 + HeaderSize(data)),
     index |-> SevenBitAt(data, 18 + HeaderSize(data))]

NoMessage == [type |-> "none"]

Is(data, id, size) == At(data, 3) = SubId[id] /\ Len(data) >= size

ReadOther(data, c) ==
    CASE Is(data, "ENDPOINT_MESSAGE_REPLY", 16) ->
            c @@ [type |-> "EndpointReply", status |-> At(data, 13),
                  data |-> From(data, 16, SevenBitAt(data, 14))]
      [] Is(data, "NAK", 23) ->
            c @@ [type |-> "Nak", original |-> At(data, 13), code |-> At(data, 14),
                  status |-> At(data, 15), details |-> From(data, 16, 5),
                  text |-> Rest(data, 23)]
      [] Is(data, "PROFILE_DETAILS_REPLY", 22) ->
            c @@ ReadProfile(data) @@ [type |-> "ProfileDetailsReply",
                target |-> At(data, 18), data |-> From(data, 21, SevenBitAt(data, 19))]
      [] Is(data, "PROFILE_SPECIFIC_DATA", 22) ->
            c @@ ReadProfile(data) @@ [type |-> "ProfileSpecificData",
                data |-> From(data, 22, SevenBitAt(data, 19))]
      [] Is(data, "PROCESS_INQUIRY_CAPABILITIES_REPLY", 14) ->
            c @@ [type |-> "ProcessInquiryCapabilitiesReply", features |-> At(data, 13)]
      [] Is(data, "PROCESS_INQUIRY_MIDI_MESSAGE_REPORT_REPLY", 17) ->
            c @@ [type |-> "MidiMessageReportReply", system |-> At(data, 13),
                  controllers |-> At(data, 15), notes |-> At(data, 16)]
      [] Is(data, "PROCESS_INQUIRY_END_OF_MIDI_MESSAGE", 13) ->
            c @@ [type |-> "MidiMessageReportNotifyEnd"]
      [] Is(data, "PROCESS_INQUIRY_MIDI_MESSAGE_REPORT", 18) ->
            c @@ [type |-> "MidiMessageReportInquiry", control |-> At(data, 13),
                  system |-> At(data, 14), controllers |-> At(data, 16),
                  notes |-> At(data, 17)]
      [] Is(data, "ENDPOINT_MESSAGE_INQUIRY", 14) ->
            c @@ [type |-> "EndpointInquiry", status |-> At(data, 13)]
      [] Is(data, "PROCESS_INQUIRY_CAPABILITIES", 13) ->
            c @@ [type |-> "ProcessInquiryCapabilities"]
      [] OTHER -> NoMessage

ReadInquiry(data, c) ==
    CASE Is(data, "DISCOVERY_INQUIRY", 30) ->
            c @@ ReadDetails(data) @@ [type |-> "DiscoveryInquiry",
                features |-> At(data, 24), maxSysex |-> MaxSysexSize(data),
                path |-> At(data, 29)]
      [] Is(data, "PROFILE_INQUIRY", 13) -> c @@ [type |-> "ProfileInquiry"]
      [] Is(data, "PROFILE_SET_ON", 20) ->
            c @@ ReadProfile(data) @@ ReadChannels(data) @@ [type |-> "SetProfileOn"]
      [] Is(data, "PROFILE_SET_OFF", 18) ->
            c @@ ReadProfile(data) @@ [type |-> "SetProfileOff"]
      [] Is(data, "PROPERTY_EXCHANGE_CAPABILITIES_INQUIRY", 14) ->
            c @@ [type |-> "PropertyGetCapabilities", features |-> At(data, 13)]
      [] Is(data, "PROPERTY_GET_DATA_INQUIRY", 16) ->
            c @@ ReadHeader(data) @@ [type |-> "GetPropertyData", body |-> <<>>]
      [] Is(data, "PROPERTY_SET_DATA_INQUIRY", 16) ->
            c @@ ReadHeader(data) @@ ReadBody(data) @@ ReadChunk(data)
              @@ [type |-> "SetPropertyData"]
      [] Is(data, "PROPERTY_SUBSCRIPTION_INQUIRY", 16) ->
            c @@ ReadHeader(data) @@ ReadBody(data) @@ ReadChunk(data)
              @@ [type |-> "SubscribeProperty"]
      [] OTHER -> ReadOther(data, c)

ReadPropertyReply(data, c) ==
    CASE Is(data, "PROPERTY_EXCHANGE_CAPABILITIES_REPLY", 14) ->
            c @@ [type |-> "PropertyGetCapabilitiesReply", features |-> At(data, 13)]
      [] Is(data, "PROPERTY_GET_DATA_REPLY", 21) ->
            c @@ ReadHeader(data) @@ ReadBody(data) @@ ReadChunk(data)
              @@ [type |-> "GetPropertyDataReply"]
      [] Is(data, "PROPERTY_SET_DATA_REPLY", 21) ->
            c @@ ReadHeader(data) @@ [type |-> "SetPropertyDataReply", body |-> <<>>]
      [] Is(data, "PROPERTY_SUBSCRIPTION_REPLY", 21) ->
            c @@ ReadHeader(data) @@ ReadBody(data) @@ [type |-> "SubscribePropertyReply"]
      [] Is(data, "PROPERTY_NOTIFY", 16) ->
            c @@ ReadHeader(data) @@ ReadBody(data) @@ ReadChunk(data)
              @@ [type |-> "SubscribeProperty"]
      [] OTHER -> ReadInquiry(data, c)

ReadReport(data, c) ==
    CASE Is(data, "DISCOVERY_REPLY", 30) ->
            c @@ ReadDetails(data) @@ [type |-> "DiscoveryReply",
                features |-> At(data, 24), maxSysex |-> MaxSysexSize(data),
                path |-> At(data, 29),
                block |-> IF Len(data) > 30 THEN At(data, 30) ELSE 0]
      [] Is(data, "INVALIDATE_MUID", 18) ->
            c @@ [type |-> "InvalidateMUID", target |-> DirectAt(data, 13, 4)]
      [] Is(data, "PROFILE_INQUIRY_REPLY", 15) ->
            c @@ ReadProfileSet(data) @@ [type |-> "ProfileReply"]
      [] Is(data, "PROFILE_ADDED_REPORT", 18) ->
            c @@ ReadProfile(data) @@ [type |-> "ProfileAddedReport"]
      [] Is(data, "PROFILE_REMOVED_REPORT", 18) ->
            c @@ ReadProfile(data) @@ [type |-> "ProfileRemovedReport"]
      [] Is(data, "PROFILE_ENABLED_REPORT", 20) ->
            c @@ ReadProfile(data) @@ ReadChannels(data) @@ [type |-> "ProfileEnabledReport"]
      [] Is(data, "PROFILE_DISABLED_REPORT", 20) ->
            c @@ ReadProfile(data) @@ ReadChannels(data) @@ [type |-> "ProfileDisabledReport"]
      [] OTHER -> ReadPropertyReply(data, c)

\* What the device with this MUID makes of a SysEx.
Read(data, muid) ==
    IF /\ Len(data) >= 13 /\ At(data, 0) = \h7E /\ At(data, 2) = \h0D
       /\ ReadCommon(data).destination \in {muid, Broadcast}
    THEN ReadReport(data, ReadCommon(data))
    ELSE NoMessage

-----------------------------------------------------------------------------
(* The replies Messenger composes itself.                                  *)

CommonFor(m, muid, address) ==
    [source |-> muid, destination |-> m.source, address |-> address]

DiscoveryReplyFor(m, muid, maxSysex) ==
    CommonFor(m, muid, FunctionBlock) @@ OwnDetails
        @@ [type |-> "DiscoveryReply", features |-> \h7F, maxSysex |-> maxSysex,
            path |-> 0, block |-> 0]

EndpointReplyFor(m, muid) ==
    CommonFor(m, muid, m.address)
        @@ [type |-> "EndpointReply", status |-> m.status,
            data |-> IF m.status = 0 THEN InstanceId ELSE <<>>]

\* Mutant: the address is not compared.
MatchingProfilesAll(address, enabled) ==
    LET match == SelectSeq(HostProfiles, LAMBDA p : p.enabled = enabled)
    IN  [k \in 1 .. Len(match) |-> match[k].profile]

MatchingProfiles(address, enabled) ==
    LET match == SelectSeq(HostProfiles, LAMBDA p :
                    p.address = address /\ p.enabled = enabled)
    IN  [k \in 1 .. Len(match) |-> match[k].profile]

ProfileRepliesFor(m, muid) ==
    LET addresses == IF m.address = FunctionBlock
                     THEN {p.address : p \in Range(HostProfiles)} ELSE {m.address}
    IN  {CommonFor(m, muid, a) @@ [type |-> "ProfileReply",
            enabled |-> MatchingProfiles(a, TRUE), disabled |-> MatchingProfiles(a, FALSE)]
            : a \in addresses}

CapabilitiesReplyFor(m, muid) ==
    CommonFor(m, muid, m.address)
        @@ [type |-> "PropertyGetCapabilitiesReply",
            features |-> IF m.features < 8 THEN m.features ELSE 8]

ProcessInquiryReplyFor(m, muid) ==
    CommonFor(m, muid, m.address)
        @@ [type |-> "ProcessInquiryCapabilitiesReply", features |-> 1]

Answers(m, muid, maxSysex) ==
    CASE m.type = "DiscoveryInquiry" -> {DiscoveryReplyFor(m, muid, maxSysex)}
      [] m.type = "EndpointInquiry" -> {EndpointReplyFor(m, muid)}
      [] m.type = "ProfileInquiry" -> ProfileRepliesFor(m, muid)
      [] m.type = "PropertyGetCapabilities" -> {CapabilitiesReplyFor(m, muid)}
      [] m.type = "ProcessInquiryCapabilities" -> {ProcessInquiryReplyFor(m, muid)}
      [] OTHER -> {}
=============================================================================

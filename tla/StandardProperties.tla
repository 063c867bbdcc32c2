-------------------------- MODULE StandardProperties --------------------------
(***************************************************************************)
(* The lists that standard and foundational properties hold: how they are  *)
(* written as JSON and read, field by field, and how a device's values are *)
(* got and set by property.  A struct is a record with the names of its    *)
(* members, an optional member a sequence of none or one.                  *)
(***************************************************************************)
EXTENDS Json

Absolute == <<"absolute">>
MaxUint32 == MaxExact

-----------------------------------------------------------------------------
(* Members of objects *)

When(condition, k, v) == IF condition THEN <<k>> :> v ELSE <<>>
Always(k, v) == <<k>> :> v
OptionalString(k, o) == When(o # <<>>, k, Str(o[1]))
OptionalNumber(k, o) == When(o # <<>>, k, Num(o[1]))
NumberArray(s) == Arr([i \in DOMAIN s |-> Num(s[i])])
Words(s) == Arr([i \in DOMAIN s |-> Str(s[i])])

Has(obj, k, kind) == <<k>> \in DOMAIN obj /\ Is(obj[<<k>>], kind)
StringIn(obj, k, default) == IF Has(obj, k, "string") THEN obj[<<k>>].string ELSE default
NumberIn(obj, k, default) == IF Has(obj, k, "number") THEN obj[<<k>>].number ELSE default
BoolIn(obj, k, default) == IF Has(obj, k, "bool") THEN obj[<<k>>].bool ELSE default
OptionalStringIn(obj, k) == IF Has(obj, k, "string") THEN <<obj[<<k>>].string>> ELSE <<>>
OptionalNumberIn(obj, k) == IF Has(obj, k, "number") THEN <<obj[<<k>>].number>> ELSE <<>>

\* The items of an array that are of one kind.
Items(array, kind) ==
    LET some == SelectSeq(array, LAMBDA v : Is(v, kind))
    IN [i \in DOMAIN some |-> some[i][kind]]
ItemsIn(obj, k, kind, default) ==
    IF Has(obj, k, "array") THEN Items(obj[<<k>>].array, kind) ELSE default

OrElse(s, default) == IF s = <<>> THEN default ELSE s
Byte(s) == [i \in DOMAIN s |-> s[i] % 256]

\* The objects of a list in JSON; none where the text is no list.
ObjectsOf(v) == IF v # Failed /\ Is(v, "array") THEN Items(v.array, "object") ELSE <<>>
Objects(text) == ObjectsOf(Parse(text))

Each(s, F(_)) == [i \in DOMAIN s |-> F(s[i])]

-----------------------------------------------------------------------------
(* Standard properties *)

StateJson(s) ==
    Obj(Always("title", Str(s.title)) @@ Always("stateId", Str(s.stateId))
        @@ OptionalString("stateRev", s.stateRev)
        @@ OptionalNumber("timestamp", s.timestamp)
        @@ OptionalString("description", s.description)
        @@ OptionalNumber("size", s.size))

StateOf(obj) ==
    [title |-> StringIn(obj, "title", <<>>),
     stateId |-> StringIn(obj, "stateId", <<>>),
     stateRev |-> OptionalStringIn(obj, "stateRev"),
     timestamp |-> OptionalNumberIn(obj, "timestamp"),
     description |-> OptionalStringIn(obj, "description"),
     size |-> OptionalNumberIn(obj, "size")]

AControl(title, ctrlType, index) ==
    [title |-> title, ctrlType |-> ctrlType, description |-> <<>>, ctrlIndex |-> index,
     channel |-> <<>>, priority |-> <<>>, defaultValue |-> 0, transmit |-> Absolute,
     recognize |-> Absolute, numSigBits |-> 32, paramPath |-> <<>>, typeHint |-> <<>>,
     ctrlMapId |-> <<>>, stepCount |-> <<>>, minMax |-> <<0, MaxUint32>>,
     defaultCCMap |-> FALSE]

\* What has its usual value is not written.  Whether recognize is, hangs on
\* transmit.
ControlJson(c) ==
    Obj(Always("title", Str(c.title))
        @@ When(c.ctrlType # <<>>, "ctrlType", Str(c.ctrlType))
        @@ When(c.description # <<>>, "description", Str(c.description))
        @@ Always("ctrlIndex", NumberArray(c.ctrlIndex))
        @@ OptionalNumber("channel", c.channel)
        @@ OptionalNumber("priority", c.priority)
        @@ When(c.defaultValue # 0, "default", Num(c.defaultValue))
        @@ When(c.transmit \notin {<<>>, Absolute}, "transmit", Str(c.transmit))
        @@ When(c.recognize # <<>> /\ c.transmit # Absolute, "recognize", Str(c.recognize))
        @@ When(c.numSigBits # 32, "numSigBits", Num(c.numSigBits))
        @@ When(c.paramPath \notin {<<>>, << <<>> >>}, "paramPath", Str(c.paramPath[1]))
        @@ OptionalString("typeHint", c.typeHint)
        @@ When(c.ctrlMapId \notin {<<>>, << <<>> >>}, "ctrlMapId", Str(c.ctrlMapId[1]))
        @@ OptionalNumber("stepCount", c.stepCount)
        @@ When(c.minMax # <<0, MaxUint32>>, "minMax", NumberArray(c.minMax))
        @@ When(c.defaultCCMap, "defaultCCMap", Bool(TRUE)))

ControlOf(obj) ==
    [title |-> StringIn(obj, "title", <<>>),
     ctrlType |-> StringIn(obj, "ctrlType", <<>>),
     description |-> StringIn(obj, "description", <<>>),
     ctrlIndex |-> OrElse(Byte(ItemsIn(obj, "ctrlIndex", "number", <<0>>)), <<0>>),
     channel |-> Byte(OptionalNumberIn(obj, "channel")),
     priority |-> Byte(OptionalNumberIn(obj, "priority")),
     defaultValue |-> NumberIn(obj, "default", 0),
     transmit |-> StringIn(obj, "transmit", Absolute),
     recognize |-> StringIn(obj, "recognize", Absolute),
     numSigBits |-> NumberIn(obj, "numSigBits", 32),
     paramPath |-> OptionalStringIn(obj, "paramPath"),
     typeHint |-> OptionalStringIn(obj, "typeHint"),
     ctrlMapId |-> OptionalStringIn(obj, "ctrlMapId"),
     stepCount |-> OptionalNumberIn(obj, "stepCount"),
     minMax |-> OrElse(ItemsIn(obj, "minMax", "number", <<>>), <<0, MaxUint32>>),
     defaultCCMap |-> BoolIn(obj, "defaultCCMap", FALSE)]

ControlMapJson(m) == Obj(Always("value", Num(m.value)) @@ Always("title", Str(m.title)))
ControlMapOf(obj) ==
    [value |-> NumberIn(obj, "value", 0), title |-> StringIn(obj, "title", <<>>)]

ProgramJson(p) ==
    Obj(Always("title", Str(p.title)) @@ Always("bankPC", NumberArray(p.bankPC))
        @@ When(p.category # <<>>, "category", Words(p.category[1]))
        @@ When(p.tags # <<>>, "tags", Words(p.tags[1])))

\* An empty list is none.
OptionalWordsIn(obj, k) ==
    LET s == ItemsIn(obj, k, "string", <<>>) IN IF s = <<>> THEN <<>> ELSE <<s>>

ProgramOf(obj) ==
    [title |-> StringIn(obj, "title", <<>>),
     bankPC |-> Byte(ItemsIn(obj, "bankPC", "number", <<>>)),
     category |-> OptionalWordsIn(obj, "category"),
     tags |-> OptionalWordsIn(obj, "tags")]

-----------------------------------------------------------------------------
(* Foundational resources *)

\* The last n bytes of a number, the highest first.
BytesOf(x, n) == NumberArray([i \in 1 .. n |-> (x \div 256 ^ (n - i)) % 256])

DeviceInfoJson(d) ==
    Obj(Always("manufacturerId", BytesOf(d.manufacturer_id, 3))
        @@ Always("familyId", BytesOf(d.family_id, 2))
        @@ Always("modelId", BytesOf(d.model_id, 2))
        @@ Always("versionId", BytesOf(d.version_id, 4))
        @@ Always("manufacturer", Str(d.manufacturer)) @@ Always("family", Str(d.family))
        @@ Always("model", Str(d.model)) @@ Always("version", Str(d.version))
        @@ When(d.serial_number # <<>>, "serialNumber", Str(d.serial_number)))

\* The ids are read as numbers, which they are not.
DeviceInfoOf(obj) ==
    [manufacturer_id |-> NumberIn(obj, "manufacturerId", 0),
     family_id |-> NumberIn(obj, "familyId", 0) % 65536,
     model_id |-> NumberIn(obj, "modelId", 0) % 65536,
     version_id |-> NumberIn(obj, "versionId", 0),
     manufacturer |-> StringIn(obj, "manufacturer", <<>>),
     family |-> StringIn(obj, "family", <<>>),
     model |-> StringIn(obj, "model", <<>>),
     version |-> StringIn(obj, "version", <<>>),
     serial_number |-> StringIn(obj, "serialNumber", <<>>)]

IfDeviceInfo(v) == IF v # Failed /\ Is(v, "object") THEN DeviceInfoOf(v.object) ELSE Failed
parseDeviceInfo(text) == IfDeviceInfo(Parse(text))

ChannelJson(c) ==
    LET bank == <<c.bank_msb, c.bank_lsb, c.program>>
        mode == IF c.is_poly_mode THEN 3 ELSE IF c.is_omni_on THEN 1 ELSE 2
    IN Obj(Always("title", Str(c.title)) @@ Always("channel", Num(c.channel + 1))
           @@ When(c.program_title # <<>>, "programTitle", Str(c.program_title))
           @@ When(bank # <<0, 0, 0>>, "bankPC", NumberArray(bank))
           @@ When(c.cluster_channel_start > 0, "clusterChannelStart",
                   Num(c.cluster_channel_start + 1))
           @@ When(c.cluster_length > 1, "clusterLength", Num(c.cluster_length))
           @@ When(mode # 3, "clusterMidiMode", Num(mode))
           @@ When(c.cluster_type \notin {<<>>, <<"OTHER">>}, "clusterType", Str(c.cluster_type)))

\* No channels make null.
ChannelListJson(channels) ==
    IF channels = <<>> THEN Null
    ELSE Arr([i \in DOMAIN channels |-> ChannelJson(channels[i])])

ChannelOf(obj) ==
    LET given == IF Has(obj, "bankPC", "array") THEN obj[<<"bankPC">>].array ELSE <<>>
        bank == [i \in 1 .. 3 |-> IF Len(given) < 3 THEN 0 ELSE IF Is(given[i], "number")
                                   THEN given[i].number % 256 ELSE 0]
        mode == NumberIn(obj, "clusterMidiMode", 3) - 1
    IN [title |-> StringIn(obj, "title", <<>>),
        channel |-> NumberIn(obj, "channel", 1) - 1,
        program_title |-> StringIn(obj, "programTitle", <<>>),
        bank_msb |-> bank[1], bank_lsb |-> bank[2], program |-> bank[3],
        cluster_channel_start |-> NumberIn(obj, "clusterChannelStart", 1) - 1,
        cluster_length |-> NumberIn(obj, "clusterLength", 1),
        is_omni_on |-> mode % 2 = 1, is_poly_mode |-> (mode \div 2) % 2 = 1,
        cluster_type |-> StringIn(obj, "clusterType", <<>>)]

AMetadata(resource) ==
    [resource |-> resource, canGet |-> TRUE, canSet |-> <<"none">>, canSubscribe |-> FALSE,
     requireResId |-> FALSE, mediaTypes |-> << <<"application/json">> >>,
     encodings |-> << <<"ASCII">> >>, schema |-> <<>>, canPaginate |-> FALSE,
     columns |-> <<>>]

\* What the library says of the standard properties; the titles of columns are
\* left out.
Column(name) == [property |-> <<name>>, link |-> <<>>, title |-> <<name>>]
Columns(names) == [i \in DOMAIN names |-> Column(names[i])]
ctrlListColumns ==
    Columns(<<"title", "description", "ctrlType", "ctrlIndex", "channel", "priority",
              "default", "transmit", "recognize", "numSigBits", "typeHint", "ctrlMapId",
              "stepCount", "minMax">>)
stateListMetadata ==
    [AMetadata(<<"StateList">>) EXCEPT !.columns =
        Columns(<<"title", "stateId", "stateRev", "timestamp", "description", "size">>)]
stateMetadata ==
    [AMetadata(<<"State">>) EXCEPT !.canSet = <<"full">>, !.encodings = << <<"Mcoded7">> >>,
        !.mediaTypes = << <<"application/octet-stream">> >>]
allCtrlListMetadata == [AMetadata(<<"AllCtrlList">>) EXCEPT !.columns = ctrlListColumns]
chCtrlListMetadata == [AMetadata(<<"ChCtrlList">>) EXCEPT !.columns = ctrlListColumns]
ctrlMapListMetadata ==
    [AMetadata(<<"CtrlMapList">>) EXCEPT !.columns = Columns(<<"value", "title">>)]
programListMetadata ==
    [AMetadata(<<"ProgramList">>) EXCEPT !.columns =
        Columns(<<"title", "bankPC", "category", "tags">>)]

SchemaOr(v, text) == IF v = Failed THEN text ELSE v
\* Columns are not written; a schema that is JSON is written as such.
MetadataJson(m) ==
    Obj(Always("resource", Str(m.resource))
        @@ When(~ m.canGet, "canGet", Bool(FALSE))
        @@ When(m.canSet # <<"none">>, "canSet", Str(m.canSet))
        @@ When(m.canSubscribe, "canSubscribe", Bool(TRUE))
        @@ When(m.requireResId, "requireResId", Bool(TRUE))
        @@ When(m.mediaTypes # << <<"application/json">> >>, "mediaTypes", Words(m.mediaTypes))
        @@ When(m.encodings # << <<"ASCII">> >>, "encodings", Words(m.encodings))
        @@ When(m.schema # <<>>, "schema", SchemaOr(Parse(m.schema), Str(m.schema)))
        @@ When(m.canPaginate, "canPaginate", Bool(TRUE)))

MetadataOf(obj) ==
    LET usual == AMetadata(<<>>)
        columns == ItemsIn(obj, "columns", "object", <<>>)
    IN [resource |-> StringIn(obj, "resource", <<>>),
        canGet |-> BoolIn(obj, "canGet", TRUE),
        canSet |-> StringIn(obj, "canSet", usual.canSet),
        canSubscribe |-> BoolIn(obj, "canSubscribe", FALSE),
        requireResId |-> BoolIn(obj, "requireResId", FALSE),
        mediaTypes |-> ItemsIn(obj, "mediaTypes", "string", usual.mediaTypes),
        encodings |-> ItemsIn(obj, "encodings", "string", usual.encodings),
        schema |-> StringIn(obj, "schema", <<>>),
        canPaginate |-> BoolIn(obj, "canPaginate", FALSE),
        columns |-> [i \in DOMAIN columns |->
            [property |-> StringIn(columns[i], "property", <<>>),
             link |-> StringIn(columns[i], "link", <<>>),
             title |-> StringIn(columns[i], "title", <<>>)]]]

-----------------------------------------------------------------------------
(* Lists as texts *)

stateListJson(l) == Serialized(Arr([i \in DOMAIN l |-> StateJson(l[i])]))
controlListJson(l) == Serialized(Arr([i \in DOMAIN l |-> ControlJson(l[i])]))
controlMapListJson(l) == Serialized(Arr([i \in DOMAIN l |-> ControlMapJson(l[i])]))
programListJson(l) == Serialized(Arr([i \in DOMAIN l |-> ProgramJson(l[i])]))
resourceListJson(l) == Serialized(Arr([i \in DOMAIN l |-> MetadataJson(l[i])]))

parseStateList(t) == Each(Objects(t), StateOf)
parseControlList(t) == Each(Objects(t), ControlOf)
parseControlMapList(t) == Each(Objects(t), ControlMapOf)
parseProgramList(t) == Each(Objects(t), ProgramOf)
parseChannelList(t) == Each(Objects(t), ChannelOf)
getMetadataListForBody(t) == Each(Objects(t), MetadataOf)

-----------------------------------------------------------------------------
(* The values of a device *)

\* Mutant: any value of the property will do.
ValueForAny(values, id, resId) ==
    LET i == SelectInSeq(values, LAMBDA v : v.id = id)
    IN IF i = 0 THEN <<>> ELSE <<values[i].body>>
\* getCtrlMapList and getState look for the resource id, the other getters
\* take the first value of the property.
ValueFor(values, id, resId) ==
    LET i == SelectInSeq(values, LAMBDA v : v.id = id /\ v.resId = resId)
    IN IF i = 0 THEN <<>> ELSE <<values[i].body>>
ValueOf(values, id) ==
    LET i == SelectInSeq(values, LAMBDA v : v.id = id)
    IN IF i = 0 THEN <<>> ELSE <<values[i].body>>

getStateList(values) == Each(ValueOf(values, "StateList"), parseStateList)
\* getAllCtrlList and getChCtrlList.
getControlList(values, id) == Each(ValueOf(values, id), parseControlList)
getProgramList(values) == Each(ValueOf(values, "ProgramList"), parseProgramList)
getCtrlMapList(values, control) ==
    Each(ValueFor(values, "CtrlMapList", control), parseControlMapList)
\* None when there is no value, or one that is no object.
getDeviceInfo(values) ==
    SelectSeq(Each(ValueOf(values, "DeviceInfo"), parseDeviceInfo), LAMBDA info : info # Failed)
getChannelList(values) ==
    Each(SelectSeq(ValueOf(values, "ChannelList"), LAMBDA t : Parse(t) # Failed),
         parseChannelList)
getState(values, stateId) == ValueFor(values, "State", stateId)

\* setPropertyValue of the host facade, without what it tells others.
SetValue(values, id, resId, body) ==
    LET i == SelectInSeq(values, LAMBDA v : v.id = id /\ v.resId = resId)
    IN IF i = 0 THEN Append(values, [id |-> id, resId |-> resId, body |-> body])
       ELSE [values EXCEPT ![i].body = body]

setStateList(values, l) == SetValue(values, "StateList", "", stateListJson(l))
\* setAllCtrlList and setChCtrlList.
setControlList(values, id, l) == SetValue(values, id, "", controlListJson(l))
setProgramList(values, l) == SetValue(values, "ProgramList", "", programListJson(l))
setCtrlMapList(values, control, l) ==
    SetValue(values, "CtrlMapList", control, controlMapListJson(l))
setState(values, stateId, data) == SetValue(values, "State", stateId, data)
=============================================================================

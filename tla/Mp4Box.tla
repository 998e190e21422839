------------------------------- MODULE Mp4Box -------------------------------
(***************************************************************************)
(* The ISO base media boxes of libs/protocol/mp4: for each class what      *)
(* size() counts, what encode() writes and what decode() reads.            *)
(*                                                                         *)
(* size_, the member that update_size() sets at the start of encode(), is  *)
(* left uninitialised by the constructor and size() adds eight bytes when  *)
(* it is 1; Fresh is what it holds before.  NetBuffer::read_2bytes swaps a *)
(* two-byte value with htonl, which leaves nothing of it: every two-byte   *)
(* field is read as Lost.                                                  *)
(***************************************************************************)
EXTENDS WireFormat, Integers

CONSTANT Fresh      \* what an uninitialised size_ holds

ASSUME FreshAssumption == Fresh \in Nat

Box_size == 8 + (IF Fresh = 1 THEN 8 ELSE 0)

BoxHeader == <<Field("size", 4), Field("type", 4)>>

read_2bytes(name) == Lost(name, 2)

SizeOfKids(kids) == FoldLeft(LAMBDA s, b : s + b.size, 0, kids)

\* A box whose size field holds "field"; n is what its class adds to Box::size,
\* fs its own fields, which come before its children.
BoxWith(t, field, n, fs, rs, ok, kids) ==
    LET bytes == Width(BoxHeader) + Width(fs) + FoldLeft(LAMBDA s, b : s + b.bytes, 0, kids)
        own   == [type |-> t, field |-> field, bytes |-> bytes] IN
        [Format(t, Box_size + n, BoxHeader \o fs \o FlattenSeq([k \in 1..Len(kids) |-> kids[k].writes]),
                BoxHeader \o rs, ok)
            EXCEPT !.bytes = bytes,
                   !.parts = {own} \cup UNION {kids[k].parts : k \in 1..Len(kids)}]

Box(t, n, ws, rs, ok, kids) == BoxWith(t, Box_size + n, n, ws, rs, ok, kids)

FullHeader == <<Field("version", 1), Field("flags", 3)>>

FullBox(t, n, ws, rs, ok, kids) ==
    Box(t, 4 + n, FullHeader \o ws, FullHeader \o rs, ok, kids)

\* A full box whose encode() does not call update_size().
StaleFullBox(t, n, ws, rs) ==
    BoxWith(t, Fresh, 4 + n, FullHeader \o ws, FullHeader \o rs, TRUE, <<>>)

\* MP4BoxFactory::decode_box knows three types; anything else is a null box.
decode_box(box) == box.name \in {"mvhd", "moov", "avcC"} /\ box.ok

\* The children a container's decode() restores: those before the first null.
DecodeKids(kids) ==
    LET n == Max({m \in 0..Len(kids) : \A k \in 1..m : decode_box(kids[k])}) IN
        [reads |-> FlattenSeq([k \in 1..n |-> kids[k].reads]), ok |-> n = Len(kids)]

\* A box that is nothing but its children.
Container(t, kids) ==
    LET d == DecodeKids(kids) IN
        Box(t, SizeOfKids(kids), <<>>, d.reads, d.ok, kids)

Word(name) == Field(name, 4)
Half(name) == Field(name, 2)

-----------------------------------------------------------------------------
(* Media segments.                                                         *)

BrandBox(t, n) ==
    LET fs == <<Word("major_brand"), Word("minor_version")>> \o Repeat(<<Word("brand")>>, n) IN
        Box(t, 4 + 4 + n * 4, fs, fs, TRUE, <<>>)

FtypBox(n) == BrandBox("ftyp", n)
StypBox(n) == BrandBox("styp", n)

MfhdBox == FullBox("mfhd", 4, <<Word("sequence_number")>>, <<Word("sequence_number")>>, TRUE, <<>>)

TfhdFlags == {"base_data_offset", "sample_description_index", "default_sample_duration",
              "default_sample_size", "default_sample_flags"}

TfhdBox(flags) ==
    LET on(f, w) == When(f \in flags, <<Field(f, w)>>)
        fs == <<Word("track_id")>> \o on("base_data_offset", 8)
                \o on("sample_description_index", 4) \o on("default_sample_duration", 4)
                \o on("default_sample_size", 4) \o on("default_sample_flags", 4)
        n  == 4 + (IF "base_data_offset" \in flags THEN 8 ELSE 0)
                + 4 * Cardinality(flags \ {"base_data_offset"}) IN
        FullBox("tfhd", n, fs, fs, TRUE, <<>>)

TfdtBox(version) ==
    LET w == IF version # 0 THEN 8 ELSE 4 IN
        FullBox("tfdt", IF version # 0 THEN 8 ELSE 4, <<Field("base_media_decode_time", w)>>,
                <<Field("base_media_decode_time", w)>>, TRUE, <<>>)

TrunFlags == {"data_offset", "first_sample_flags", "sample_duration", "sample_size",
              "sample_flags", "sample_composition_time_offset"}

TrunEntry_fields(flags) ==
    LET on(f) == When(f \in flags, <<Word(f)>>) IN
        on("sample_duration") \o on("sample_size") \o on("sample_flags")
            \o on("sample_composition_time_offset")

TrunEntry_size_short(flags) ==
    4 * Cardinality(flags \cap {"sample_duration", "sample_size", "sample_flags"})

TrunEntry_size(flags) ==
    4 * Cardinality(flags \cap {"sample_duration", "sample_size", "sample_flags",
                                "sample_composition_time_offset"})

TrunBox(flags, n) ==
    LET on(f) == When(f \in flags, <<Word(f)>>)
        fs == <<Word("entry_count")>> \o on("data_offset") \o on("first_sample_flags")
                \o Repeat(TrunEntry_fields(flags), n)
        s  == 4 + 4 * Cardinality(flags \cap {"data_offset", "first_sample_flags"})
                + n * TrunEntry_size(flags) IN
        FullBox("trun", s, fs, fs, TRUE, <<>>)

TrafBox(tfhd, tfdt, trun) == Container("traf", <<tfhd, tfdt, trun>>)

MoofBox(mfhd, traf) == Container("moof", <<mfhd, traf>>)

\* No decode(): Box::decode reads the header and leaves the data.
MdatBox(sizes) ==
    Box("mdat", FoldLeft(LAMBDA a, b : a + b, 0, sizes),
        [k \in 1..Len(sizes) |-> [Field("data", sizes[k]) EXCEPT !.i = k]], <<>>, TRUE, <<>>)

SegmentIndexEntry ==
    <<Word("reference"), Word("subsegment_duration"), Word("SAP")>>

\* decode() reads every entry into a local variable.
SidxBox(version, n) ==
    LET w    == IF version = 1 THEN 8 ELSE 4
        head == <<Word("reference_id"), Word("timescale"), Field("earliest_presentation_time", w),
                  Field("first_offset", w), Word("entry_count")>> IN
        FullBox("sidx", 8 + (IF version = 1 THEN 16 ELSE 8) + 4 + n * 12,
                head \o Repeat(SegmentIndexEntry, n),
                head \o Repeat(<<Lost("reference", 4), Lost("subsegment_duration", 4),
                                 Lost("SAP", 4)>>, n), TRUE, <<>>)
-----------------------------------------------------------------------------
(* Movie headers.                                                          *)

Times(w) == <<Field("creation_time", w), Field("modification_time", w)>>

Matrix == Repeat(<<Word("matrix")>>, 9)

\* In version 1 decode() reads eight bytes for the four-byte timescale.
MvhdBox(version) ==
    LET w    == IF version = 1 THEN 8 ELSE 4
        tail == Matrix \o <<Pad(24), Word("next_track_ID")>>
        time == Field("timescale", IF version = 1 THEN 8 ELSE 4) IN
        FullBox(IF version = 1 THEN "mvhd version 1" ELSE "mvhd", (IF version = 1 THEN 8 * 3 + 4 ELSE 4 * 4) + 6 + 10 + 9 * 4 + 24 + 4,
                Times(w) \o <<Word("timescale"), Field("duration", w), Word("rate"),
                              Half("volume"), Pad(10)>> \o tail,
                Times(w) \o <<time, Field("duration", w), Word("rate"),
                              read_2bytes("volume"), Pad(10)>> \o tail, TRUE, <<>>)

\* decode() throws for a version above 1.
TkhdBox(version) ==
    LET w    == IF version = 1 THEN 8 ELSE 4
        head == Times(w) \o <<Word("track_ID"), Pad(4), Field("duration", w), Pad(8)>>
        tail == Matrix \o <<Word("width"), Word("height")>> IN
        FullBox("tkhd", (IF version = 1 THEN 32 ELSE 20) + 8 + 8 + 4 * 9 + 8,
                head \o <<Half("layer"), Half("alternate_group"), Half("volume"), Pad(2)>> \o tail,
                head \o <<read_2bytes("layer"), read_2bytes("alternate_group"),
                          read_2bytes("volume"), Pad(2)>> \o tail, version <= 1, <<>>)

MdhdBox(version) ==
    LET w    == IF version = 1 THEN 8 ELSE 4
        head == Times(w) \o <<Word("timescale"), Field("duration", w)>> IN
        FullBox("mdhd", (IF version = 1 THEN 8 * 3 + 4 ELSE 4 * 3 + 4) + 4,
                head \o <<Half("language"), Half("pre_defined")>>,
                head \o <<read_2bytes("language"), read_2bytes("pre_defined")>>, TRUE, <<>>)

\* decode() takes the terminator for a part of the string and skips one more.
HdlrBox(name) ==
    LET head == <<Word("pre_defined"), Word("handler_type")>> IN
        FullBox("hdlr", 20 + name + 1,
                head \o <<Pad(12), Field("name", name), Pad(1)>>,
                head \o <<Pad(12), Lost("name", name + 1), Pad(1)>>, TRUE, <<>>)

VmhdBox ==
    FullBox("vmhd", 8, <<Half("graphicsmode")>> \o Repeat(<<Half("opcolor")>>, 3),
            <<read_2bytes("graphicsmode")>> \o Repeat(<<read_2bytes("opcolor")>>, 3), TRUE, <<>>)

SmhdBox ==
    StaleFullBox("smhd", 4, <<Half("balance"), Half("reserved")>>,
                 <<read_2bytes("balance"), read_2bytes("reserved")>>)

UrlBox(location) ==
    FullBox("url ", location + 1, <<Field("location", location), Pad(1)>>,
            <<Lost("location", location + 1), Pad(1)>>, TRUE, <<>>)

UrnBox(name, location) ==
    LET fs == <<Field("name", name), Pad(1), Field("location", location), Pad(1)>> IN
        StaleFullBox("urn ", name + 1 + location + 1, fs, fs)

\* The entries are null boxes to the factory: decode() fails at the first.
DrefBox(entries) ==
    FullBox("dref", 4 + SizeOfKids(entries),
            <<Word("entry_count")>>, <<Word("entry_count")>>,
            entries = <<>>, entries)

\* decode() does not look at what the decode() of its dref returns.
DinfBox(dref) == Box("dinf", dref.size, <<>>, dref.reads, TRUE, <<dref>>)

ElstEntry_fields(version) ==
    LET w == IF version = 1 THEN 8 ELSE 4 IN
        <<Field("segment_duration", w), Field("media_time", w), Half("media_rate_integer"),
          Half("media_rate_fraction")>>

\* There is no entry count on either side.
ElstBox(version, n) ==
    LET fs == ElstEntry_fields(version) IN
        FullBox("elst", n * (IF version = 1 THEN 20 ELSE 12), Repeat(fs, n),
                Repeat(<<fs[1], fs[2], read_2bytes("media_rate_integer"),
                         read_2bytes("media_rate_fraction")>>, n), TRUE, <<>>)

EdtsBox(elst) == Box("edts", elst.size, <<>>, elst.reads, TRUE, <<elst>>)

-----------------------------------------------------------------------------
(* Sample tables.                                                          *)

\* A list of n entries of m words after its count.
WordTable(t, m, n, names) ==
    LET fs == <<Word("entry_count")>> \o Repeat([k \in 1..Len(names) |-> Word(names[k])], n) IN
        FullBox(t, 4 + n * 4 * m, fs, fs, TRUE, <<>>)

SttsBox(n) == WordTable("stts", 2, n, <<"sample_count", "sample_delta">>)
StscBox(n) == WordTable("stsc", 3, n, <<"first_chunk", "samples_per_chunk", "sample_description_index">>)
StcoBox(n) == WordTable("stco", 1, n, <<"entry">>)
StssBox(n) == WordTable("stss", 1, n, <<"sample">>)

\* decode() reads n sizes although none is written when all samples have one size.
StszBox(n, uniform) ==
    LET head == <<Word("sample_size"), Word("entry_count")>> IN
        FullBox(IF uniform THEN "stsz uniform" ELSE "stsz", 4 + 4 + (IF uniform THEN 0 ELSE 4 * n),
                head \o When(~uniform, Repeat(<<Word("entry_size")>>, n)),
                head \o Repeat(<<Word("entry_size")>>, n), TRUE, <<>>)

\* decode() writes to a vector it has not resized.
Co64Box(n) ==
    FullBox("co64", 4 + n * 8, <<Word("entry_count")>> \o Repeat(<<Field("entry", 8)>>, n),
            <<Word("entry_count")>> \o Repeat(<<Lost("entry", 8)>>, n), TRUE, <<>>)

\* decode() appends the null boxes of the factory and consumes nothing for them.
StsdBox(entries) ==
    FullBox("stsd", 4 + SizeOfKids(entries),
            <<Word("entry_count")>>, <<Word("entry_count")>>,
            TRUE, entries)
-----------------------------------------------------------------------------
(* Sample entries.                                                         *)

AvccBox(config) == Box("avcC", config, <<Field("config", config)>>, <<Field("config", config)>>, TRUE, <<>>)
HvccBox(config) == Box("hvcC", config, <<Field("config", config)>>, <<Field("config", config)>>, TRUE, <<>>)

SampleEntry(t, n, ws, rs, ok, kids) ==
    Box(t, 8 + n, <<Pad(6), Half("data_reference_index")>> \o ws,
        <<Pad(6), read_2bytes("data_reference_index")>> \o rs, ok, kids)

\* size() counts one of avcC and hvcC, encode() writes both.
VisualSampleEntry(t, avcc, hvcc) ==
    LET counted == IF avcc # <<>> THEN avcc ELSE hvcc
        kids    == avcc \o hvcc
        d       == DecodeKids(kids)
        look(H(_)) == <<H("pre_defined1"), H("reserved1")>> \o Repeat(<<Word("pre_defined2")>>, 3)
                     \o <<H("width"), H("height"), Word("horizresolution"), Word("vertresolution"),
                          Word("reserved2"), H("frame_count"), Field("compressorname", 32),
                          H("depth"), H("pre_defined3")>> IN
        SampleEntry(t, 2 + 2 + 3 * 4 + 2 + 2 + 4 + 4 + 4 + 2 + 32 + 2 + 2 + SizeOfKids(counted),
                    look(Half), look(read_2bytes) \o d.reads, d.ok, kids)

AudioSampleEntry(t, esds) ==
    LET head(H(_)) == <<Pad(8), H("channel_count"), H("sample_size"), H("pre_defined"), Pad(2),
                        Word("sample_rate")>> IN
        SampleEntry(t, 20 + esds.size, head(Half),
                    head(read_2bytes) \o esds.reads, TRUE, <<esds>>)

\* The bytes of a descriptor's length, seven bits each; size() counts at least one.
LengthBytes(vlen) == IF vlen < 128 THEN 1 ELSE IF vlen < 16384 THEN 2 ELSE 3

Mp4BaseDescriptor_size(vlen) == 1 + LengthBytes(vlen)

\* encode() writes the low group first and nothing for a length of zero.
Mp4BaseDescriptor_fields(vlen) ==
    <<Field("tag", 1)>> \o When(vlen > 0, <<Field("length", LengthBytes(vlen))>>)

Mp4SLConfigDescriptor ==
    [size |-> Mp4BaseDescriptor_size(1) + 1,
     writes |-> Mp4BaseDescriptor_fields(1) \o <<Field("predefined", 1)>>]

Mp4DecoderSpecificInfo(asc) ==
    [size |-> Mp4BaseDescriptor_size(asc) + asc,
     writes |-> Mp4BaseDescriptor_fields(asc) \o <<Field("asc", asc)>>]

Mp4DecoderConfigDescriptor_fields ==
    <<Field("object_type_indication", 1), Field("stream_type", 1), Field("buffer_size_db", 3),
      Word("max_bitrate"), Word("avg_bitrate")>>

Mp4DecoderConfigDescriptor(info) ==
    LET vlen == 13 + info.size IN
        [size |-> Mp4BaseDescriptor_size(vlen) + vlen,
         writes |-> Mp4BaseDescriptor_fields(vlen) \o Mp4DecoderConfigDescriptor_fields \o info.writes]

ES_Flags == {"dependsOn_ES_ID", "URLstring", "OCR_ES_Id"}

\* The body of the descriptor: decode() expects it without tag and length, so it
\* reads shifted bytes; those happen to be free of flags and continuation bits.
Mp4ES_Descriptor(flags, url, config) ==
    LET on(f) == When(f \in flags, <<Half(f)>>)
        vlen  == 2 + 1 + 2 * Cardinality(flags \ {"URLstring"})
                   + (IF "URLstring" \in flags THEN 1 + url ELSE 0)
                   + config.size + Mp4SLConfigDescriptor.size IN
        [size   |-> Mp4BaseDescriptor_size(vlen) + vlen,
         writes |-> Mp4BaseDescriptor_fields(vlen) \o <<Half("ES_ID"), Field("es_flags", 1)>>
                      \o on("dependsOn_ES_ID")
                      \o When("URLstring" \in flags, <<Field("url_length", 1), Field("URLstring", url)>>)
                      \o on("OCR_ES_Id") \o config.writes \o Mp4SLConfigDescriptor.writes,
         reads  |-> <<read_2bytes("ES_ID"), Lost("es_flags", 1), Lost("tag", 1), Lost("length", 1)>>
                      \o [k \in 1..5 |-> [Mp4DecoderConfigDescriptor_fields[k] EXCEPT !.lost = TRUE]]
                      \o <<Lost("tag", 1), Lost("length", 1), Lost("predefined", 1)>>]

EsdsBox(es) == FullBox("esds", es.size, es.writes, es.reads, TRUE, <<>>)

-----------------------------------------------------------------------------
(* Containers of the movie box.                                            *)

StblBox(kids) == Container("stbl", kids)

MinfBox(kids) == Container("minf", kids)

MdiaBox(hdlr, mdhd, minf) == Container("mdia", <<hdlr, mdhd, minf>>)

TrakBox(tkhd, mdia) == Container("trak", <<tkhd, mdia>>)

TrexBox ==
    LET fs == <<Word("track_ID"), Word("default_sample_description_index"),
                Word("default_sample_duration"), Word("default_sample_size"),
                Word("default_sample_flags")>> IN
        FullBox("trex", 4 * 5, fs, fs, TRUE, <<>>)

MvexBox(kids) == Container("mvex", kids)

MoovBox(kids) == Container("moov", kids)
=============================================================================

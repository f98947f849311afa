------------------------------ MODULE Captions ------------------------------
(***************************************************************************)
(* How the caption of an image travels: as the EXIF tag UserComment of the *)
(* JPEG file, byte for byte as QExifImageHeader writes and reads it.  The  *)
(* apps on phones write their captions to Artist or UserComment, in either *)
(* byte order and among other tags.                                        *)
(*                                                                         *)
(* A JPEG file is the sequence of its segments; the body of an EXIF        *)
(* segment is a sequence of bytes.  A value is [type, numbers]; texts are  *)
(* sequences of bytes (UTF-8).  Thumbnails are left out: the program       *)
(* neither writes nor asks for one.                                        *)
(***************************************************************************)
EXTENDS Integers, Sequences, SequencesExt, TLC

(* QExifValue::Type. *)
Byte == 1
Ascii == 2
Short == 3
Long == 4
Rational == 5
Undefined == 7
SignedLong == 9
SignedRational == 10

(* The bytes of one number, and the numbers of one element. *)
Width(type) == IF type \in {Byte, Ascii, Undefined} THEN 1 ELSE IF type = Short THEN 2 ELSE 4
PerElement(type) == IF type \in {Rational, SignedRational} THEN 2 ELSE 1

Artist == 315
UserComment == 37510
ExifIfdPointer == 34665
GpsInfoIfdPointer == 34853
InteroperabilityIfdPointer == 40965

-----------------------------------------------------------------------------
(* Numbers in a stream.  The order is that of the file, "II" or "MM"; the  *)
(* program runs on machines that are "II".                                 *)

NumberBytes(n, width, order) ==
    LET little == [i \in 1 .. width |-> (n \div 256 ^ (i - 1)) % 256]
    IN  IF order = "II" THEN little ELSE Reverse(little)

NumberOf(bytes, order) ==
    FoldLeft(LAMBDA n, b : 256 * n + b, 0, IF order = "II" THEN Reverse(bytes) ELSE bytes)

(* length bytes after the first from ones; past the end there are zeros. *)
Mid(stream, from, length) ==
    [i \in 1 .. length |-> IF from + i \in DOMAIN stream THEN stream[from + i] ELSE 0]

Zeros(n) == [i \in 1 .. n |-> 0]

-----------------------------------------------------------------------------
(* Values.                                                                 *)

ExifValue(type, numbers) == [type |-> type, numbers |-> numbers]

(* The zero at the end of a text counts. *)
CountOf(v) == IF v.type = Ascii THEN Len(v.numbers) + 1 ELSE Len(v.numbers) \div PerElement(v.type)

ToLong(v) == IF CountOf(v) = 1 /\ v.type \in {Byte, Short, Long, SignedLong} THEN v.numbers[1] ELSE 0

ToByteArray(v) == IF v.type \in {Ascii, Undefined} THEN v.numbers ELSE <<>>

(* The names of text encodings that stand before the text of a value of    *)
(* type Undefined. *)
AsciiEncoding == <<65, 83, 67, 73, 73, 0, 0, 0>>
UndefinedEncoding == Zeros(8)
NoEncoding == <<>>

TextValue(text, encoding) ==
    IF encoding = NoEncoding THEN ExifValue(Ascii, text) ELSE ExifValue(Undefined, encoding \o text)

EncodingOf(v) ==
    IF v.type = Undefined /\ CountOf(v) > 8 /\ SubSeq(v.numbers, 1, 8) \in {AsciiEncoding, UndefinedEncoding}
    THEN SubSeq(v.numbers, 1, 8) ELSE NoEncoding

TextOf(v) ==
    IF v.type = Ascii THEN v.numbers
    ELSE IF EncodingOf(v) # NoEncoding THEN SubSeq(v.numbers, 9, Len(v.numbers)) ELSE <<>>

-----------------------------------------------------------------------------
(* Writing.  A directory is a count, an entry of 12 bytes for each tag, a  *)
(* link of 4 bytes, and then the values that do not fit into their entry.  *)

SizeOfData(v) ==
    LET size == CountOf(v) * PerElement(v.type) * Width(v.type)
    IN  IF size > 4 THEN size ELSE 0

SizeOf(v) == 12 + SizeOfData(v)

Tags(values) == SetToSortSeq(DOMAIN values, LAMBDA a, b : a < b)

Total(Size(_), values) ==
    FoldLeft(LAMBDA n, tag : n + Size(values[tag]), 0, Tags(values))

CalculateDataSize(values) == Total(SizeOfData, values)

CalculateSize(values) == 2 + Total(SizeOf, values) + 4

Encoded(v, order) ==
    FlattenSeq([i \in DOMAIN v.numbers |-> NumberBytes(v.numbers[i], Width(v.type), order)])
        \o (IF v.type = Ascii THEN <<0>> ELSE <<>>)

WriteExifHeader(tag, v, offset, order) ==
    NumberBytes(tag, 2, order) \o NumberBytes(v.type, 2, order) \o NumberBytes(CountOf(v), 4, order)
        \o (IF SizeOfData(v) > 0 THEN NumberBytes(offset, 4, order)
            ELSE Encoded(v, order) \o Zeros(4 - Len(Encoded(v, order))))

WriteExifValue(v, order) == IF SizeOfData(v) > 0 THEN Encoded(v, order) ELSE <<>>

(* Each value is said to lie behind those of the smaller tags. *)
WriteExifHeaders(values, offset, order) ==
    LET before(tag) == {t \in DOMAIN values : t < tag}
        start(tag) == offset + 12 * Len(Tags(values))
                        + CalculateDataSize(Restrict(values, before(tag)))
        tags == Tags(values)
    IN  FlattenSeq([i \in DOMAIN tags |-> WriteExifHeader(tags[i], values[tags[i]], start(tags[i]), order)])

WriteExifValues(values, order) ==
    LET tags == Tags(values)
    IN  FlattenSeq([i \in DOMAIN tags |-> WriteExifValue(values[tags[i]], order)])

(* Mutated form of CorrectedOffset: count and link are forgotten. *)
MutantCorrectedOffset(header, end) == end - CalculateSize(header.exif)

(* Where the values of the EXIF directory are said to lie, less the        *)
(* entries; end is the end of the file. *)
CorrectedOffset(header, end) == (end - CalculateSize(header.exif)) + 2 + 4

(* The part after the image directory's count, without GPS data: the       *)
(* program only ever writes the EXIF directory. *)
Write(header) ==
    LET order   == header.order
        n       == Len(Tags(header.image))
        exifIfd == 8 + 2 + 12 + 4 + 12 * n + CalculateDataSize(header.image)
        end     == exifIfd + CalculateSize(header.exif)
    IN  (IF order = "II" THEN <<73, 73>> ELSE <<77, 77>>)
        \o NumberBytes(42, 2, order) \o NumberBytes(8, 4, order)
        \o NumberBytes(n + 1, 2, order)
        \o WriteExifHeaders(header.image, 8 + 2 + 12 + 4, order)
        \o WriteExifHeader(ExifIfdPointer, ExifValue(Long, <<exifIfd>>), 0, order)
        \o Zeros(4)
        \o WriteExifValues(header.image, order)
        \o NumberBytes(Len(Tags(header.exif)), 2, order)
        \o WriteExifHeaders(header.exif, CorrectedOffset(header, end), order)
        \o Zeros(4)
        \o WriteExifValues(header.exif, order)

-----------------------------------------------------------------------------
(* Reading.                                                                *)

(* operator>>: the last four bytes of an entry are raw bytes, shorts or,   *)
(* whatever the type, a number that is kept in the order of the machine.   *)
ReadIfdHeader(stream, at, order) ==
    LET type  == NumberOf(Mid(stream, at + 2, 2), order)
        count == NumberOf(Mid(stream, at + 4, 4), order)
        field == Mid(stream, at + 8, 4)
        small == IF type = Short THEN count <= 2 ELSE type \in {Byte, Ascii} /\ count <= 4
    IN  [tag |-> NumberOf(Mid(stream, at, 2), order), type |-> type, count |-> count,
         order |-> IF small THEN order ELSE "II",
         field |-> IF small THEN field ELSE NumberBytes(NumberOf(field, order), 4, "II")]

ReadIfdHeaders(stream, at, order) ==
    [i \in 1 .. NumberOf(Mid(stream, at, 2), order) |-> ReadIfdHeader(stream, at + 2 + 12 * (i - 1), order)]

ReadIfdValue(stream, h, order) ==
    LET width  == Width(h.type)
        size   == h.count * PerElement(h.type) * width
        inside == size <= 4 /\ h.type \notin {Rational, SignedRational}
        bytes  == IF inside THEN SubSeq(h.field, 1, size)
                  ELSE Mid(stream, NumberOf(h.field, h.order), size)
        wanted == IF h.type = Ascii THEN size - 1 ELSE size \div width
    IN  ExifValue(h.type, [i \in 1 .. wanted |->
            NumberOf(SubSeq(bytes, width * (i - 1) + 1, width * i), IF inside THEN h.order ELSE order)])

(* A tag that comes twice has the value it came with last. *)
ReadIfdValues(stream, headers, order) ==
    [tag \in {headers[i].tag : i \in DOMAIN headers} |->
        ReadIfdValue(stream, SelectSeq(headers, LAMBDA h : h.tag = tag)
                                [Len(SelectSeq(headers, LAMBDA h : h.tag = tag))], order)]

ReadDirectoryAt(stream, values, pointer, order) ==
    IF pointer \in DOMAIN values /\ values[pointer].type = Long /\ CountOf(values[pointer]) = 1
    THEN ReadIfdValues(stream, ReadIfdHeaders(stream, ToLong(values[pointer]), order), order)
    ELSE <<>>

NoHeader == [image |-> <<>>, exif |-> <<>>, gps |-> <<>>]

Read(stream) ==
    LET order == IF Mid(stream, 0, 2) = <<73, 73>> THEN "II" ELSE "MM"
        at    == NumberOf(Mid(stream, 4, 4), order)
        image == ReadIfdValues(stream, ReadIfdHeaders(stream, at, order), order)
        exif  == ReadDirectoryAt(stream, image, ExifIfdPointer, order)
    IN  IF Mid(stream, 0, 2) \notin {<<73, 73>>, <<77, 77>>} \/ NumberOf(Mid(stream, 2, 2), order) # 42
        THEN NoHeader
        ELSE [image |-> Restrict(image, DOMAIN image \ {ExifIfdPointer, GpsInfoIfdPointer}),
              exif  |-> Restrict(exif, DOMAIN exif \ {InteroperabilityIfdPointer}),
              gps   |-> ReadDirectoryAt(stream, image, GpsInfoIfdPointer, order)]

-----------------------------------------------------------------------------
(* The file around it.                                                     *)

Segment(marker, name, body) == [marker |-> marker, name |-> name, body |-> body]

(* What QImage::save writes. *)
SavedImage == <<Segment("APP0", "JFIF", <<>>), Segment("DQT", "", <<>>), Segment("SOS", "", <<>>)>>

(* An EXIF segment goes behind the JFIF one, or takes the place of the one *)
(* there is, and then has at least its size. *)
SaveToJpeg(file, header) ==
    LET skip == IF file[1].marker = "APP0" THEN 1 ELSE 0
        next == file[skip + 1]
        old  == next.marker = "APP1"
        exif == Write(header)
        padding == IF old /\ Len(next.body) > Len(exif) THEN Zeros(Len(next.body) - Len(exif)) ELSE <<>>
    IN  IF (skip = 1 /\ file[1].name # "JFIF") \/ (old /\ next.name # "Exif") THEN file
        ELSE SubSeq(file, 1, skip) \o <<Segment("APP1", "Exif", exif \o padding)>>
                \o SubSeq(file, skip + (IF old THEN 2 ELSE 1), Len(file))

(* The first APP1 counts; nothing is looked for behind the start of scan. *)
ExtractExif(file) ==
    LET stops == SelectInSeq(file, LAMBDA s : s.marker \in {"APP1", "SOS", "EOI"})
    IN  IF stops # 0 /\ file[stops].marker = "APP1" /\ file[stops].name = "Exif"
        THEN file[stops].body ELSE <<>>

LoadFromJpeg(file) == IF ExtractExif(file) = <<>> THEN NoHeader ELSE Read(ExtractExif(file))

-----------------------------------------------------------------------------
(* SimpleMessageCenter.                                                    *)

EmbedCaptionIntoImage(file, caption) ==
    IF caption = <<>> THEN file
    ELSE SaveToJpeg(file, [order |-> "II", image |-> <<>>,
                           exif |-> (UserComment :> TextValue(caption, NoEncoding))])

(* Mutated form of ParseCaptionFromImage: only the tag of our own captions *)
(* is looked for. *)
MutantParseCaptionFromImage(file) ==
    LET header == LoadFromJpeg(file)
    IN  IF UserComment \in DOMAIN header.exif THEN TextOf(header.exif[UserComment]) ELSE <<>>

ParseCaptionFromImage(file) ==
    LET header == LoadFromJpeg(file)
    IN  IF Artist \in DOMAIN header.image THEN TextOf(header.image[Artist])
        ELSE IF UserComment \in DOMAIN header.exif THEN TextOf(header.exif[UserComment])
        ELSE <<>>

(* An image from a phone: an orientation, a version and a place beside the *)
(* caption, which is a tag of the image or of the EXIF directory. *)
PhoneImage(order, caption, artist, encoding) ==
    LET image  == (274 :> ExifValue(Short, <<6>>))
                    @@ IF artist THEN (Artist :> TextValue(caption, NoEncoding)) ELSE <<>>
        exif   == (36864 :> ExifValue(Undefined, <<48, 50, 51, 48>>)) @@ (33434 :> ExifValue(Rational, <<1, 50>>))
                    @@ IF artist THEN <<>> ELSE (UserComment :> TextValue(caption, encoding))
        gps    == (0 :> ExifValue(Byte, <<2, 3, 0, 0>>)) @@ (2 :> ExifValue(Rational, <<52, 1, 31, 1, 0, 1>>))
        imageEnd == 8 + CalculateSize(image) + 24
        exifEnd  == imageEnd + CalculateSize(exif)
        directory(values, more, at) ==
            NumberBytes(Len(Tags(values)) + Len(more), 2, order)
                \o WriteExifHeaders(values, at + 2 + 12 * Len(more) + 4, order) \o FlattenSeq(more)
                \o Zeros(4) \o WriteExifValues(values, order)
        pointer(tag, at) == WriteExifHeader(tag, ExifValue(Long, <<at>>), 0, order)
    IN  <<Segment("APP1", "Exif",
            (IF order = "II" THEN <<73, 73>> ELSE <<77, 77>>) \o NumberBytes(42, 2, order) \o NumberBytes(8, 4, order)
            \o directory(image, <<pointer(ExifIfdPointer, imageEnd), pointer(GpsInfoIfdPointer, exifEnd)>>, 8)
            \o directory(exif, <<>>, imageEnd) \o directory(gps, <<>>, exifEnd))>> \o Tail(SavedImage)

(* A picture: who wrote its tags ("own" for this program), in which order, *)
(* to which of them ("artist" or "comment"), and the caption. *)
Picture(by, order, caption) == [by |-> by, order |-> order, caption |-> caption]

NoPicture == Picture("nobody", "II", <<>>)

PictureFile(p) ==
    IF p.by = "own" THEN EmbedCaptionIntoImage(SavedImage, p.caption)
    ELSE PhoneImage(p.order, p.caption, p.by = "artist",
                    IF p.order = "II" THEN UndefinedEncoding ELSE AsciiEncoding)

=============================================================================

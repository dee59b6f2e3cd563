------------------------------- MODULE Fields -------------------------------
(***************************************************************************)
(* Header fields of ttpkit (header.rs): HeaderField, HeaderFields with its *)
(* operations, HeaderFieldEncoder and HeaderFieldDecoder.  A field is a    *)
(* record of its name and of its optional value; HeaderFields is the       *)
(* sequence of the fields.                                                 *)
(***************************************************************************)
EXTENDS Ascii

Field(name, value) == [name |-> name, value |-> value]

(* HeaderField::parse: the first colon separates the name from the value.  *)
FieldOf(buf, at) ==
    IF at = None THEN Field(TrimAscii(buf), None)
    ELSE Field(TrimAscii(at[1].start), Some(TrimAscii(at[1].end)))
ParseField(buf) == FieldOf(buf, SplitAt(buf, ":"))

AddField(fields, field) == Append(fields, field)

(* A comparison of the names as they are written.                          *)
RemoveFieldsExact(fields, name) ==
    SelectSeq(fields, LAMBDA f : f.name # name)

RemoveFields(fields, name) ==
    SelectSeq(fields, LAMBDA f : ~EqIgnoreCase(f.name, name))

SetField(fields, field) == Append(RemoveFields(fields, field.name), field)

GetFields(fields, name) ==
    SelectSeq(fields, LAMBDA f : EqIgnoreCase(f.name, name))

LastField(fields, name) ==
    ElementAt(fields,
              SelectLastInSeq(fields, LAMBDA f : EqIgnoreCase(f.name, name)))

ValueOf(field) == IF field = None THEN None ELSE field[1].value
LastValue(fields, name) == ValueOf(LastField(fields, name))

EncodeField(field) ==
    field.name \o (IF field.value = None THEN <<>>
                   ELSE <<":", " ">> \o field.value[1])

ExceedsEqual(length, limit) == limit # None /\ length >= limit[1]

(* A limit is optional: Some(max) or None.                                 *)
Exceeds(length, limit) == limit # None /\ length > limit[1]

(* HeaderFieldDecoder::decode.  A line that starts with whitespace goes on *)
(* with the buffered field; any other line commits it.  HeaderFieldBuffer  *)
(* is the sequence of its bytes: Empty has none, and push ignores empty    *)
(* data.                                                                   *)
PushData(maxLength, data, committed) ==
    [ok |-> ~Exceeds(Len(data), maxLength), buffer |-> data,
     field |-> committed]

DecodeField(maxLength, buffer, line) ==
    IF line # <<>> /\ IsWhitespace(line[1])
    THEN PushData(maxLength, buffer \o TrimAscii(line), None)
    ELSE PushData(maxLength, TrimAscii(line),
             IF buffer = <<>> THEN None ELSE Some(ParseField(buffer)))
=============================================================================

------------------------------ MODULE Multipart ------------------------------
(***************************************************************************)
(* multipart_writer.c and multipart_parser.c: how the client writes a form *)
(* with files, and how the server reads it back.                           *)
(*                                                                         *)
(* A body is a sequence of symbols: "CRLF", "--B" for two dashes and the   *)
(* boundary, "--", the parameters and the type in a part's header, and the *)
(* contents of values.  A form is a sequence of parts, fields first: the   *)
(* order in which the writer goes through its two maps.                    *)
(***************************************************************************)
EXTENDS Integers, Sequences, SequencesExt

CONSTANTS FieldSymbols, FileSymbols,    \* what the values are made of
          MaxValue,                     \* longest value
          MaxParts

VARIABLES parts                         \* [file, name, type, value] each
Names == <<"n1", "n2", "n3">>

(***************************************************************************)
(* multipart_writer.c                                                      *)
(***************************************************************************)
infer_mime_type == "application/octet-stream"
Typed(p) == IF p.type = "none" THEN infer_mime_type ELSE p.type

Field(p) == <<"--B", "CRLF", "name=", p.name, "CRLF", "CRLF">> \o p.value \o <<"CRLF">>

FileUntyped(p) ==                                        \* mutant: no blank line
    <<"--B", "CRLF", "name=", p.name, "filename=", "f", "CRLF", "type:", Typed(p), "CRLF">>
    \o p.value \o <<"CRLF">>

File(p) ==
    <<"--B", "CRLF", "name=", p.name, "filename=", "f", "CRLF", "type:", Typed(p), "CRLF", "CRLF">>
    \o p.value \o <<"CRLF">>

process_multipart ==
    FlattenSeq([i \in DOMAIN parts |-> IF parts[i].file THEN File(parts[i]) ELSE Field(parts[i])])
    \o <<"--B", "--", "CRLF">>

(***************************************************************************)
(* multipart_parser.c                                                      *)
(***************************************************************************)
\* The first place at or after i where pattern stands in s, 0 if there is none
memmem(s, i, pattern) ==
    LET places == {k \in i..Len(s) - Len(pattern) + 1 : SubSeq(s, k, k + Len(pattern) - 1) = pattern}
    IN IF places = {} THEN 0 ELSE CHOOSE k \in places : \A j \in places : k <= j

\* The value of a parameter or of the type, "none" if the header has none
extract_param(header, needle) ==
    LET k == memmem(header, 1, <<needle>>) IN IF k = 0 THEN "none" ELSE header[k + 1]
extract_content_type(header) == extract_param(header, "type:")

\* A text value ends at its first NUL
Text(value) ==
    LET k == memmem(value, 1, <<"nul">>) IN IF k = 0 THEN value ELSE SubSeq(value, 1, k - 1)

\* What a part adds to the result: nothing if it has no blank line or no name
process_part(part) ==
    LET sep == memmem(part, 1, <<"CRLF", "CRLF">>)
        header == SubSeq(part, 1, sep - 1)
        body == SubSeq(part, sep + 2, Len(part))
        name == extract_param(header, "name=")
        type == extract_content_type(header)
    IN CASE sep = 0 \/ name = "none" -> <<>>
         [] extract_param(header, "filename=") # "none" ->
              <<[file |-> TRUE, name |-> name, value |-> body,
                 type |-> IF type = "none" THEN "application/octet-stream" ELSE type]>>
         [] OTHER -> <<[file |-> FALSE, name |-> name, value |-> Text(body), type |-> "none"]>>

crlf_delim == <<"CRLF", "--B">>

\* The parts from the delimiter that ends just before `after`
RECURSIVE Parts(_, _)
Parts(s, after) ==
    LET start == IF after <= Len(s) /\ s[after] = "CRLF" THEN after + 1 ELSE after
        next == memmem(s, start, crlf_delim)
    IN IF (after <= Len(s) /\ s[after] = "--") \/ next = 0 THEN <<>>
       ELSE (IF next > start THEN process_part(SubSeq(s, start, next - 1)) ELSE <<>>)
            \o Parts(s, next + Len(crlf_delim))

Multipart_parse(s) ==
    LET hit == memmem(s, 1, <<"--B">>) IN IF hit = 0 THEN <<>> ELSE Parts(s, hit + 1)

(***************************************************************************)
(* The forms.                                                              *)
(***************************************************************************)
FormInit == parts = <<>>

AddPart ==
    /\ Len(parts) < MaxParts
    /\ \E file \in BOOLEAN, type \in {"none", "image/png"} :
         /\ ~file => type = "none" /\ \A i \in DOMAIN parts : ~parts[i].file
         /\ parts' = Append(parts, [file |-> file, name |-> Names[Len(parts) + 1],
                                    type |-> type, value |-> <<>>])

AddContent ==
    \E i \in DOMAIN parts :
      /\ i = Len(parts) /\ Len(parts[i].value) < MaxValue
      /\ \E c \in IF parts[i].file THEN FileSymbols ELSE FieldSymbols :
           parts' = [parts EXCEPT ![i].value = Append(@, c)]

FormNext == AddPart \/ AddContent

\* What MultipartWriter sends comes back from Multipart_parse part by part: every field
\* and file with its name, type and bytes, empty values and values with line ends and
\* boundaries inside a line included.  Out of the promise are only the values in which a
\* line begins with the boundary: the writer does not choose another one.
FormRoundTrip ==
    LET Torn(p) == memmem(<<"CRLF">> \o p.value, 1, <<"CRLF", "--B">>) # 0
        Sent(p) == [p EXCEPT !.type = IF p.file THEN Typed(p) ELSE "none"]
    IN (\A i \in DOMAIN parts : ~Torn(parts[i]))
         => Multipart_parse(process_multipart) = [i \in DOMAIN parts |-> Sent(parts[i])]
=============================================================================

-------------------------------- MODULE Json --------------------------------
(***************************************************************************)
(* json.c: the parser, the serializer and the comparison of JSON values.   *)
(*                                                                         *)
(* A text is a sequence of symbols.  Most stand for one character; a       *)
(* number, a literal and the five characters of a \u escape are one symbol *)
(* each, and bytes above 0x7F are named by the class (first byte of a      *)
(* range) that the UTF-8 rules tell apart.  The text grows one symbol at a *)
(* time for as long as the parser can still make something of it.          *)
(***************************************************************************)
EXTENDS Integers, Sequences, SequencesExt

CONSTANTS JsonKinds,        \* what a text is made of and how long it grows: [symbols, max]
          MAX_JSON_DEPTH

VARIABLES kind, text
jsonVars == <<kind, text>>

Space == {" ", "nl"}
Control == {"nl", "ctl"}
Cont == {"80", "90", "A0"}
Lead == {"C0", "C2", "E0", "E1", "ED", "F0", "F1", "F4", "F5"}
At(s, i) == IF i <= Len(s) THEN s[i] ELSE "end"
is_valid_boundary(c) == c \in Space \cup {",", "}", "]", "end"}

\* What strtod makes of the number symbols and of the characters it leaves: "lead0" is
\* 01, "point" is 1., "exp" is 1e, "hex" is 0x1, and "long" has more digits than %g prints
Numbers == {"short", "long", "lead0", "point", "exp", "hex"}
strtod(n) == CASE n = "hex" -> "short" [] n = "exp" -> "none" [] OTHER -> n

Fault(i) == [ok |-> FALSE, at |-> i]
Good(v, i) == [ok |-> TRUE, v |-> v, at |-> i]

RECURSIVE skip_ws(_, _)
skip_ws(s, i) == IF At(s, i) \in Space THEN skip_ws(s, i + 1) ELSE i

\* Where the closing quote is, or a Fault: the scan steps over an escaped character
RECURSIVE string_end(_, _)
string_end(s, i) ==
    CASE At(s, i) = "end" -> Fault(i)
      [] At(s, i) = "\"" -> Good({}, i)
      [] At(s, i) = "\\" /\ At(s, i + 1) # "end" -> string_end(s, i + 2)
      [] At(s, i) \in Control -> Fault(i)
      [] OTHER -> string_end(s, i + 1)

\* How many bytes the UTF-8 sequence that starts with c has; 0 if none does
expected_len(c) ==
    CASE c = "C2" -> 2 [] c \in {"E0", "E1", "ED"} -> 3 [] c \in {"F0", "F1", "F4"} -> 4
      [] OTHER -> 0

utf8_ok(s, i, end) ==
    LET n == expected_len(s[i]) IN
    /\ n > 0 /\ i + n <= end
    /\ s[i] = "E0" => s[i + 1] = "A0"
    /\ s[i] = "ED" => s[i + 1] # "A0"
    /\ s[i] = "F0" => s[i + 1] # "80"
    /\ s[i] = "F4" => s[i + 1] = "80"
    /\ \A k \in 1..n - 1 : s[i + k] \in Cont

\* The characters a backslash and the symbols after it stand for, and how many
\* symbols that takes; no characters at all for an invalid escape
escape(s, i, end) ==
    LET c == s[i + 1] IN
    CASE c = "uHI" -> IF i + 3 < end /\ s[i + 2] = "\\" /\ s[i + 3] = "uLO"
                      THEN <<"astral", 4>> ELSE <<"", 2>>
      [] c \in {"uLO", "uBAD"} -> <<"", 2>>
      [] c = "uBMP" -> <<"bmp", 2>>
      [] c = "uNUL" -> <<"nul", 2>>
      [] c = "uCTL" -> <<"ctl", 2>>
      [] c = "n" -> <<"nl", 2>>
      [] OTHER -> <<c, 2>>

RECURSIVE unescape(_, _, _)
unescape(s, i, end) ==
    IF i = end THEN Good(<<>>, end + 1)
    ELSE LET plain == s[i] \notin Cont \cup Lead
             e == IF s[i] = "\\" THEN escape(s, i, end) ELSE <<s[i], 1>>
             n == IF s[i] = "\\" THEN e[2] ELSE IF plain THEN 1 ELSE expected_len(s[i])
             bad == IF s[i] = "\\" THEN e[1] = "" ELSE ~plain /\ ~utf8_ok(s, i, end)
         IN IF bad THEN Fault(i)
            ELSE LET rest == unescape(s, i + n, end)
                     here == IF s[i] = "\\" THEN <<e[1]>> ELSE SubSeq(s, i, i + n - 1)
                 IN IF rest.ok THEN Good(here \o rest.v, end + 1) ELSE rest

parse_string_raw(s, i) ==
    LET end == string_end(s, i + 1) IN
    IF end.ok THEN unescape(s, i + 1, end.at) ELSE end

parse_number(s, i) ==
    LET d == strtod(s[i]) IN
    IF d \in {"lead0", "point", "none"} \/ ~is_valid_boundary(At(s, i + 1)) THEN Fault(i)
    ELSE Good([t |-> "number", v |-> d], i + 1)
CString(chars) == SelectInSeq(chars, LAMBDA c : c = "nul")
Terminated(chars) == IF CString(chars) = 0 THEN chars ELSE SubSeq(chars, 1, CString(chars) - 1)

RECURSIVE parse_value(_, _, _), parse_object(_, _, _, _), parse_array(_, _, _, _)

\* One turn of the loop of parse_array, with the elements read so far
parse_array(s, i, depth, list) ==
    LET j == skip_ws(s, i) IN
    CASE At(s, i) = "end" -> Fault(i)
      [] At(s, j) = "]" -> Good([t |-> "array", v |-> list], j + 1)
      [] OTHER ->
         LET val == parse_value(s, j, depth)
             k == skip_ws(s, val.at)
             next == skip_ws(s, k + 1)
         IN CASE ~val.ok -> val
              [] At(s, k) = "," /\ At(s, next) # "]" ->
                    parse_array(s, next, depth, Append(list, val.v))
              [] At(s, k) = "]" -> parse_array(s, k, depth, Append(list, val.v))
              [] OTHER -> Fault(IF At(s, k) = "," THEN next ELSE k)

\* One turn of the loop of parse_object, with the members read so far; a repeated key
\* keeps the last value (HashMap.put)
parse_object(s, i, depth, map) ==
    LET j == skip_ws(s, i)
        key == parse_string_raw(s, j)
        colon == skip_ws(s, key.at)
        val == parse_value(s, colon + 1, depth)
        k == skip_ws(s, val.at)
        next == skip_ws(s, k + 1)
        name == Terminated(key.v)
        put == [n \in DOMAIN map \cup {name} |-> IF n = name THEN val.v ELSE map[n]]
    IN CASE At(s, i) = "end" -> Fault(i)
         [] At(s, j) = "}" -> Good([t |-> "object", v |-> map], j + 1)
         [] At(s, j) # "\"" -> Fault(j)
         [] ~key.ok -> key
         [] At(s, colon) # ":" -> Fault(colon)
         [] ~val.ok -> val
         [] At(s, k) = "," /\ At(s, next) # "}" -> parse_object(s, next, depth, put)
         [] At(s, k) = "}" -> parse_object(s, k, depth, put)
         [] OTHER -> Fault(IF At(s, k) = "," THEN next ELSE k)

parse_value(s, i, depth) ==
    LET j == skip_ws(s, i)
        c == At(s, j)
        str == parse_string_raw(s, j)
    IN CASE depth > MAX_JSON_DEPTH -> Fault(i)
         [] c = "\"" -> IF str.ok THEN Good([t |-> "string", v |-> str.v], str.at) ELSE str
         [] c \in Numbers -> parse_number(s, j)
         [] c = "{" -> parse_object(s, j + 1, depth + 1, [n \in {} |-> n])
         [] c = "[" -> parse_array(s, j + 1, depth + 1, <<>>)
         [] c \in {"true", "null"} /\ is_valid_boundary(At(s, j + 1)) ->
               Good([t |-> "literal", v |-> c], j + 1)
         [] OTHER -> Fault(j)

parse_JSON(s) ==
    LET root == parse_value(s, 1, 0) IN
    IF root.ok /\ At(s, skip_ws(s, root.at)) # "end" THEN Fault(root.at) ELSE root

\* Mutant: a backslash is written as it is
EscapeQuotes(chars) ==
    LET Escaped(c) == IF c = "\"" THEN <<"\\", c>> ELSE IF c = "nl" THEN <<"\\", "n">> ELSE <<c>>
    IN <<"\"">> \o FlattenSeq([i \in DOMAIN chars |-> Escaped(chars[i])]) \o <<"\"">>

\* Control characters other than the five with a name are written as they are
sb_append_escaped(chars) ==
    LET Escaped(c) == CASE c \in {"\"", "\\"} -> <<"\\", c>>
                        [] c = "nl" -> <<"\\", "n">>
                        [] OTHER -> <<c>>
    IN <<"\"">> \o FlattenSeq([i \in DOMAIN Terminated(chars) |-> Escaped(chars[i])]) \o <<"\"">>

\* %g prints six digits
JsonValue_ToString(v) == IF v.v = "long" THEN <<"short">> ELSE <<v.v>>

Separated(parts) ==
    FlattenSeq([i \in DOMAIN parts |-> IF i = 1 THEN parts[i] ELSE <<",">> \o parts[i]])

RECURSIVE stringify_recursive(_, _)
stringify_recursive(v, depth) ==
    CASE depth > MAX_JSON_DEPTH -> <<"\"", "#", "\"">>
      [] v.t = "string" -> sb_append_escaped(v.v)
      [] v.t \in {"number", "literal"} -> JsonValue_ToString(v)
      [] v.t = "array" ->
           <<"[">> \o Separated([i \in DOMAIN v.v |-> stringify_recursive(v.v[i], depth + 1)])
           \o <<"]">>
      [] v.t = "object" ->
           LET keys == SetToSeq(DOMAIN v.v)
               Member(k) == sb_append_escaped(k) \o <<":">> \o stringify_recursive(v.v[k], depth + 1)
           IN <<"{">> \o Separated([i \in DOMAIN keys |-> Member(keys[i])]) \o <<"}">>

\* Strings are compared up to their terminator
RECURSIVE impl_json_equals(_, _)
impl_json_equals(a, b) ==
    CASE a.t # b.t -> FALSE
      [] a.t \in {"literal", "number"} -> a.v = b.v
      [] a.t = "string" -> Terminated(a.v) = Terminated(b.v)
      [] a.t \in {"array", "object"} ->
           /\ DOMAIN a.v = DOMAIN b.v
           /\ \A k \in DOMAIN a.v : impl_json_equals(a.v[k], b.v[k])

(***************************************************************************)
(* The texts.                                                              *)
(***************************************************************************)
JsonInit == kind \in JsonKinds /\ text = <<>>

\* Two numbers do not stand side by side: they would be one
JsonNext ==
    /\ Len(text) < kind.max
    /\ parse_JSON(text).ok \/ parse_JSON(text).at > Len(text)
    /\ \E c \in kind.symbols :
         /\ c \in Numbers => ~\E n \in Numbers : IsSuffix(<<n>>, text)
         /\ text' = Append(text, c)
    /\ UNCHANGED kind

(***************************************************************************)
(* Properties.                                                             *)
(***************************************************************************)
\* The grammar of JSON, as a reference: a text is a value if it can be cut into one.
\* Beyond RFC 8259 it has a hexadecimal number and, after a backslash, any byte.
Slice(s, i, j) == SubSeq(s, i, j)

Scalar(s) ==
    CASE Len(s) = 1 -> s[1] \notin Control \cup Cont \cup Lead \cup {"\"", "\\"}
      [] Len(s) = 2 -> \/ s[1] = "\\" /\ s[2] \notin {"uHI", "uLO", "uBAD"}
                       \/ s[1] = "C2" /\ s[2] \in Cont
      [] Len(s) = 3 -> /\ s[3] \in Cont
                       /\ <<s[1], s[2]>> \in ({"E1"} \X Cont) \cup ({"E0"} \X {"A0"})
                                            \cup ({"ED"} \X {"80", "90"})
      [] Len(s) = 4 -> \/ /\ {s[3], s[4]} \subseteq Cont
                          /\ <<s[1], s[2]>> \in ({"F1"} \X Cont) \cup ({"F0"} \X {"90", "A0"})
                                               \cup ({"F4"} \X {"80"})
                       \/ s = <<"\\", "uHI", "\\", "uLO">>
      [] OTHER -> FALSE

RECURSIVE IsChars(_), IsValue(_, _), IsList(_, _, _)
IsChars(s) ==
    s = <<>> \/ \E n \in 1..Len(s) : Scalar(Slice(s, 1, n)) /\ IsChars(Slice(s, n + 1, Len(s)))
IsString(s) ==
    Len(s) > 1 /\ s[1] = "\"" /\ s[Len(s)] = "\"" /\ IsChars(Slice(s, 2, Len(s) - 1))
IsBlank(s) == \A i \in DOMAIN s : s[i] \in Space
IsPadded(s, depth) ==
    \E i \in 1..Len(s) : \E j \in i..Len(s) :
       /\ IsBlank(Slice(s, 1, i - 1)) /\ IsBlank(Slice(s, j + 1, Len(s)))
       /\ IsValue(Slice(s, i, j), depth)
IsMember(s, depth) ==
    \E k \in DOMAIN s : /\ s[k] = ":" /\ IsPadded(Slice(s, k + 1, Len(s)), depth)
                         /\ \E i, j \in 1..k - 1 : /\ IsString(Slice(s, i, j))
                                                   /\ IsBlank(Slice(s, 1, i - 1))
                                                   /\ IsBlank(Slice(s, j + 1, k - 1))
IsItem(s, depth, closing) == IF closing = "]" THEN IsPadded(s, depth) ELSE IsMember(s, depth)
IsList(s, depth, closing) ==
    \/ IsItem(s, depth, closing)
    \/ \E k \in DOMAIN s : /\ s[k] = "," /\ IsItem(Slice(s, 1, k - 1), depth, closing)
                            /\ IsList(Slice(s, k + 1, Len(s)), depth, closing)
IsValue(s, depth) ==
    /\ depth <= MAX_JSON_DEPTH
    /\ \/ s \in {<<"true">>, <<"null">>, <<"short">>, <<"long">>, <<"hex">>} \/ IsString(s)
       \/ /\ Len(s) > 1 /\ <<s[1], s[Len(s)]>> \in {<<"[", "]">>, <<"{", "}">>}
          /\ LET inside == Slice(s, 2, Len(s) - 1)
             IN IsBlank(inside) \/ IsList(inside, depth + 1, s[Len(s)])

\* parse_JSON accepts the JSON texts and no others: every nesting of containers and
\* members within the depth limit, every string of well-formed UTF-8 and escapes, white
\* space wherever it may stand, and no trailing commas, lone surrogates, overlong or
\* truncated sequences or garbage after the value.
ParsesJson(root) == root.ok <=> IsPadded(text, 0)

\* The values that impl_stringify writes so that they can be read again
RECURSIVE Printable(_)
PrintableString(chars) ==
    /\ \A i \in DOMAIN chars : chars[i] # "ctl"
    /\ IsChars([i \in DOMAIN chars |-> IF chars[i] \in {"\"", "\\", "nl"} THEN "a" ELSE chars[i]])
Printable(v) ==
    CASE v.t = "string" -> PrintableString(v.v)
      [] v.t = "object" -> \A k \in DOMAIN v.v : PrintableString(k) /\ Printable(v.v[k])
      [] v.t = "array" -> \A k \in DOMAIN v.v : Printable(v.v[k])
      [] OTHER -> v.v # "long"

Survives(first, again) == again.ok /\ impl_json_equals(first, again.v)

\* What is parsed survives impl_stringify and a second parse: equal by impl_json_equals.
\* Out of the promise are numbers with more digits than %g prints, and strings with
\* an unnamed control character or a stray byte that came in escaped: they are written
\* raw and then refused.
JsonRoundTrip(root) ==
    root.ok /\ Printable(root.v) =>
        Survives(root.v, parse_JSON(stringify_recursive(root.v, 0)))

\* Reading accepts JSON and only JSON, and writing undoes it.
JsonExact == LET Exact(root) == ParsesJson(root) /\ JsonRoundTrip(root) IN Exact(parse_JSON(text))
=============================================================================

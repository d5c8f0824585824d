------------------------------- MODULE Codecs -------------------------------
(***************************************************************************)
(* The text conversions: base64, URI escapes, query parameters and the     *)
(* escapes of JSON strings.  They are functions of their input; the        *)
(* behaviours enumerate the inputs, a byte at a time, and the properties   *)
(* compare what comes out with what went in.  A char is its code.          *)
(***************************************************************************)
EXTENDS Naturals, Sequences, SequencesExt, FiniteSetsExt

CONSTANTS Base64Bytes, UriBytes, QueryBytes, JsonBytes,  \* bytes of the inputs
          MaxLen                                         \* bound: their length

VARIABLES codec, text

vars == <<codec, text>>

Byte == 256
-----------------------------------------------------------------------------
(* Base64, with the URL-safe alphabet.                                     *)
code(v) == CASE v < 26 -> 65 + v
             [] v \in 26..51 -> 97 + v - 26
             [] v \in 52..61 -> 48 + v - 52
             [] v = 62 -> 45
             [] v = 63 -> 95

decoder(c) == CASE c = 45 -> 62
                [] c \in 48..57 -> 52 + c - 48
                [] c \in 65..90 -> c - 65
                [] c = 95 -> 63
                [] c \in 97..122 -> 26 + c - 97
                [] OTHER -> 255

Equals == 61

(* Three bytes are four characters of six bits.  (The code ORs the bits,   *)
(* which are apart as long as the characters are of the alphabet.)         *)
EncodeGroup(a, b, c) == LET data == a * 65536 + b * 256 + c
                        IN <<code(data \div 262144), code((data \div 4096) % 64),
                             code((data \div 64) % 64), code(data % 64)>>

last_two_shifted(data) == <<code(data \div 1024), code((data \div 4) % 64), code((data % 16) * 4)>>

last_two(data) == <<code(data \div 1024), code((data \div 16) % 64), code((data % 16) * 4)>>

EncodeRest(rest, padding) ==
    LET pad(k) == IF padding THEN [i \in 1..k |-> Equals] ELSE <<>>
    IN CASE Len(rest) = 0 -> <<>>
         [] Len(rest) = 1 -> <<code(rest[1] \div 4), code((rest[1] % 4) * 16)>> \o pad(2)
         [] Len(rest) = 2 -> last_two(rest[1] * 256 + rest[2]) \o pad(1)

ribs_base64_encode(src, padding) ==
    LET groups == Len(src) \div 3
    IN FlattenSeq([i \in 1..groups |-> EncodeGroup(src[3*i - 2], src[3*i - 1], src[3*i])])
       \o EncodeRest(SubSeq(src, 3 * groups + 1, Len(src)), padding)

(* Padding is stripped by looking two characters back first.               *)
strip_padding(src) ==
    CASE Len(src) > 2 /\ src[Len(src) - 1] = Equals -> SubSeq(src, 1, Len(src) - 2)
      [] Len(src) > 1 /\ src[Len(src)] = Equals     -> SubSeq(src, 1, Len(src) - 1)
      [] OTHER -> src

DecodeGroup(a, b, c, d) == LET data == decoder(a) * 262144 + decoder(b) * 4096
                                       + decoder(c) * 64 + decoder(d)
                           IN <<(data \div 65536) % Byte, (data \div 256) % Byte, data % Byte>>

DecodeRest(rest) ==
    CASE Len(rest) \in {0, 1} -> <<>>
      [] Len(rest) = 2 -> LET data == decoder(rest[1]) * 64 + decoder(rest[2])
                          IN <<(data \div 16) % Byte>>
      [] Len(rest) = 3 -> LET data == decoder(rest[1]) * 4096 + decoder(rest[2]) * 64 + decoder(rest[3])
                          IN <<(data \div 1024) % Byte, (data \div 4) % Byte>>

ribs_base64_decode(src) ==
    LET s == strip_padding(src)
        groups == Len(s) \div 4
    IN FlattenSeq([i \in 1..groups |-> DecodeGroup(s[4*i - 3], s[4*i - 2], s[4*i - 1], s[4*i])])
       \o DecodeRest(SubSeq(s, 4 * groups + 1, Len(s)))
-----------------------------------------------------------------------------
(* URI escapes.                                                            *)
Space == 32
Plus == 43
Percent == 37

(* The set bits of the table `bits'.                                       *)
needs_escape(c) ==
    c \in 0..41 \cup {43, 44, 47} \cup 58..64 \cup 91..94 \cup {96} \cup 123..255

hex_chars(v) == IF v < 10 THEN 48 + v ELSE 65 + v - 10

http_uri_encode(in) ==
    FlattenSeq([i \in 1..Len(in) |->
        CASE in[i] = Space -> <<Plus>>
          [] in[i] # Space /\ needs_escape(in[i]) ->
                <<Percent, hex_chars(in[i] \div 16), hex_chars(in[i] % 16)>>
          [] OTHER -> <<in[i]>>])

hex_val_char(c) == CASE c \in 48..57  -> c - 48
                     [] c \in 65..70  -> c - 65 + 10
                     [] c \in 97..102 -> c - 97 + 10
                     [] OTHER -> 0

(* After '%', one or two digits or, at the end of the string, none.        *)
hex_val(s, p) == CASE p > Len(s) -> 0
                   [] p = Len(s) -> (hex_val_char(s[p]) * 16) % Byte
                   [] OTHER      -> (hex_val_char(s[p]) * 16 + hex_val_char(s[p + 1])) % Byte

http_uri_decode(uri) ==
    LET from[p \in Nat] ==
            CASE p > Len(uri)      -> <<>>
              [] p <= Len(uri) /\ uri[p] = Percent ->
                    <<hex_val(uri, p + 1)>> \o from[Min({p + 3, Len(uri) + 1})]
              [] p <= Len(uri) /\ uri[p] = Plus -> <<Space>> \o from[p + 1]
              [] OTHER -> <<uri[p]>> \o from[p + 1]
    IN from[1]
-----------------------------------------------------------------------------
(* Query parameters.  The string is cut in place at '&' and '=', which are *)
(* put back when the parameter has been decoded.                           *)
Amp == 38

strchrnul(s, p, c) ==
    LET at == {i \in p..Len(s) : s[i] = c \/ s[i] = 0}
    IN IF at = {} THEN Len(s) + 1 ELSE Min(at)

CharAt(s, p) == IF p > Len(s) THEN 0 ELSE s[p]

Put(s, p, c) == IF p > Len(s) THEN s ELSE [s EXCEPT ![p] = c]

(* Without a '=' the two places are the same one.                          *)
put_back(s, p1, c1, p2, c2) == Put(Put(s, p2, c2), p1, c1)

Param(key, value, size) == [key |-> key, value |-> value, size |-> size]

(* The first value of a key stays.                                         *)
insert_new(params, param) ==
    IF \E i \in 1..Len(params) : params[i].key = param.key THEN params ELSE Append(params, param)

RECURSIVE http_uri_decode_query_params(_, _, _)

http_uri_decode_query_params(s, q, params) ==
    IF CharAt(s, q) = 0 THEN [text |-> s, params |-> params]
    ELSE LET p1  == strchrnul(s, q, Amp)
             cut == Put(s, p1, 0)
             p2  == strchrnul(cut, q, Equals)
             val == IF CharAt(cut, p2) = 0 THEN p2 ELSE p2 + 1
             param == Param(SubSeq(cut, q, p2 - 1), http_uri_decode(SubSeq(cut, val, p1 - 1)),
                            p1 - val + 1)
         IN http_uri_decode_query_params(
                put_back(Put(cut, p2, 0), p1, CharAt(s, p1), p2, CharAt(cut, p2)),
                IF CharAt(s, p1) = 0 THEN p1 ELSE p1 + 1,
                insert_new(params, param))
-----------------------------------------------------------------------------
(* Escapes of JSON strings.                                                *)
Quote == 34
Backslash == 92

Letter == [c \in {8, 9, 10, 12, 13} |->
             CASE c = 8 -> 98 [] c = 9 -> 116 [] c = 10 -> 110 [] c = 12 -> 102 [] c = 13 -> 114]

json_escape_str(s) ==
    FlattenSeq([i \in 1..Len(s) |->
        CASE s[i] \in {Quote, Backslash, 47}  -> <<Backslash, s[i]>>
          [] s[i] \in DOMAIN Letter -> <<Backslash, Letter[s[i]]>>
          [] OTHER -> <<s[i]>>])

table(c) == CASE c = 98 -> 8 [] c = 102 -> 12 [] c = 110 -> 10
              [] c = 114 -> 13 [] c = 116 -> 9 [] c = 118 -> 11 [] OTHER -> c

(* What is written, and where the reading stops: past the end of the       *)
(* string if its last character is a lone backslash.                       *)
json_unescape_str(s) ==
    LET from[p \in Nat] ==
            CASE p > Len(s) -> [out |-> <<>>, stop |-> p]
              [] p <= Len(s) /\ s[p] = Backslash ->
                    [out |-> <<table(CharAt(s, p + 1))>> \o from[p + 2].out, stop |-> from[p + 2].stop]
              [] OTHER -> [out |-> <<s[p]>> \o from[p + 1].out, stop |-> from[p + 1].stop]
    IN from[1]

(* Where the closing quote is, or 0 if the string has none.                *)
json_parse_string(s) ==
    LET from[p \in Nat] ==
            CASE p > Len(s) -> 0
              [] p <= Len(s) /\ s[p] = Quote -> p
              [] p <= Len(s) /\ s[p] = Backslash -> IF p = Len(s) THEN 0 ELSE from[p + 2]
              [] OTHER -> from[p + 1]
    IN from[1]
-----------------------------------------------------------------------------
Bytes == CASE codec = "base64" -> Base64Bytes
           [] codec = "uri"    -> UriBytes
           [] codec = "query"  -> QueryBytes
           [] codec = "json"   -> JsonBytes

Init == codec \in {"base64", "uri", "query", "json"} /\ text = <<>>

Longer(b) == text' = Append(text, b) /\ UNCHANGED codec

Next == Len(text) < MaxLen /\ \E b \in Bytes : Longer(b)

Spec == Init /\ [][Next]_vars
-----------------------------------------------------------------------------
(* What ribs_base64_encode writes, with padding or without, is what        *)
(* ribs_base64_decode takes back, whatever the length leaves over.         *)
Base64RoundTrip ==
    codec = "base64" =>
        \A padding \in BOOLEAN : ribs_base64_decode(ribs_base64_encode(text, padding)) = text

(* http_uri_decode undoes http_uri_encode, which stays within the three    *)
(* bytes per character it reserved.                                        *)
UriRoundTrip ==
    codec = "uri" =>
        /\ http_uri_decode(http_uri_encode(text)) = text
        /\ Len(http_uri_encode(text)) <= 3 * Len(text)

Query == http_uri_decode_query_params(text, 1, <<>>)

(* Splitting a query leaves the string as it was, keeps one value per key  *)
(* and never decodes more bytes than were allocated for the value.         *)
QueryIntact ==
    codec = "query" =>
        /\ Query.text = text
        /\ \A i, j \in 1..Len(Query.params) :
               i < j => Query.params[i].key # Query.params[j].key
        /\ \A i \in 1..Len(Query.params) :
               Len(Query.params[i].value) + 1 <= Query.params[i].size

(* The parameters are the pieces between '&'s, each split at its first     *)
(* '=', of which the first of every key counts.                            *)
Cuts == {0, Len(text) + 1} \cup {i \in 1..Len(text) : text[i] = Amp}

Pieces == {<<a + 1, b - 1>> : a \in Cuts, b \in Cuts}

QueryParams ==
    codec = "query" =>
        LET piece == {p \in Pieces : p[1] <= p[2] + 1 /\ p[1] <= Len(text)
                                     /\ \A i \in p[1]..p[2] : text[i] # Amp}
            Split(p) == Min({i \in p[1]..p[2] : text[i] = Equals} \cup {p[2] + 1})
            KeyOf(p) == SubSeq(text, p[1], Split(p) - 1)
            first == {p \in piece : \A q \in piece : KeyOf(q) = KeyOf(p) => p[1] <= q[1]}
        IN {<<KeyOf(p), http_uri_decode(SubSeq(text, Split(p) + 1, p[2]))>> : p \in first}
           = {<<Query.params[i].key, Query.params[i].value>> : i \in 1..Len(Query.params)}

(* An escaped string fits in twice its length, ends at its closing quote   *)
(* for json_parse_string, and unescapes to what it was.                    *)
JsonRoundTrip ==
    codec = "json" =>
        LET escaped == json_escape_str(text)
        IN /\ Len(escaped) <= 2 * Len(text)
           /\ json_parse_string(escaped \o <<Quote>> \o text) = Len(escaped) + 1
           /\ json_unescape_str(escaped).out = text

(* Unescaping in place a string that json_parse_string accepted never      *)
(* reads past its end.                                                     *)
UnescapeStaysInside ==
    codec = "json" =>
        LET close == json_parse_string(text)
        IN close # 0 => json_unescape_str(SubSeq(text, 1, close - 1)).stop = close
=============================================================================

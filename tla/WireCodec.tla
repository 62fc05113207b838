----------------------------- MODULE WireCodec -----------------------------
(***************************************************************************)
(* Primitive encodings of the IPC parcel (ipc_rust MsgParcel) as used by   *)
(* ipc_conn: fixed-width scalars, UTF-16 strings (String16), byte vectors, *)
(* and the count-prefixed sequences and string-keyed maps of               *)
(* vec_raw_write / vec_raw_read and string_hash_map_raw_write /            *)
(* string_hash_map_raw_read.                                               *)
(*                                                                         *)
(* A parcel is a sequence of tokens <<kind, value>>: "w32" (i32, u32 and   *)
(* bool, all four bytes wide), "w64" (i64, u64), "f64", "str" (the UTF-16  *)
(* code units of a String16) and "bytes" (a Vec<u8>).  A read at position  *)
(* i returns [ok, val, next]; reading past the end, or a token of another  *)
(* width, fails.  A w32 token holds the i32 reading of its four bytes;     *)
(* reads as u32 compare against small codes only, so the two readings      *)
(* agree on every code the decoders accept.                                *)
(*                                                                         *)
(* Strings are sequences of Unicode code points.                           *)
(***************************************************************************)
EXTENDS Integers, Sequences, FiniteSets, SequencesExt

Failed == [ok |-> FALSE, val |-> <<>>, next |-> 0]

Ok(v, n) == [ok |-> TRUE, val |-> v, next |-> n]

\* The decoder panicked (a Rust panic unwinds out of the read): not an
\* error the caller can handle.
Panicked == [ok |-> FALSE, val |-> <<>>, next |-> -1]

IsPanic(r) == r.next = -1

\* Applies a constructor to the value of a successful read.
Wrap(Con(_), r) == IF r.ok THEN Ok(Con(r.val), r.next) ELSE Failed

(***************************************************************************)
(* Scalars                                                                 *)
(***************************************************************************)

W32(n) == <<"w32", n>>
W64(n) == <<"w64", n>>
F64(x) == <<"f64", x>>
Bytes(b) == <<"bytes", b>>

\* bool is written as a four-byte 0 / 1.
WBool(b) == W32(IF b THEN 1 ELSE 0)

ReadTok(p, i, kind) ==
    IF i \in DOMAIN p /\ p[i][1] = kind THEN Ok(p[i][2], i + 1) ELSE Failed

ReadW32(p, i) == ReadTok(p, i, "w32")
ReadW64(p, i) == ReadTok(p, i, "w64")
ReadF64(p, i) == ReadTok(p, i, "f64")
ReadBytes(p, i) == ReadTok(p, i, "bytes")

\* A bool is read as "the four bytes are not zero".
ReadBool(p, i) == LET r == ReadW32(p, i) IN Wrap(LAMBDA v : v # 0, r)

(***************************************************************************)
(* String16: UTF-8 strings travel as UTF-16 code units                     *)
(***************************************************************************)

HighSurrogates == 55296 .. 56319     \* 0xD800 .. 0xDBFF
LowSurrogates == 56320 .. 57343      \* 0xDC00 .. 0xDFFF

\* String16::new: each code point becomes one unit, or a surrogate pair
\* when it lies outside the Basic Multilingual Plane.
Utf16(s) ==
    FlattenSeq([i \in 1 .. Len(s) |->
        IF s[i] < 65536 THEN <<s[i]>>
        ELSE <<55296 + (s[i] - 65536) \div 1024,
               56320 + ((s[i] - 65536) % 1024)>>])

\* String16::get_string: surrogate pairs are joined; a lone surrogate is
\* not a string and fails the read.
RECURSIVE FromUtf16(_)
FromUtf16(u) ==
    IF u = <<>> THEN [ok |-> TRUE, val |-> <<>>]
    ELSE IF Len(u) >= 2 /\ u[1] \in HighSurrogates /\ u[2] \in LowSurrogates
    THEN LET rest == FromUtf16(Tail(Tail(u)))
         IN [ok |-> rest.ok,
             val |-> <<65536 + (u[1] - 55296) * 1024 + (u[2] - 56320)>>
                        \o rest.val]
    ELSE IF u[1] \in HighSurrogates \cup LowSurrogates
    THEN [ok |-> FALSE, val |-> <<>>]
    ELSE LET rest == FromUtf16(Tail(u))
         IN [ok |-> rest.ok, val |-> <<u[1]>> \o rest.val]

Str(s) == <<"str", Utf16(s)>>

ReadStr(p, i) ==
    LET t == ReadTok(p, i, "str")
        d == FromUtf16(t.val)
    IN IF t.ok /\ d.ok THEN Ok(d.val, t.next) ELSE Failed

(***************************************************************************)
(* Sequences: an i32 count, then the elements in order                     *)
(***************************************************************************)

EncVec(s, Enc(_)) ==
    <<W32(Len(s))>> \o FlattenSeq([i \in 1 .. Len(s) |-> Enc(s[i])])

RECURSIVE ReadElems(_, _, _, _, _)
ReadElems(p, i, n, Dec(_, _), acc) ==
    IF n <= 0 THEN Ok(acc, i)
    ELSE LET e == Dec(p, i)
         IN IF e.ok THEN ReadElems(p, e.next, n - 1, Dec, Append(acc, e.val))
                    ELSE e

DecVec(p, i, Dec(_, _)) ==
    LET n == ReadW32(p, i)
    IN IF n.ok /\ n.val >= 0 THEN ReadElems(p, n.next, n.val, Dec, <<>>)
                             ELSE Failed

(***************************************************************************)
(* String-keyed maps: an i32 count, then key and value per entry           *)
(***************************************************************************)

\* HashMap iteration order is unspecified: every order of the keys is a
\* possible encoding.
EncMaps(m, Enc(_)) ==
    LET n == Cardinality(DOMAIN m)
    IN { <<W32(n)>> \o FlattenSeq([i \in 1 .. n |-> <<Str(o[i])>> \o Enc(m[o[i]])])
         : o \in SetToSeqs(DOMAIN m) }

\* Adds the entry k |-> v to the map m.
Insert(m, k, v) == [x \in DOMAIN m \cup {k} |-> IF x = k THEN v ELSE m[x]]

RECURSIVE ReadEntries(_, _, _, _, _)
ReadEntries(p, i, n, Dec(_, _), acc) ==
    IF n <= 0 THEN Ok(acc, i)
    ELSE LET k == ReadStr(p, i)
             v == Dec(p, k.next)
         IN CASE ~k.ok -> Failed
              [] k.val \in DOMAIN acc -> Failed   \* duplicate key rejected
              [] ~v.ok -> v
              [] OTHER -> ReadEntries(p, v.next, n - 1, Dec, Insert(acc, k.val, v.val))

DecMap(p, i, Dec(_, _)) ==
    LET n == ReadW32(p, i)
    IN IF n.ok /\ n.val >= 0 THEN ReadEntries(p, n.next, n.val, Dec, <<>>)
                             ELSE Failed

=============================================================================

-------------------------------- MODULE Mixed --------------------------------
(***************************************************************************)
(* src/mixed.rs: Python values to bytes (pack_value, pack_mixed), and bytes  *)
(* to Python values by the tags of a schema (unpack_one, which read and      *)
(* pop use, and unpack_mixed_counted, which read_mixed and pop_mixed use).   *)
(*                                                                          *)
(* Nothing in the bytes says what they are.  The two unpackers are written   *)
(* apart in the code, each with its own table of tags and its own checks,    *)
(* and so they are here.                                                    *)
(*                                                                          *)
(* A byte is a digit below Base; the 4-byte and 8-byte numbers have Word and *)
(* Long digits, the lowest first.  A float is its bits.  A Python value is   *)
(* its type and a sequence of integers: the number, the bits, or the bytes.  *)
(***************************************************************************)
EXTENDS Integers, Sequences, SequencesExt

CONSTANTS
  Base,     \* values of a byte (256)
  Word,     \* bytes of f32, i32, u32 and of a length prefix (4)
  Long      \* bytes of f64, i64, u64 (8)

ASSUME WidthAssumption ==
  Base \in Nat \ {0, 1} /\ Word \in Nat /\ Long \in Nat /\ 1 < Word /\ Word < Long

Byte == 0 .. Base - 1
Value(type, val) == [type |-> type, val |-> val]

\* Span[w]: how many numbers have w digits.
Span[w \in 0 .. Long] == IF w = 0 THEN 1 ELSE Base * Span[w - 1]

-----------------------------------------------------------------------------
(* Numbers.                                                                 *)

\* to_ne_bytes and from_ne_bytes, of unsigned numbers and of two's complement.
Digits(n, w) == [i \in 1 .. w |-> (n \div Span[i - 1]) % Base]
Unsigned(b) ==
  LET sum[i \in 0 .. Len(b)] == IF i = 0 THEN 0 ELSE sum[i - 1] + b[i] * Span[i - 1]
  IN  sum[Len(b)]
Signed(b) ==
  LET n == Unsigned(b) IN IF 2 * n >= Span[Len(b)] THEN n - Span[Len(b)] ELSE n
IsI64(n) == -Span[Long] <= 2 * n /\ 2 * n < Span[Long]

\* What Python makes of the u8, i32, ... that was read.
Number(tag, b) ==
  CASE tag = "bool" -> Value("bool", IF b[1] # 0 THEN <<1>> ELSE <<0>>)
    [] tag \in {"u8", "u32", "u64"} -> Value("int", <<Unsigned(b)>>)
    [] tag \in {"int", "i32", "i64"} -> Value("int", <<Signed(b)>>)
    [] tag \in {"float", "f32", "f64"} -> Value("float", b)

\* String::from_utf8_lossy; the highest byte is never part of a string's UTF-8.
Replacement == -1
Lossy(b) == [i \in 1 .. Len(b) |-> IF b[i] = Base - 1 THEN Replacement ELSE b[i]]

\* The Python values: the bytes of a string are UTF-8, fewer than a prefix can count;
\* "none" is any type that is not supported.
Text == {b \in Seq(0 .. Base - 2) : Len(b) < Span[Word]}
PyValue ==
  [type : {"bool"}, val : {<<0>>, <<1>>}] \cup [type : {"int"}, val : [1 .. 1 -> Int]] \cup
  [type : {"float"}, val : [1 .. Long -> Byte]] \cup [type : {"str"}, val : Text] \cup
  [type : {"bytes", "bytearray"}, val : Seq(Byte)] \cup [type : {"none"}, val : {<<>>}]

-----------------------------------------------------------------------------
(* Packing.                                                                 *)

NotPacked == [ok |-> FALSE, bytes |-> <<>>]
Packed(b) == [ok |-> TRUE, bytes |-> b]

\* v.cast::<T>(): Python's bool is a subclass of int.
Is(v, type) == v.type = type \/ (type = "int" /\ v.type = "bool")

PackInt(v) == IF IsI64(v.val[1]) THEN Packed(Digits(v.val[1], Long)) ELSE NotPacked

PackValueIntFirst(v) ==
  IF Is(v, "int") THEN PackInt(v)
  ELSE IF Is(v, "bool") THEN Packed(v.val)
  ELSE IF Is(v, "str") THEN Packed(Digits(Len(v.val), Word) \o v.val)
  ELSE IF Is(v, "float") \/ Is(v, "bytes") \/ Is(v, "bytearray") THEN Packed(v.val)
  ELSE NotPacked

\* pack_value: the first type that fits; bytes get no length prefix.
PackValue(v) ==
  IF Is(v, "bool") THEN Packed(v.val)
  ELSE IF Is(v, "int") THEN PackInt(v)
  ELSE IF Is(v, "str") THEN Packed(Digits(Len(v.val), Word) \o v.val)
  ELSE IF Is(v, "float") \/ Is(v, "bytes") \/ Is(v, "bytearray") THEN Packed(v.val)
  ELSE NotPacked

\* pack_mixed: an item is a value, here a list of one, or a list of values; the bytes
\* do not tell.  (A list in such a list is a value of no supported type.)
PackMixed(items) ==
  LET values == FlattenSeq(items)
      packed == [i \in 1 .. Len(values) |-> PackValue(values[i])]
  IN  IF \A i \in 1 .. Len(values) : packed[i].ok
      THEN Packed(FlattenSeq([i \in 1 .. Len(values) |-> packed[i].bytes]))
      ELSE NotPacked

-----------------------------------------------------------------------------
(* unpack_one.                                                              *)

Failed == [ok |-> FALSE, values |-> <<>>, used |-> 0]
ReadAs(v, n) == [ok |-> TRUE, values |-> <<v>>, used |-> n]

OneNumber(data, tag, w) ==
  IF Len(data) < w THEN Failed ELSE ReadAs(Number(tag, SubSeq(data, 1, w)), w)

OneStrNoPrefix(data) ==
  LET len == Unsigned(SubSeq(data, 1, Word)) IN
  IF Len(data) < Word \/ Len(data) < Word + len THEN Failed
  ELSE ReadAs(Value("str", Lossy(SubSeq(data, Word + 1, Word + len))), len)

OneStr(data) ==
  LET len == Unsigned(SubSeq(data, 1, Word)) IN
  IF Len(data) < Word \/ Len(data) < Word + len THEN Failed
  ELSE ReadAs(Value("str", Lossy(SubSeq(data, Word + 1, Word + len))), Word + len)

UnpackOne(data, tag) ==
  CASE tag \in {"bool", "u8"} -> OneNumber(data, tag, 1)
    [] tag \in {"f32", "i32", "u32"} -> OneNumber(data, tag, Word)
    [] tag \in {"int", "float", "i64", "f64", "u64"} -> OneNumber(data, tag, Long)
    [] tag = "str" -> OneStr(data)
    [] OTHER -> Failed

-----------------------------------------------------------------------------
(* unpack_mixed_counted.  The loops go on from a state of the call: the       *)
(* group being read, the groups before it and the cursor.                   *)

Reading == [ok |-> TRUE, cursor |-> 0, group |-> <<>>, result |-> <<>>]
Fail(s) == [s EXCEPT !.ok = FALSE]

\* check_bounds, and what the element is then read from.
Has(data, s, n) == s.cursor + n <= Len(data)
Slice(data, s, n) == SubSeq(data, s.cursor + 1, s.cursor + n)

Advanced(s, v, n) == [s EXCEPT !.group = Append(@, v), !.cursor = @ + n]

NextNumber(data, tag, w, s) ==
  IF Has(data, s, w) THEN Advanced(s, Number(tag, Slice(data, s, w)), w) ELSE Fail(s)

NextStrClamped(data, s) ==
  IF ~Has(data, s, Word) THEN Fail(s)
  ELSE LET t == [s EXCEPT !.cursor = @ + Word]
           left == Len(data) - t.cursor
           len == Unsigned(Slice(data, s, Word))
           taken == IF len <= left THEN len ELSE left
       IN  Advanced(t, Value("str", Lossy(Slice(data, t, taken))), taken)

\* A string: the cursor is past the prefix when the length is checked.
NextStr(data, s) ==
  IF ~Has(data, s, Word) THEN Fail(s)
  ELSE LET len == Unsigned(Slice(data, s, Word))
           t == [s EXCEPT !.cursor = @ + Word]
       IN  IF Has(data, t, len) THEN Advanced(t, Value("str", Lossy(Slice(data, t, len))), len)
           ELSE Fail(t)

\* The next element, unless an earlier one failed.
NextElement(data, tag, s) ==
  IF ~s.ok THEN s ELSE
  CASE tag \in {"bool", "u8"} -> NextNumber(data, tag, 1, s)
    [] tag \in {"f32", "i32", "u32"} -> NextNumber(data, tag, Word, s)
    [] tag \in {"int", "i64", "float", "f64", "u64"} -> NextNumber(data, tag, Long, s)
    [] tag = "str" -> NextStr(data, s)

KnownTags ==
  {"bool", "u8", "f32", "i32", "u32", "int", "i64", "float", "f64", "u64", "str"}

\* One schema entry: `count` elements, the first that fails ends the call.  A count
\* of 1 gives the bare value.  A tag is looked up even if the count is 0.  (An entry
\* that is no tuple of a string and a count is refused like one with a tag nobody knows.)
UnpackEntry(data, s, entry) ==
  LET read[i \in 0 .. entry.count] ==
        IF i = 0 THEN [s EXCEPT !.group = <<>>] ELSE NextElement(data, entry.tag, read[i - 1])
      all == read[entry.count]
  IN  IF ~s.ok \/ entry.tag \notin KnownTags THEN Fail(s)
      ELSE [all EXCEPT !.result = Append(@, [bare |-> entry.count = 1, values |-> all.group])]

UnpackMixed(data, schema) ==
  LET entries[i \in 0 .. Len(schema)] ==
        IF i = 0 THEN Reading ELSE UnpackEntry(data, entries[i - 1], schema[i])
      s == entries[Len(schema)]
  IN  IF s.ok THEN [ok |-> TRUE, groups |-> s.result, used |-> s.cursor]
      ELSE [ok |-> FALSE, groups |-> <<>>, used |-> 0]

=============================================================================

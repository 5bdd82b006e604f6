------------------------------- MODULE Serializer ------------------------------
(***************************************************************************)
(* serialize/serializer.rs: the bytes to_bytes may write for a value of a  *)
(* type.  There are several where a HashSet is walked, whose order is      *)
(* random; there are none where to_bytes panics.                           *)
(***************************************************************************)
EXTENDS WireTypes, SequencesExt

(***************************************************************************)
(* write_u16::<NetworkEndian> and its siblings, for every width.           *)
(***************************************************************************)
BigEndian(n, bytes) == [i \in 1 .. bytes |-> (n \div Base ^ (bytes - i)) % Base]

(***************************************************************************)
(* serialize_bytes: one byte of length, so that a longer text is an Err,   *)
(* on which to_bytes panics.                                               *)
(***************************************************************************)
TextBytes(s) == IF Len(s) < Base THEN {<<Len(s)>> \o s} ELSE {}

After(prefix, tails) == {prefix \o tail : tail \in tails}

(***************************************************************************)
(* The elements of a SerializeSeq, SerializeStruct, ...: one after the     *)
(* other, nothing in between and nothing at the end.                       *)
(***************************************************************************)
InOrder(parts) ==
  FoldLeft(LAMBDA done, part : {a \o b : a \in done, b \in part}, {<<>>}, parts)

Ascending(keys) == SetToSortSeq(keys, <)

RECURSIVE Encodings(_, _)

EncodedEach(ts, vs) == InOrder([i \in DOMAIN vs |-> Encodings(ts[i], vs[i])])

EncodedEntries(t, map) ==
  InOrder([i \in 1 .. Cardinality(DOMAIN map) |->
             LET key == Ascending(DOMAIN map)[i]
             IN  InOrder(<<Encodings(t.key, key), Encodings(t.of, map[key])>>)])

Encodings(t, v) ==
  CASE t.kind = "uint" -> {BigEndian(v, t.width)}
    [] t.kind = "int" -> {BigEndian(v % Base ^ t.width, t.width)}
    [] t.kind = "bool" -> {<<IF v THEN 1 ELSE 0>>}
    [] t.kind = "unit" -> {<<0>>}
    [] t.kind = "str" -> TextBytes(v)
    [] t.kind = "addr" -> TextBytes(ShowAddress[v])
    [] t.kind = "option" ->
         IF v = <<>> THEN {<<0>>} ELSE After(<<1>>, Encodings(t.of, v[1]))
    [] t.kind = "seq" ->
         After(BigEndian(Len(v), 4), EncodedEach([i \in DOMAIN v |-> t.of], v))
    [] t.kind = "set" ->
         UNION {Encodings(Vec(t.of), order) : order \in SetToSeqs(v)}
    [] t.kind = "map" ->
         After(BigEndian(Cardinality(DOMAIN v), 4), EncodedEntries(t, v))
    [] t.kind = "struct" -> EncodedEach(t.fields, v)
    [] t.kind = "enum" ->
         LET i == CHOOSE i \in DOMAIN t.variants : t.variants[i].name = Head(v)
         IN  After(<<i - 1>>, EncodedEach(t.variants[i].fields, Tail(v)))
================================================================================

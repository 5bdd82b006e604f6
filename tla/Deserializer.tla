------------------------------ MODULE Deserializer -----------------------------
(***************************************************************************)
(* serialize/deserializer.rs: a Deserializer at work on an input of which  *)
(* more may arrive, a socket, or not, a Cursor.  The call stack of the     *)
(* deserialize_ functions is explicit: focus is what the innermost call    *)
(* does, frames are the Counted and Variant accesses it was called from.   *)
(* A read_exact is one action; it waits for all of its bytes.              *)
(***************************************************************************)
EXTENDS WireTypes, SequencesExt

VARIABLES
  input,  \* the bytes that have arrived and are not read
  closed, \* whether no more will arrive
  taken,  \* the bytes of the current message that are read
  focus,  \* a type to read, a value or an error to return, or "more"
  frames  \* the accesses that wait for it, the innermost last

deserializerVars == <<input, closed, taken, focus, frames>>

ToRead(t) == [at |-> "type", type |-> t]
Returned(v) == [at |-> "value", value |-> v]
Failed(e) == [at |-> "error", error |-> e]
More == [at |-> "more"]

(***************************************************************************)
(* DeserError, as far as reading can end in it.  Decoding is serde's       *)
(* custom error: no such variant, no such address.                         *)
(***************************************************************************)
DeserError ==
  {"UnexpectedEof", "InvalidBool", "InvalidUnit", "InvalidOption",
   "Utf8", "Decoding", "TrailingData"}

(***************************************************************************)
(* Counted: of length elements, index are read, got is what they were.     *)
(***************************************************************************)
Counted(t, n) == [type |-> t, length |-> n, index |-> 0, got |-> <<>>]

Start(t) == /\ taken' = <<>>
            /\ focus' = ToRead(t)
            /\ frames' = <<>>

Done == focus.at = "value" /\ frames = <<>>
Refused == focus.at = "error"

--------------------------------------------------------------------------------
(***************************************************************************)
(* The bytes that the first read of a type asks for.  The contents of a    *)
(* text are read apart from their length.                                  *)
(***************************************************************************)
Width(t) ==
  CASE t.kind \in {"uint", "int"} -> t.width
    [] t.kind \in {"seq", "set", "map"} -> 4
    [] t.kind = "contents" -> t.length
    [] t.kind = "struct" -> 0
    [] OTHER -> 1

Asked == SubSeq(input, 1, Width(focus.type))

\* Mutant: the least significant byte first.
Number_Reversed(bytes) == FoldRight(LAMBDA b, n : n * Base + b, bytes, 0)

Number(bytes) == FoldLeft(LAMBDA n, b : n * Base + b, 0, bytes)

Signed(n, bytes) == IF 2 * n < Base ^ bytes THEN n ELSE n - Base ^ bytes

(***************************************************************************)
(* from_utf8, with the highest byte for whatever is not UTF-8.             *)
(***************************************************************************)
IsUtf8(bytes) == \A i \in DOMAIN bytes : bytes[i] # Base - 1

Read(kinds) ==
  /\ focus.at = "type"
  /\ focus.type.kind \in kinds
  /\ Len(input) >= Width(focus.type)
  /\ input' = SubSeq(input, Width(focus.type) + 1, Len(input))
  /\ taken' = taken \o Asked
  /\ UNCHANGED closed

Yield(f) == focus' = f /\ UNCHANGED frames

Enter(frame, f) == frames' = Append(frames, frame) /\ focus' = f

ReadInteger ==
  \/ Read({"uint"}) /\ Yield(Returned(Number(Asked)))
  \/ Read({"int"}) /\ Yield(Returned(Signed(Number(Asked), focus.type.width)))

ReadBool ==
  /\ Read({"bool"})
  /\ Yield(IF Asked[1] \in {0, 1} THEN Returned(Asked[1] = 1) ELSE Failed("InvalidBool"))

ReadUnit ==
  /\ Read({"unit"})
  /\ Yield(IF Asked[1] = 0 THEN Returned(<<>>) ELSE Failed("InvalidUnit"))

\* visit_some reads a value by the same deserializer.
ReadOption ==
  /\ Read({"option"})
  /\ IF Asked[1] = 1
     THEN Enter(Counted(focus.type, 1), More)
     ELSE Yield(IF Asked[1] = 0 THEN Returned(<<>>) ELSE Failed("InvalidOption"))

ReadLength ==
  /\ Read({"str", "addr"})
  /\ Yield(ToRead([kind |-> "contents", length |-> Asked[1], of |-> focus.type.kind]))

Parsed(text) ==
  IF text \in DOMAIN ParseAddress THEN Returned(ParseAddress[text]) ELSE Failed("Decoding")

ReadContents ==
  /\ Read({"contents"})
  /\ Yield(IF ~ IsUtf8(Asked) THEN Failed("Utf8")
           ELSE IF focus.type.of = "addr" THEN Parsed(Asked)
           ELSE Returned(Asked))

(***************************************************************************)
(* deserialize_seq and deserialize_map read the number of the elements;    *)
(* tuples and structs have theirs from the type.                           *)
(***************************************************************************)
ReadCount ==
  /\ Read({"seq", "set", "map"})
  /\ Enter(Counted(focus.type, Number(Asked)), More)

EnterStruct ==
  /\ Read({"struct"})
  /\ Enter(Counted(focus.type, Len(focus.type.fields)), More)

(***************************************************************************)
(* deserialize_enum: the byte is the index of a variant, whose fields      *)
(* follow like those of a struct.                                          *)
(***************************************************************************)
\* Mutant: one index too many is let through to the last variant.
VariantAt_Clamped(t, i) ==
  <<t.variants[IF i < Len(t.variants) THEN i + 1 ELSE Len(t.variants)]>>

VariantAt(t, i) == IF i < Len(t.variants) THEN <<t.variants[i + 1]>> ELSE <<>>

ReadVariant ==
  /\ Read({"enum"})
  /\ LET variant == VariantAt(focus.type, Asked[1])
     IN  IF variant = <<>>
         THEN Yield(Failed("Decoding"))
         ELSE Enter(Counted([kind |-> "variant", name |-> variant[1].name,
                             fields |-> variant[1].fields],
                            Len(variant[1].fields)),
                    More)

(***************************************************************************)
(* read_exact on an input that ends.  The bytes before the end are gone.   *)
(***************************************************************************)
EndOfInput ==
  /\ focus.at = "type"
  /\ closed
  /\ Len(input) < Width(focus.type)
  /\ input' = <<>>
  /\ taken' = taken \o input
  /\ Yield(Failed("UnexpectedEof"))
  /\ UNCHANGED closed

--------------------------------------------------------------------------------
(***************************************************************************)
(* Counted.  In a map keys and values take turns, and the index goes up    *)
(* with the value; the access asks whether it is at its end before a key   *)
(* only.                                                                   *)
(***************************************************************************)
Top == frames[Len(frames)]

KeyNext(frame) == frame.type.kind = "map" /\ Len(frame.got) % 2 = 0

ElementType(frame) ==
  CASE frame.type.kind \in {"struct", "variant"} -> frame.type.fields[frame.index + 1]
    [] KeyNext(frame) -> frame.type.key
    [] OTHER -> frame.type.of

Counts(frame) == IF KeyNext(frame) THEN 0 ELSE 1

NextElement ==
  /\ focus.at = "more"
  /\ Top.index # Top.length
  /\ Yield(ToRead(ElementType(Top)))
  /\ UNCHANGED <<input, closed, taken>>

Collect ==
  /\ focus.at = "value" /\ frames # <<>>
  /\ frames' = [frames EXCEPT ![Len(frames)].got = Append(@, focus.value),
                              ![Len(frames)].index = @ + Counts(Top)]
  /\ focus' = More
  /\ UNCHANGED <<input, closed, taken>>

(***************************************************************************)
(* What the visitors make of the elements.  Of a key that comes twice the  *)
(* map keeps the last value.                                               *)
(***************************************************************************)
MapOf(got) ==
  LET entries == {j \in DOMAIN got : j % 2 = 1}
  IN  [k \in {got[j] : j \in entries} |->
         got[1 + CHOOSE j \in entries :
                   got[j] = k /\ \A l \in entries : got[l] = k => l <= j]]

Visited(frame) ==
  CASE frame.type.kind \in {"seq", "struct", "option"} -> frame.got
    [] frame.type.kind = "set" -> ToSet(frame.got)
    [] frame.type.kind = "map" -> MapOf(frame.got)
    [] frame.type.kind = "variant" -> <<frame.type.name>> \o frame.got

Finish ==
  /\ focus.at = "more"
  /\ Top.index = Top.length
  /\ focus' = Returned(Visited(Top))
  /\ frames' = Front(frames)
  /\ UNCHANGED <<input, closed, taken>>

Deserialize ==
  \/ ReadInteger \/ ReadBool \/ ReadUnit \/ ReadOption
  \/ ReadLength \/ ReadContents \/ ReadCount \/ EnterStruct \/ ReadVariant
  \/ EndOfInput
  \/ NextElement \/ Collect \/ Finish
================================================================================

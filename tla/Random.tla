--------------------------------- MODULE Random --------------------------------
(***************************************************************************)
(* random.rs: a generator of 32 bits, the sample that GameRoom::random of  *)
(* the server has to agree with.  A seed is what the struct holds.         *)
(***************************************************************************)
EXTENDS Integers

U16 == 65536
U32 == 4294967296
U64 == 18446744073709551616
Prime == 2147483647

Seeds == {n \in Nat : n < U32}

(***************************************************************************)
(* next_u32: the product is one of 64 bits, and as u32 cuts it to 32.  The *)
(* result is the new seed.                                                 *)
(***************************************************************************)
NextU32(seed) == (((seed * 48271) % U64) % Prime) % U32

(***************************************************************************)
(* range_u16, of the value that next_u32 has returned.                     *)
(***************************************************************************)
InRange(value, min, max) == (((value % (max - min)) + min) % (U16 - 1)) % U16

RangeU16(seed, min, max) == InRange(NextU32(seed), min, max)
================================================================================

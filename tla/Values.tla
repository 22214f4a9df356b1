------------------------------- MODULE Values -------------------------------
(* value_t (late_materialization.h): one 64-bit word for every value between *)
(* the scan and the result, without a type of its own.  An integer is sign   *)
(* extended, a string is a packed reference to its place in the inputs, and  *)
(* the word of all ones is NULL.                                             *)
EXTENDS Integers

CONSTANTS
  Null,      \* a NULL row
  RawBits,   \* width of the word, 64
  IntBits,   \* width of an INT32, 32
  SlotBits,  \* widths of the parts of a packed reference: 16 (with the 32 of
  ColBits    \* the page, which are not told apart here) and 8

ASSUME WidthAssumption ==
  /\ IntBits \in Nat \ {0} /\ SlotBits \in Nat /\ ColBits \in Nat
  /\ RawBits \in Nat /\ RawBits > IntBits

\* Powers of two.
Pow2[n \in Nat] == IF n = 0 THEN 1 ELSE 2 * Pow2[n - 1]

Raw == 0 .. Pow2[RawBits] - 1

\* (Definitions whose name ends in _bug are plausible mistakes in the ones they
\* precede.)  The conversion to an unsigned word is left out.
make_i32_bug(v) == v

\* static_cast<uint64_t>(static_cast<int64_t>(v))
make_i32(v) == v % Pow2[RawBits]

\* table_id : col_id : page_idx and slot_idx, from the top
make_str_ref(t, c, s) == (t * Pow2[ColBits] + c) * Pow2[SlotBits] + s

make_null == Pow2[RawBits] - 1

is_null(raw) == raw = make_null

\* The sign bit is read as a digit.
as_i32_bug(raw) == raw % Pow2[IntBits]

as_i32(raw) ==
  LET low == raw % Pow2[IntBits]
  IN  IF low >= Pow2[IntBits - 1] THEN low - Pow2[IntBits] ELSE low

\* The values of an INT32, and the places of strings a reference can hold.
Int32 == -Pow2[IntBits - 1] .. Pow2[IntBits - 1] - 1

Referable(t, c, s) ==
  /\ t \in Nat /\ c \in 0 .. Pow2[ColBits] - 1 /\ s \in 0 .. Pow2[SlotBits] - 1
  /\ make_str_ref(t, c, s) < make_null

ref_slot(raw) == raw % Pow2[SlotBits]
ref_col(raw) == (raw \div Pow2[SlotBits]) % Pow2[ColBits]
ref_table(raw) == raw \div Pow2[SlotBits + ColBits]
=============================================================================

------------------------------- MODULE Varint -------------------------------
(***************************************************************************)
(* index.rs, read_varint: the integers of the node's block index, seven    *)
(* bits to a byte, highest first, where every byte but the last has its    *)
(* high bit set and counts one more than its bits say.  The sum is an u64, *)
(* and two checks are to keep it from wrapping; MaxValue stands for        *)
(* u64::MAX and is 2^(7k+1)-1 like it.                                     *)
(***************************************************************************)
EXTENDS Integers, Sequences

CONSTANTS
    MaxValue,           \* u64::MAX
    Inputs              \* what may be in the index, as sequences of bytes

ASSUME MaxValueAssumption == MaxValue \in Nat /\ MaxValue % 128 = 127
ASSUME InputsAssumption == Inputs \subseteq Seq(0 .. 255)

VARIABLES
    bytes, pos,         \* the reader, and the byte it reads next
    at,                 \* "reading", "done", "eof", "panicked"
    n,                  \* the sum
    exact               \* observer: the sum in numbers that do not wrap
vars == <<bytes, pos, at, n, exact>>

Init == bytes \in Inputs /\ pos = 1 /\ at = "reading" /\ n = 0 /\ exact = 0

Wrapped(x) == x % (MaxValue + 1)

\* Mutants: the bound is that of the sum, not of the sum before the shift; the
\* largest sum that can be shifted is refused, too.
ShiftOverflows_Late == n > MaxValue
ShiftOverflows_Early == n >= MaxValue \div 128

ShiftOverflows == n > MaxValue \div 128

\* Mutant: a byte without bits is the last one.
More_IfBits(ch) == ch > 128

\* ch_data & 0x80 > 0
More(ch) == ch >= 128

\* (n << 7) | (ch_data & 0x7F)
Shifted(x, ch) == x * 128 + (ch % 128)

\* One turn of the loop.
Step ==
    /\ at = "reading" /\ pos <= Len(bytes)
    /\ pos' = pos + 1
    /\ LET ch == bytes[pos]
           sum == Wrapped(Shifted(n, ch))
       IN  /\ exact' = Shifted(exact, ch) + (IF More(ch) THEN 1 ELSE 0)
           /\ IF ShiftOverflows \/ (More(ch) /\ sum = MaxValue)
              THEN at' = "panicked" /\ n' = n
              ELSE /\ n' = IF More(ch) THEN Wrapped(sum + 1) ELSE sum
                   /\ at' = IF More(ch) THEN at ELSE "done"
    /\ UNCHANGED bytes

\* The value of the record ends within the integer.
Eof ==
    /\ at = "reading" /\ pos > Len(bytes)
    /\ at' = "eof"
    /\ UNCHANGED <<bytes, pos, n, exact>>

Next == Step \/ Eof

Spec == Init /\ [][Next]_vars

-----------------------------------------------------------------------------
\* How the node writes an integer (WriteVarInt of Bitcoin Core): every byte but
\* the last stands for one more than its bits.
Continued[x \in Nat] ==
    IF x <= 127 THEN <<x + 128>> ELSE Append(Continued[x \div 128 - 1], (x % 128) + 128)
WriteVarInt(x) == IF x <= 127 THEN <<x>> ELSE Append(Continued[x \div 128 - 1], x % 128)

\* The sum never wraps: whatever the bytes, it is exact, or the program ends.
Exact == at # "panicked" => n = exact

\* The program ends only over an integer that does not fit.
PanicsOnlyTooLarge == at = "panicked" => exact > MaxValue

\* The reader is the inverse of the node's writer, and stops behind the integer.
InverseOfWrite == at = "done" => SubSeq(bytes, 1, pos - 1) = WriteVarInt(n)
=============================================================================

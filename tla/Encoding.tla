------------------------------- MODULE Encoding -------------------------------
(***************************************************************************)
(* The wire encoding of encoding.py: what the store holds for a number or  *)
(* a flag, and what a reader makes of it.                                  *)
(*                                                                         *)
(* Numbers are integers here (whole dollars, whole milliseconds).  Writing *)
(* a finite number keeps its value, because 17 significant digits round-   *)
(* trip every binary64, so the text of a finite number is the number.  All *)
(* other texts fall into the classes the readers tell apart.               *)
(***************************************************************************)
EXTENDS Integers

CONSTANTS
    Absent,     \* no row for the key: the store's get returns None
    Blank,      \* the empty string, the "cleared" encoding
    Damaged,    \* any other text outside the number grammar
    NonFinite   \* a float that is nan or infinite; never a text

ASSUME EncodingAssumption ==
    /\ {Absent, Blank, Damaged, NonFinite} \cap Int = {}
    /\ Absent # Blank /\ Absent # Damaged /\ Blank # Damaged

\* What a key of the store may read back as.
WireText == Int \cup {Absent, Blank, Damaged}

Float == Int \cup {NonFinite}

\* A nan or an infinity is written as "0".
EncodeFloat(x) == IF x = NonFinite THEN 0 ELSE x

\* The decoded number, or the given default when there is no usable value.
DecodeFloatOr(raw, default) == IF raw \in Int THEN raw ELSE default

\* Mutant of DecodePositiveFloat: any number will do.
DecodeAnyFloat(raw) == IF raw \in Int THEN raw ELSE Absent

\* Overrides are only meaningful when positive; Absent stands for None.
DecodePositiveFloat(raw) == IF raw \in Int /\ raw > 0 THEN raw ELSE Absent

\* Flags are "1" and "0", which are also the texts of the numbers 1 and 0.
EncodeBool(b) == IF b THEN 1 ELSE 0
DecodeBool(raw) == raw = 1

\* Mutant of AsCount: text that is not a number is None, not a count.
AsCountOrNone(raw) == IF raw \in Int THEN raw ELSE Absent

\* A throttle counter: damaged and negative texts both count as none so far.
AsCount(raw) == IF raw \in Int /\ raw > 0 THEN raw ELSE 0

===============================================================================

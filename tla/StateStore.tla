------------------------------ MODULE StateStore ------------------------------
(***************************************************************************)
(* What the StateStore protocol promises of set_many.  The SQLite and the  *)
(* in-memory store write a batch at once; a backend that inherits          *)
(* SequentialBatchMixin writes it key by key, in the order of the batch,   *)
(* and other processes run between two keys.                               *)
(***************************************************************************)
EXTENDS Encoding, Sequences

CONSTANT AtomicBatch    \* set_many is one transaction

ASSUME StoreAssumption == AtomicBatch \in BOOLEAN

\* A store without a row for any of the keys.
NoRows(keys) == [k \in keys |-> Absent]

Rank(order, k) == CHOOSE i \in DOMAIN order : order[i] = k

\* The sets of keys set_many may write next, of a batch written in that order.
Batches(order, keys) ==
    IF AtomicBatch
    THEN {keys}
    ELSE {{k} : k \in {j \in keys : \A i \in keys : Rank(order, j) <= Rank(order, i)}}

Overwritten(texts, keys, by) ==
    [k \in DOMAIN texts |-> IF k \in keys THEN by[k] ELSE texts[k]]

===============================================================================

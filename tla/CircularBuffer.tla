--------------------------- MODULE CircularBuffer ---------------------------
(***************************************************************************)
(* lib/CircularBufferUint.sol: the ring of block heights from which Anchor *)
(* and GatewayBase learn which root to delete when they store a new one.   *)
(* A buffer is a value [items, index]; an unset slot holds 0, as in an     *)
(* array of Solidity that has only been given its length.                  *)
(***************************************************************************)
LOCAL INSTANCE Naturals

\* The slots of a buffer that keeps maxItems items.
Slots(maxItems) == 0 .. (maxItems - 1)

\* The values a buffer of that size can hold.
Buffers(maxItems) == [items : [Slots(maxItems) -> Nat], index : Slots(maxItems)]

\* The constructor: items.length = maxItems, index stays 0.
NewBuffer(maxItems) == [items |-> [s \in Slots(maxItems) |-> 0], index |-> 0]

\* nextIndex(): one further, and back to 0 behind the last slot.
NextIndex(b) ==
    IF b.index + 1 \in DOMAIN b.items THEN b.index + 1 ELSE 0

\* The values in the slots.
Items(b) == {b.items[s] : s \in DOMAIN b.items}

\* What store() returns: the item whose slot the next item takes.
Overwritten(b) == b.items[NextIndex(b)]

\* store(): move to the next slot and put the item there.
Store(b, item) ==
    [items |-> [b.items EXCEPT ![NextIndex(b)] = item], index |-> NextIndex(b)]

\* head(): the item stored last.
Newest(b) == b.items[b.index]
=============================================================================

------------------------------ MODULE FreeRTOS ------------------------------
(***************************************************************************)
(* The parts of the FreeRTOS kernel the firmware is written against.  A    *)
(* queue is a sequence with a capacity.  The kernel itself is not in the   *)
(* repository; these operators say what src/main relies on it to do.       *)
(***************************************************************************)
EXTENDS Naturals, Sequences

\* xQueueSend with no wait, and xQueueSendFromISR: the item goes to the back
\* of the queue, or is dropped when the queue is full.  None of the firmware's
\* interrupt code looks at the returned status.
QueueSend(q, capacity, item) ==
    IF Len(q) < capacity THEN Append(q, item) ELSE q

\* xQueueSend that may block: enabled only when there is room.
HasRoom(q, capacity) == Len(q) < capacity
=============================================================================

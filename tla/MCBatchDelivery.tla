------------------------- MODULE MCBatchDelivery -------------------------
(* Constant values for checking BatchDelivery.                             *)
EXTENDS BatchDelivery

CONSTANTS d1, d2

\* A batch for two devices, and one with two items for the second of them: the
\* second device can keep both in the queue, the first one the first batch only.
Lists == {<<>>, <<d1, d2>>, <<d2, d2>>}

\* The one batch it takes to see an item written again after its delivery.
TwoDevices == {<<d1, d2>>}

=============================================================================

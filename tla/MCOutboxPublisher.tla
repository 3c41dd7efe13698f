------------------------- MODULE MCOutboxPublisher -------------------------
(* Model checking of OutboxPublisher: two instances, events are numbers.    *)
EXTENDS OutboxPublisher
=============================================================================

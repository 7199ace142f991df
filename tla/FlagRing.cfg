\* Both kinds of ring.  in_que: the dispatcher does not wait, its clients keep
\* no more messages outstanding than the ring has slots.  out_que: the FTL
\* thread waits for its slot, whatever its clients keep outstanding.
SPECIFICATION RingFairSpec
CONSTANTS
  Values = {a, b}
  Torn = Torn
  Size = 3
  Window = 3
  MaxSent = 6
INVARIANTS NoOverrun NoDataRace
PROPERTIES ImplementsChannel Delivery
CHECK_DEADLOCK FALSE

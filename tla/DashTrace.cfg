SPECIFICATION FairSpec
CONSTANTS
  Node = {1, 2}
  Drawable = {1}
  Window = 2
  RingSize = 1
  MaxInputs = 3
INVARIANTS SlotInv TraceListRight
PROPERTIES ImplementsSlot TracesSpaced ButtonsRecover
CHECK_DEADLOCK FALSE

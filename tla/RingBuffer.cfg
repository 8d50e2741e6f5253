\* An array of four slots and two items: every cursor wraps, every slot is
\* overwritten, and old items linger in the slots given up.
CONSTANTS
  Capacity = 4
  Item = {a, b}
  Blank = blank
  OutOfRange = out_of_range
SPECIFICATION Spec
INVARIANTS TypeOK CursorsAgree HeldSlotsWritten
PROPERTIES ImplementsQueue

SPECIFICATION Spec
CONSTANTS
  StackSize = 224
  HeapMin = 512
  HeaderSize = 37
  PointerSize = 8
  Args <- LineArgs
  Mutable = {"buf"}
  MaxLines = 2
  MaxArgs = 2
  MaxChanges = 1
INVARIANTS TypeOK WithinBuffer ReadsBack PrintsCopies
CHECK_DEADLOCK FALSE

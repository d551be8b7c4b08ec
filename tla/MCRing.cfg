SPECIFICATION Spec
CONSTANTS
  Byte = {a, b}
  Garbage = garbage
  MaxSize = 3
  MaxCapacity = 4
INVARIANT TypeOK
INVARIANT GetAddressesLocation
PROPERTY IsQueue

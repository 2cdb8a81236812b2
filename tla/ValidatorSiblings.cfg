\* A caller pushes two objects, one after the other, inside a third.
SPECIFICATION ValidatorSpec
CONSTANTS
  ValidatorName = {v}
  MaxRecords = 3
  Object = {p, q}
PROPERTY NoneIsOverwritten

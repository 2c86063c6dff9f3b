SPECIFICATION Spec
CONSTANTS
  Named = {"app"}
  Names = {"t"}
  Width = 2
  Values = {v1, v2}
  Default = v1
  MaxRows = 2
  Null = Null
  None = None
INVARIANTS DropStaysHome

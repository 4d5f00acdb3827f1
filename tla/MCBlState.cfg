SPECIFICATION Spec
CONSTANTS
  MaxSwapPages = 1
  Zero = Zero
  Erased = Erased
  Junk = Junk
  TornState = {"write", "erase"}
PROPERTIES ImplementsPages StateAdvances MarkGuards

SPECIFICATION Spec
CONSTANTS
  Platform = {"linux", "windows"}
  Modulus = 5
  MaxTicks = 8
INVARIANTS
  IInv
  LinuxShareIsTrue
  CountedOnce

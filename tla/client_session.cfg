SPECIFICATION FairSpec
CONSTANTS
  Word <- Vocabulary
  Path = {"file"}
  Server = {"a", "b"}
  Address <- Storages
  OddScheme = {"gopher-storage"}
  Content <- Files
  Input <- Inputs
  EndOfLine = "<end>"
  NoWord = ""
  NoAddress = "none"
  MaxLines = 3
INVARIANTS
  IInv
  NoMixedRequest
  LineByLine
PROPERTY SessionEnds

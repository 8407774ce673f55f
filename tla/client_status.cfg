SPECIFICATION Spec
CONSTANTS
  Word <- Vocabulary
  Path = {"file"}
  Server = {"a", "b"}
  Address <- Storages
  OddScheme = {"gopher-storage"}
  Content <- Files
  Input <- Inputs
  EndOfLine = "<end>"
  NoWord = ""
  NoAddress = "none"
  MaxLines = 1
INVARIANT StatusReported

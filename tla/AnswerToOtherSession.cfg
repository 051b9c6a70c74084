SPECIFICATION ProtocolSpec
CONSTANTS
  Options = {}
  Handlers <- Registered
  CallMethods = {"client/registerCapability", "textDocument/hover"}
  Plans <- ExchangePlans
  MaxFrames = 2
  Subjects = {"exchange"}
  Calls = {c1, c2}
  Nobody = Nobody
  MaxId = 1
  MaxReplies = 2
  Setups <- OneKind
  Alphabet = {"CR", "LF", "b", "L0", "L1", "L2", "L3", "Lx", "type", "SP", "//", "// -----", "x"}
  Wires <- PeerWires
  Lengths <- HeaderLengths
  Limits <- FrameLimits
  Scripts <- TestScripts
  Files = {"f1"}
  DirName <- Dir
  OpenTexts <- Start
  NewTexts <- Put
  MaxText = 4
  MaxEdits = 2
  PathChars = {"/", "a", ":", "%", "2", "0", " ", ".", "localhost", "?"}
  MaxPath = 5
  Mapping <- Maps
  IntBits = 3
  ByteBits = 2
  MaxSet = 2
CHECK_DEADLOCK FALSE
INVARIANT
  AnswersToAsker

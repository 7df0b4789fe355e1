SPECIFICATION Spec
CONSTANTS
  CON = {c1}
  Requests = {"RFIDStop"}
  FlakyBits = {"VoltOK", "TempOK"}
  Levels = {0, 6}
  DevFaults = {}
  EvseFaults = {"RFID"}
  StartTypes = {"RFID", "Remote"}
  TriesPerSample = 2
INVARIANT TypeOK
INVARIANT NoLiveIdle
INVARIANT Billed
INVARIANT CleanStart
INVARIANT PasteFlag
INVARIANT StandbyIsSafe
PROPERTY ImplementsSession

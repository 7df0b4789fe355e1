SPECIFICATION Spec
CONSTANTS
  CON = {c1}
  Requests = {"RFIDStop"}
  FlakyBits = {"VoltOK"}
  Levels = {0, 6, 12}
  DevFaults = {}
  EvseFaults = {}
  StartTypes = {"RFID"}
  TriesPerSample = 2
INVARIANT VoltageProtection

SPECIFICATION FairSpec
CONSTANTS
  CON = {c1}
  Requests = {"RFIDStop"}
  FlakyBits = {}
  Levels = {0, 6}
  DevFaults = {"Meter"}
  EvseFaults = {}
  StartTypes = {"RFID"}
  TriesPerSample = 2
PROPERTY StopServed
PROPERTY StopCompletes
PROPERTY UnauthorisedStops

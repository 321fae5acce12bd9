SPECIFICATION Spec
CONSTANTS
  MaxPackets = 1
  QuickEvents = FALSE
PROPERTIES CarrierSense

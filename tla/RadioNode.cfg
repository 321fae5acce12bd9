SPECIFICATION FairSpec
CONSTANTS
  MaxPackets = 3
  QuickEvents = FALSE
INVARIANTS WakeupArmed TimersMatch EveryBeaconOnce CanHear
PROPERTIES MailboxNotOverwritten RefinesBeaconNode KeepsBeaconing

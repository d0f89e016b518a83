CONSTANTS
  Files <- MCFiles
  Flags <- MCFlags
  MaxLinkSubnetId = 3
  MaxHostIndex = 3
SPECIFICATION BootSpec
INVARIANTS OptionsSound EventsRun LinksUsable
CHECK_DEADLOCK FALSE

CONSTANTS
  MaxGeneration = 4
  ConfigOf <- MCConfigOf
  MaxRestarts = 2
  MaxPolls = 3
SPECIFICATION FairSpec
INVARIANTS ConfigurationAtomic
INVARIANTS HealthyOncePerApplication AcknowledgedIsActive
PROPERTIES LastConfigurationActive
CHECK_DEADLOCK FALSE

\* Two priorities, and patterns of every kind device_led_setup tells apart.
CONSTANTS
  Configs <- MCConfigs
  Long = 7
  ShortMod = 8
  Modulus = 16
  TicksPerMs = 2
  PollBound = 2
  MaxElapsed = 24
  MayClear = TRUE
SPECIFICATION FairSpec
INVARIANTS TypeOK OffWhenEnded FlashesAsAsked OnTime
PROPERTIES PatternEnds

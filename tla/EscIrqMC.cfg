SPECIFICATION Spec
CONSTANTS
  Events = {control, outputs, eeprom}
  AppMask = {control, outputs}
  MaxFaults = 2
INVARIANTS
  NoMissedWake
  NoStorm
PROPERTY EventServed

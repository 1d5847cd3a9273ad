SPECIFICATION FairSpec
CONSTANTS
  Happens = {"disconnect", "axis_restart", "remove", "drain", "request"}
  Missed = 1
  WireCap = 1
  MaxFaults = 1
  MaxTicks = 1
INVARIANTS RoutedOrClosing OnlyOlderClosed
PROPERTIES RegistrationKept ComesBack

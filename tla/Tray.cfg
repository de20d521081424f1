SPECIFICATION DesktopSpec
CONSTANTS
  AutoHideTicks = 2
  MaxPublishes = 3
  MaxClicks = 2
  Stored <- MCStored
  Published <- MCPublished
  MaxViews = 2
INVARIANTS
  IconsAreFreed
  ViewersShowTheirs
PROPERTIES
  ToastsAreChanges
  ToastIsDismissed
  CatchesUp
\* The tray can be exited.
CHECK_DEADLOCK FALSE

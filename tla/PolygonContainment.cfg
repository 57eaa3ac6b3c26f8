SPECIFICATION PolygonSpec
CONSTANTS
  Grid = {0, 1, 2}
  Corners = {3}
INVARIANTS ContainmentIsDetected

SPECIFICATION Spec
CONSTANTS
  Width = 4
  Scale = 2
  MEMSTATS = 3
  Levels = {0, 1, 3, 8, 9}
  Extent = 5
  Widths = {1, 2, 3}
  Heights = {1, 2, 3, 4, 5, 6, 7}
  RegionLists <- MCRegionLists
  PageSize = 2
  Word = 1024
INVARIANTS MeterInv GraphFits PictureExact
CHECK_DEADLOCK FALSE

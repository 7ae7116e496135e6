SPECIFICATION ContentSpec
CONSTANTS
  Texts = {1}
  Heights = {1, 3}
  Caps = {2, 4}
  MaxOps = 5
  MaxSize = 7
  CopyHeights = {1, 2}
  CopyCaps = {2, 4}
  CopyOps = 4
  CopyFetches = 1
  Height = 2
  Capacity = 2
  Columns = 2
  MaxIds = 4
  MaxRow = 3
CHECK_DEADLOCK FALSE
INVARIANTS CursorSound CopyTrue LineTrue RegionsTrue
PROPERTIES RingIsList ChangesNoted

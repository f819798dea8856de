CONSTANTS
  Stride = 8
  Buffers = {32, 40}
  RASTER_HEIGHT = 2
  GlyphWidth = 3
  MaxInput = 2
  MaxLines = 3
SPECIFICATION Spec
INVARIANTS    PanicsNestOnce
CHECK_DEADLOCK FALSE

CONSTANTS
  Width = 5
  Height = 7
  Stride = 6
  CharWidth = 2
  LineHeight = 2
  Char = {"a", "b", "space", "newline", "noglyph"}
  Newline = "newline"
  Space = "space"
  Glyphs = {"a", "b", "space"}

SPECIFICATION Spec

INVARIANTS
  OnlyGlyphs
  IInv

PROPERTIES
  ImplementsTerminal

SPECIFICATION Spec
CONSTANTS
  Most <- MCMost
  Width = 4
  Exponent = 3
  Mantissa = 3
  Digits = {0, 1, 15}
  Letters = {"a", "b"}
  Chars <- MCChars
  TextBytes = {"x", "y"}
  NameBytes = {46, 120}
  Components <- MCComponents
  Opaque = 3
  Alphas = {0, 1, 3}
  Shades = {1, 3}
  Half = 6
  Page = 3
  Files <- MCFiles
  Descriptors = 2
INVARIANTS
  TextIsRight
  
CHECK_DEADLOCK FALSE

SPECIFICATION FairSpec
CONSTANTS
  s1 = s1
  s2 = s2
  n1 = n1
  n2 = n2
  p1 = p1
  p2 = p2
  Subs = {s1, s2}
  Names = {n1, n2}
  NameOf <- MCNameOf
  Publishers = {p1, p2}
  BufferSize = 1
  MaxPublished <- MCMaxPublished
CHECK_DEADLOCK FALSE
PROPERTIES
  DispatchAbsorbsSurplus

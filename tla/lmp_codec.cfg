\* Frames of up to 7 bytes: a payload of 0, 1, 2 (the most) or 3 (one over).
SPECIFICATION Spec
CONSTANTS
  MaxSize = 7
  BufferSize = 7
  Candidates <- MCCandidates
INVARIANTS LibrariesAgree RoundTrip Canonical
CHECK_DEADLOCK FALSE

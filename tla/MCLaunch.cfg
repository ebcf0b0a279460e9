SPECIFICATION Spec
CONSTANTS
  bin = bin
  long = long
  cut = cut
  gone = gone
  here = here
  Systems = {"windows", "macos", "solaris", "bsd", "linux", "other"}
  Paths = {bin, long, cut, gone, here}
  None = None
  Start = {bin, long}
  Links = {here}
  Long = {long}
  Cut <- MCCut
  Deleted <- MCDeleted
  Names = {"", "affc"}
  Nameless = ""
  At <- MCAt
  CommandLines <- MCCommandLines
  MaxChanges = 2
INVARIANTS
  HeadersKnown
  UserUndisturbed
  EndsExplained
CHECK_DEADLOCK FALSE

CONSTANTS
  Records <- MCRecords
  Pages = {1, 2}
  Other = "aws"
  Main = "amazon"
  MaxId = 3
SPECIFICATION Spec
INVARIANT NamesAnswer
PROPERTY NotRedirected
PROPERTY PagesKept
PROPERTY StaysOut

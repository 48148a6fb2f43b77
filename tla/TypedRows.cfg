CONSTANTS
  Utf8Values = {"number", "text"}
  NumberValues = {"number"}
  JsonValues = {"number"}
  CustomValues = {"raw"}
  Families = {"f", "g"}
  Names <- MCNames
  AttributeChoices <- MCAttributes
  StructChoices <- MCStructAttributes
  Types = {"Bytes", "String", "Number"}
  Values = {"number", "text", "raw"}
  KeyValues = {"number", "raw"}
  MaxCells = 2
SPECIFICATION Spec
INVARIANTS DeriveExact MappedAsDeclared AnswersExact
CHECK_DEADLOCK FALSE

CONSTANTS
  Requests = {r1, r2}
  MonthDays <- Calendar
  Dates = {31, 33}
  Untils = {34}
  Groups = {1}
  Colors = {c1}
  MaxSeries = 3
  MaxOccurrences = 2
  MaxSeriesIds = 1
SPECIFICATION Spec
SYMMETRY Symmetric
INVARIANTS
  TypeOK
  RepeatsAsAsked
  AnswersCount
  EditIsWhole
PROPERTIES
  SeriesStays
  SeriesEditKeepsDates
  DeletionInScope

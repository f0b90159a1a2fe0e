\* Up to three pages of two entries, either page of the application.
CONSTANTS
  MaxEntries = 6
  PageSize = 2
SPECIFICATION PagerSpec
INVARIANTS NewestFirstAndOnce NothingSkipped

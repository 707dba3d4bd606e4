\* What the Directory counts and writes down: quotas, receipts and failures, anonymous ids.
SPECIFICATION BooksSpec
CONSTANTS
    None = None
    Things <- AllThings
    Lists <- SavedLists
    Plans <- QuotaPlans
    PendingSec = 1
    MaxTime = 4
    Parts = {"quota", "record", "tracker"}
 
PROPERTIES RecordsSafe  AllEnd
CHECK_DEADLOCK FALSE

SPECIFICATION MCLiveSpec
CONSTANTS
  Parts = {"losses", "rules"}
  Me = me
  Nobody = Nobody
  bo = bo
  c1 = c1
  c2 = c2
  Analysts = {me, bo}
  Users = {me}
  Jobs <- MCJobs
  OwnLimit = 1
  TotalLimit = 2
  Threads = 1
  MaxRestarts = 1
  Aging = {}
  Pages = 2
  MaxRuns = 2
  MaxLost = 1
  MaxVersion = 3
  Reviewed <- MCReviewed
  Drafted <- MCDrafted
  Needed = 1
  MaxQueries = 2
  MaxChanges = 3
  MaxResumed = 1
  Entries = {"ioc", "lookup"}
  Indicators = {"ioc"}
  MaxEntry = 3
  Exceptions = {"x", "y"}
  Requester <- MCRequester
  MaxReadings = 3
PROPERTIES
  Finish
CHECK_DEADLOCK FALSE

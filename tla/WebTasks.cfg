SPECIFICATION FairSpec
CONSTANTS
  MaxCopies = 3
  NSlots = 1
  MaxDownloads = 3
  MaxExtractions = 3
  MaxEntries = 2
INVARIANTS
  OneCopyAtATime
  
  
  NoEntryLost
  

  

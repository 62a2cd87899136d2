SPECIFICATION FairSpec
CONSTANTS
  Renders <- MCRenders
  FirstRender <- Whole
  Entries = 2
  Events = {"edit","endpoint","gateway","policy","render","faults","crash"}
  MaxChanges = 2
  MaxTries = 2
  OwnWritesSeen = TRUE
 
PROPERTIES OneWriterPerCondition  
CHECK_DEADLOCK FALSE

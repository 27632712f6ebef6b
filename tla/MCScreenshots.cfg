CONSTANTS
  Encoder = {e1, e2}
  Interval = 1
  MaxAsked = 2
  MaxKeys = 2
SPECIFICATION FairSpec
PROPERTIES
  
  
  LiveGoesOn
  KeyAnswered

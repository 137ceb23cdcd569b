SPECIFICATION FairSpec
CONSTANTS
  NoUpload = NoUpload
  NoContent = NoContent
  Artifacts = {f}
  Strict = {}
  Uploads = {u1}
  Cleaners = {h1, h2}
  Tasks = {}
  Contents = {x}
  PartCount <- PartCounts
  large = large
  Batch = 1
  Created = 1
  Resent = {f}
  Expiring = {f}
  Quota = 1
  LostReplies = FALSE
PROPERTIES PurgedBytesVanish 
CHECK_DEADLOCK FALSE

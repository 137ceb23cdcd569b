SPECIFICATION Spec
CONSTANTS
  NoUpload = NoUpload
  NoContent = NoContent
  Artifacts = {f}
  Strict = {}
  Uploads = {u1}
  Cleaners = {h1}
  Tasks = {t1}
  Contents = {x}
  PartCount <- PartCounts
  large = large
  Batch = 1
  Created = 1
  Resent = {f}
  Expiring = {f}
  Quota = 1
  LostReplies = TRUE
INVARIANTS PinnedInput
CHECK_DEADLOCK FALSE

SPECIFICATION Spec
CONSTANTS
  NoUpload = NoUpload
  NoContent = NoContent
  Artifacts = {f, large}
  Strict = {f}
  Uploads = {u1, u2}
  Cleaners = {h1}
  Tasks = {t1}
  Contents = {x}
  PartCount <- PartCounts
  large = large
  Batch = 1
  Created = 1
  Resent = {f}
  Expiring = {f}
  Quota = 1
  LostReplies = FALSE
SYMMETRY Symmetry
INVARIANTS NoOrphanObject PinnedInput
PROPERTIES PurgeIsFinal
CHECK_DEADLOCK FALSE

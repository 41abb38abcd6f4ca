SPECIFICATION FairSpec
CONSTANTS
  Writers = {p, q}
  Inbox = "i"
  Folders <- MCFolders
  Order <- MCOrder
  Kinds = {"append", "rename"}
  Busy <- MCFolders
  Inodes = {1, 2, 3, 4, 5}
  Batch = 9
  SYNC_LOG_RETRIES = 64
  SYNC_MAILBOX_RETRIES = 3
  MaxOps = 2
  MaxTries = 1
  MaxNo = 1
  MaxDie = 0
PROPERTY Replicated
CHECK_DEADLOCK FALSE

SPECIFICATION Spec
CONSTANTS
  Writers = {p}
  Inbox = "i"
  Folders <- MCFolders
  Order <- MCOrder
  Kinds = {"append", "copy", "store", "expunge", "create", "delete", "rename"}
  Busy <- MCBusy
  Inodes = {1, 2, 3, 4, 5}
  Batch = 1
  SYNC_LOG_RETRIES = 64
  SYNC_MAILBOX_RETRIES = 3
  MaxOps = 2
  MaxTries = 1
  MaxNo = 0
  MaxDie = 1
INVARIANTS TypeOK  
CHECK_DEADLOCK FALSE

SPECIFICATION Spec
CONSTANTS
  MaxMsgs = 1
INVARIANTS
  MailboxHoldsCurrentMsg

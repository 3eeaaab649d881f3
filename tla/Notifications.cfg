SPECIFICATION Spec
CONSTANTS
  Senders = {s1, s2}
  MessageThread = m
  Null = null
  MaxSize = 3
  MaxMessages = 2
INVARIANTS TypeOK SlotsSound NoLostWakeup CoalescedIsLast
PROPERTIES Implements Delivered
CHECK_DEADLOCK FALSE

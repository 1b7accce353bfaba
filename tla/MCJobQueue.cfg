SPECIFICATION FairSpec
CONSTANTS
  Mail = Mail
  Refund = Refund
  notifications = notifications
  payments = payments
  Jobs = {Mail, Refund}
  Queues = {notifications, payments}
  queueName <- MCQueueName
  MaxAttempts = {1, 3}
INVARIANTS
  TypeOK
  OneActivation
  RetryIsArmed
PROPERTIES
  ImplementsJobLife
  DueJobSettles

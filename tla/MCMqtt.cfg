SPECIFICATION Spec
CONSTANTS
  Publishing = {"publish_state"}
  Subscribing = {"control_loop", "subscriber"}
  Topics <- MCTopics
  None = None
INVARIANTS SubscriptionsCoexist
CHECK_DEADLOCK FALSE

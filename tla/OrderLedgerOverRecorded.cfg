CONSTANTS
    Orders = {o1}
    Quantity = 2
    MaxAttempts = 2
    Faults <- SubscriptionFaults
SPECIFICATION Spec
INVARIANTS NeverMoreThanFilled
CHECK_DEADLOCK FALSE

SPECIFICATION Spec
CONSTANTS
    User = {u1}
    Customer = {c1}
    Slot = {h1}
    JobSlot = job
    None = None
    Grace = 1
    PeriodEnd = 0
    MaxTime = 2
    MaxEvents = 2
    MaxCheckouts = 1
    MaxRequests = 2
    MaxFaults = 1
\* a customer may stop paying and a page asking: the system can stop
CHECK_DEADLOCK FALSE
INVARIANT BillingTypeOK MarkedIsApplied
PROPERTY MirrorsStripe

\* Two billing requests in flight: a recalculation with a stale copy of
\* the charge overwrites a cancellation committed in the meantime.
CONSTANTS
    Admins = {clerk1, clerk2}
    Owners = {u1}
    MaxCharges = 1
    MaxPayments = 2
    Dues = {2}
    Amounts = {1, 2}
    MaxInFlight = 2
SPECIFICATION Spec
INVARIANT StatusMatchesAllocations

SPECIFICATION CapSpec
CONSTANTS
    Requests = {r1, r2, r3}
    Users = {alice, bob}
    MaxTransfers = 2
    Nothing = Nothing
INVARIANTS OncePerConsent
CHECK_DEADLOCK FALSE

SPECIFICATION Spec
CONSTANTS
    Ips = {ip}
    Identities = {alice, bob}
    Requests = {r1, r2}
    Rpm = 2
    Window = 2
    Ttl = 3
    MaxTime = 8
    MaxSessions = 1
    None = None
SYMMETRY Symmetry
CHECK_DEADLOCK FALSE
INVARIANT QuotaHolds LastsWhileUsed

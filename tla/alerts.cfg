CONSTANTS
    Keys <- MCKeys
    Callers <- MCCallers
    Retained = {b1}
    Retriers = {r1, r2}
    Handoffs = {h1}
    PlatformUsers = {u1}
    EmailUsers = {u1}
    Sweepers = {w1}
    Mailer = booking
    MAX_MAIL_ATTEMPTS = 4
    MAX_ATTEMPTS = 2
    MaxFaults = 1
    MaxCrashes = 2
    MaxWork = 1
SPECIFICATION Spec
CHECK_DEADLOCK FALSE
INVARIANTS
    SentMeansAttempted
    TakenOnce
    ToastOnce
PROPERTIES
    AlertSettles
    RetrySettles

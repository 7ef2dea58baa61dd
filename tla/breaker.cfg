\* Three callers share the breaker; the provider comes and goes as it likes.
SPECIFICATION FairSpec
CONSTANTS
    Callers = {c1, c2, c3}
    MaxAttempts = 2
    Threshold = 2
    Cooldown = 1
INVARIANTS TypeOK OpenIsCounted
PROPERTIES NeverBricked StaysArmed EveryCallEnds

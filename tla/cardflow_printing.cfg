SPECIFICATION Spec
CONSTANTS
    Swipe = {s1, s2}
INVARIANT PrintingIsSent

SPECIFICATION FairSpec
CONSTANTS
    Swipe = {s1, s2}
INVARIANTS TypeOK BackOnlyPrinted StagesInOrder StagesTrue
PROPERTY SwipeEnds

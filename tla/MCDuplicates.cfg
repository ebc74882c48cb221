\* Three messages of two texts, a window of one tick, room for three entries and two ids.
CONSTANTS
    Ids = {1, 2, 3}
    Texts = {t1, t2}
    Threshold = 2
    Window = 1
    MaxEntries = 3
    MaxIds = 2
SYMMETRY TextSymmetry
SPECIFICATION Spec
INVARIANTS TypeOK TrackersExact OneContentPerMessage NoFalseAlarm NoMissedAlarm CopiesDeleted

\* A pilot and a controller, overlapping fetches, a supervisor who kicks.
SPECIFICATION LiveSpec
CONSTANTS
    Pilot = {p1}
    Atc = {a1}
    Fetch = {f1, f2}
    Rating = {11}
    nil = nil
    MaxJoin = 2
INVARIANTS TypeOK OneMarkerEach MapWasTrue SuccessMeansCancelled
PROPERTY PopupKept MapCatchesUp

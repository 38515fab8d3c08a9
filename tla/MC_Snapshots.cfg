CONSTANTS
    Saves = {s1, s2}
    Previews = {p1}
    Deletes = {d1}
    Advices = {a1}
    Earlier = Earlier
    None = None
SPECIFICATION FairSpec
PROPERTIES KeptUntilDeleted ReplacesWhatItSaw RefusedOnlyByNewer EveryRequestEnds

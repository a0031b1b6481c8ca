SPECIFICATION GraceFairSpec
CONSTANTS
    Processes = {p1, p2}
    Hwnds = {h1}
    MaxImages = 2
    MaxDetaches = 2
    Absent = Absent
PROPERTIES
    
    LiveWindowsSurvive
    
CHECK_DEADLOCK FALSE

SPECIFICATION RoutingSpec
CONSTANTS
    Fds = {f1, f2}
    Hwnds = {h1, h2}
    None = None
SYMMETRY Symmetric
INVARIANTS CaptureNamesAnOpenConnection
            LockedViewportIsOnScreen

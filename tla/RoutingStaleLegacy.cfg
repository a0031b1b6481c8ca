SPECIFICATION RoutingSpec
CONSTANTS
    Fds = {f1}
    Hwnds = {h1}
    None = None
INVARIANT ActiveClientIsOpen

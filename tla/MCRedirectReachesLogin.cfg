SPECIFICATION Spec
CONSTANTS
    poll = poll
    logout = logout
    Reqs = {poll, logout}
    Mutating = {logout}
    Logout = logout
    Tokens = 3
PROPERTY RedirectReachesLogin

SPECIFICATION Spec
CONSTANTS
    N = 2
    Extra = {e1}
    Browser = {b1}
    Capacity = 1
    MaxRedirects = 1
INVARIANT TypeOK
PROPERTIES LeaderFound BrowsersFollow RequestsEnd

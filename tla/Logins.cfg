SPECIFICATION Spec
CONSTANTS
    None = None
    tab1 = tab1
    tab2 = tab2
    app = app
    web = web
    phone = phone
    Tabs = {tab1, tab2, app}
    Browsers = {web, phone}
    Native = {phone}
    BrowserOf <- Where
    MaxTokens = 4
    MaxCalls = 4
INVARIANTS
    NoFalseAlarm
    OneLiveToken
    EndedLoginIsDead
SYMMETRY TabSymmetry
CHECK_DEADLOCK FALSE

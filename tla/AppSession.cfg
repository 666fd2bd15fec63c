SPECIFICATION Spec
CONSTANTS
    Saves <- MCSaves
    MaxMountedSaves = 2
    Buttons = {"A", "B", "Plus"}
    Touchable = {"inbox"}
    FailingCalls = {"inbox", "nandUser", "saveReader", "save", "catalog", "usb"}
INVARIANT StoragesAreServed
INVARIANT SessionCleansUp
INVARIANT SavesAccounted
PROPERTY OneSessionPerPress
PROPERTY PressEndsSession

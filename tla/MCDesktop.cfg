CONSTANTS
    GUI_KEY_QUEUE_SIZE = 3
    MAX_WINDOWS = 3
    TERMINAL_WORKERS = 2
    INPUT_MAILBOX_SIZE = 3
    KEY_BATCH = 2
    Keys = {"a", "bs", "tab", "enter", "^B", "^C"}
    Commands = {"work", "app", "jit", "jitbg", "editor", "auth", "clear"}
    MaxTyped = 2
    MaxEvents = 1
SPECIFICATION Spec
INVARIANT ActiveOnTop
PROPERTIES
    KeysServed
    TerminalReleased

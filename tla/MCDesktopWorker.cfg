CONSTANTS
    GUI_KEY_QUEUE_SIZE = 3
    MAX_WINDOWS = 2
    TERMINAL_WORKERS = 2
    INPUT_MAILBOX_SIZE = 3
    KEY_BATCH = 2
    Keys = {"a", "enter"}
    Commands = {"work"}
    MaxTyped = 3
    MaxEvents = 0
SPECIFICATION Spec
INVARIANT CommandsOnWorkers

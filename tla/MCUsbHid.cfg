CONSTANTS
    GUI_KEY_QUEUE_SIZE = 2
    USB_NO_CONNECT_STABLE_POLLS = 2
    USB_ENUM_STABLE_POLLS = 1
    USB_ENUM_START_DELAY_POLLS = 2
    USB_ENUM_RETRY_POLLS = 2
    HaltLimit = 2
    INPUT_EVENT_QUEUE_SIZE = 3
    EventBudget = 2
    MaxKeys = 3
    MaxCable = 2
    Kinds = {"kbd", "mouse"}
SPECIFICATION HidSpec
INVARIANTS
    KeysInOrder
    HeldIsReal
PROPERTY
    PluggedWorks

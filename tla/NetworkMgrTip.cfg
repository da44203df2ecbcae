CONSTANTS
    check = check
    notify = notify
    s1 = s1
    None = None
    NDaemons = 2
    Submitters = {}
    CheckTimer = check
    NotifyTimer = notify
    StartHeight = 1
    MaxHeight = 2
SPECIFICATION Spec
PROPERTIES TemplateOnTip

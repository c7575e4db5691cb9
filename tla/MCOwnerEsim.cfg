SPECIFICATION Spec
CONSTANTS
    web = web
    smsTask = smsTask
    esimTask = esimTask
    None = None
    Tasks = {smsTask, esimTask}
    SmsTask = smsTask
    EsimTasks = {esimTask}
    SlotCount = 2
    MaxCalls = 3
    MaxAcks = 0
    MaxResets = 1
    MaxOps = 1
INVARIANT EsimNotTruncated

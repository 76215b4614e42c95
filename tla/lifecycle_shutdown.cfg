SPECIFICATION Spec
CONSTANTS
    command = command
    hook1 = hook1
    hook2 = hook2
    Commands <- MCCommands
    Webhooks <- MCWebhooks
    MaxRestarts = 0
PROPERTY
    SignalStopsTheServer

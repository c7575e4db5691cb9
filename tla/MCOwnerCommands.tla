--------------------------- MODULE MCOwnerCommands ---------------------------
EXTENDS OwnerCommands
CONSTANTS web, smsTask, esimTask
=============================================================================

----------------------------- MODULE MCEventJournal ----------------------------
EXTENDS EventJournal

CONSTANTS task, request

================================================================================

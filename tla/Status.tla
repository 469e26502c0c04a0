------------------------------- MODULE Status -------------------------------
(***************************************************************************)
(* The status codes of gt/error.h and the text gt_status_string gives for  *)
(* each of them.                                                           *)
(***************************************************************************)
EXTENDS Naturals

\* gt_status_t: the number of every status, without the prefix GT_STATUS_.
Code == [
    SUCCESS |-> 0, INVALID_ARGUMENT |-> 1, INVALID_STATE |-> 2,
    OUT_OF_MEMORY |-> 3, UNSUPPORTED |-> 4, INTERNAL_ERROR |-> 5,
    RUNTIME_ALREADY_INITIALIZED |-> 100, RUNTIME_NOT_INITIALIZED |-> 101,
    RUNTIME_RUNNING |-> 102, RESOURCE_EXHAUSTED |-> 103,
    TASK_LIMIT_REACHED |-> 200, TASK_NOT_FOUND |-> 201,
    VM_RESERVATION_FAILED |-> 600, VM_PROTECTION_FAILED |-> 601,
    VM_RELEASE_FAILED |-> 602, PAGE_SIZE_UNAVAILABLE |-> 603]

StatusCodes == DOMAIN Code

\* The cases of the switch in gt_status_string.
Text == [
    SUCCESS |-> "success", INVALID_ARGUMENT |-> "invalid argument",
    INVALID_STATE |-> "invalid state", OUT_OF_MEMORY |-> "out of memory",
    UNSUPPORTED |-> "unsupported operation", INTERNAL_ERROR |-> "internal error",
    RUNTIME_ALREADY_INITIALIZED |-> "runtime already initialized",
    RUNTIME_NOT_INITIALIZED |-> "runtime not initialized",
    RUNTIME_RUNNING |-> "runtime already running",
    TASK_LIMIT_REACHED |-> "task limit reached",
    TASK_NOT_FOUND |-> "task not found",
    VM_RESERVATION_FAILED |-> "vm mapping reservation failed",
    VM_PROTECTION_FAILED |-> "vm mapping protection failed",
    VM_RELEASE_FAILED |-> "vm mapping release failed",
    PAGE_SIZE_UNAVAILABLE |-> "page size unavailable"]

Unknown == "unknown status"
StatusString(status) == IF status \in DOMAIN Text THEN Text[status] ELSE Unknown
=============================================================================

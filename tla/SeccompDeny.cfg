\* One edit of the whitelist: a syscall with a handler of its own is denied.
CONSTANTS
  Nr <- AllNr
  Calls <- SomeCalls
  default_whitelist <- Default
  notify_fs_syscalls <- NotifyFs
  SYS_clone3 = 435
  SYS_clone = 56
  SYS_socket = 41
  SYS_ioctl = 16
  Handshake <- ChildCalls
  MAX_WHITELIST_SIZE = 6
  JumpWidth = 21
  MaxEdits = 1
  Orders <- BothOrders
SPECIFICATION Spec
INVARIANT DeniedIsKilled

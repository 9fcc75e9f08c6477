CONSTANTS
  a = a
  b = b
  c = c
  lib = lib
  T = T
  U = U
  N = N
  P = P
  K = K
  None = None
  Error = Error
  Modules = {a, b, c, lib}
  Names = {T, U, N, P, K}
  Programs <- AllPrograms
SPECIFICATION Spec
INVARIANT SilenceIsEarned
CHECK_DEADLOCK FALSE

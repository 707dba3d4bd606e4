------------------------- MODULE MCPasswordLockout -------------------------
(* The lockout on a small clock: two failures lock, locks 2, 4, 5, 5, ...  *)
EXTENDS PasswordLockout
=============================================================================

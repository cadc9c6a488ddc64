-------------------------- MODULE PoolParameters ---------------------------
(* What the parts of internal/pool are about: instances carry requests,    *)
(* and sessions, named by keys, are pinned to them.  Sessions and Routing  *)
(* both extend this module, and PoolProofs extends them and Health: that   *)
(* is why the three name their specifications apart.                       *)

CONSTANTS
  Instance,  \* the instances of the fleet
  Key,       \* the keys of sessions
  None       \* no instance, no key
=============================================================================

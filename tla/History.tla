-------------------------------- MODULE History --------------------------------
(* What the walk of Walker and the counters of Deobfuscator both tell of. *)
VARIABLE
    seen         \* the nodes handlers were called on, as they entered
===============================================================================

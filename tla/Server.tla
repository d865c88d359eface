------------------------------- MODULE Server -------------------------------
(* What the components of the backend have in common.                       *)

CONSTANTS
    Process,    \* server processes, each with its own memory and event loop
    None        \* Python's None: no value
=============================================================================

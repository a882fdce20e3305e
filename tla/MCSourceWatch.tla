---------------------------- MODULE MCSourceWatch ----------------------------
(* A small instance of SourceWatch: one monitor that was bought and one that *)
(* the marketplace ordered, checked one per turn of the loop.                *)
EXTENDS SourceWatch

CONSTANTS bought, ordered, old, new
=============================================================================

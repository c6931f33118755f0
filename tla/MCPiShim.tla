------------------------------ MODULE MCPiShim ------------------------------
(* PiShim for the model checker: one project, two services of which one is *)
(* approved at first, two activations at once, three loads of the          *)
(* extension, two wrapper processes at most.                               *)
EXTENDS PiShim

MCServices == 1 .. 2
MCApprovals == {{1}}
MCIds == 1 .. 2
=============================================================================

------------------------------ MODULE MCSetup -------------------------------
(* A chain fetched from nothing: its headers, four blocks, then three more of *)
(* which one is already checked.                                              *)
EXTENDS Setup

I(blocks, headers, ibd) == [blocks |-> blocks, headers |-> headers, ibd |-> ibd]

MCInfos == <<I(0, 0, TRUE), I(0, 4, TRUE), I(4, 4, FALSE), I(4, 7, FALSE), I(5, 7, FALSE)>>
=============================================================================

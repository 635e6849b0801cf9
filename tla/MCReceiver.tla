------------------------------ MODULE MCReceiver ------------------------------
(***************************************************************************)
(* The ground's receiver, with two packets whose contents look like        *)
(* delimiters.                                                             *)
(***************************************************************************)
EXTENDS GroundReceiver

MCStreams == {<<<<1, 2>>, <<255, 34>>, <<51, 255>>>>}
===============================================================================

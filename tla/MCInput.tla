------------------------------ MODULE MCInput ------------------------------
(* A touch screen with tracking ids, an accelerometer, and a receiver of a *)
(* keyboard and a mouse that may be plugged in.                            *)
EXTENDS Input

MCStyle == [s \in Screens |-> "tracking"]
=============================================================================

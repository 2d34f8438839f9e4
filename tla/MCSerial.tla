------------------------------ MODULE MCSerial ------------------------------
(* The serial driver: two tasks that read, and three characters that arrive *)
(* while they run, one more than the buffer holds.                          *)
EXTENDS Serial

(* Two letters with a carriage return between them.                         *)
MCInput == <<1, 13, 2>>
=============================================================================

---- MODULE MCHardware ----
(* A small instance of Hardware for TLC. *)
EXTENDS Hardware

CONSTANTS dashboard, user

(* An NVIDIA card is added beside an AMD one. *)
MCBoxes == << <<"amd">>, <<"amd", "nvidia">> >>
====

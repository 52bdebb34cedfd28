------------------------------- MODULE MCGui -------------------------------
(* Instances of Gui for TLC. *)
EXTENDS Gui

EveryScene == AllScenes
Axes == {0, 1}
Screens == {3, 5}
====

------------------------------ MODULE MCInstaller ------------------------------
(***************************************************************************)
(* Instances of Installer for TLC: a model and a wheel are downloaded, and *)
(* the two directories of the wheel are unpacked.                          *)
(***************************************************************************)
EXTENDS Installer

CONSTANTS model, wheel, package, info

MCDownloads == << model, wheel >>
MCPackages == << package, info >>
MCWheel == [i \in {package, info} |-> wheel]
===============================================================================

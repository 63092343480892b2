------------------------------- MODULE MCStartup -------------------------------
(* An instance of Startup for TLC: a file beside the program, one in the home *)
(* directory and one named on the command line, and a port with one fallback. *)
EXTENDS Startup

CONSTANTS exe, home, given

MCCandidates == <<exe, home>>
===============================================================================

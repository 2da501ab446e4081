------------------------------- MODULE MCLab4c -------------------------------
(* Scripts for the run of Lab4c.                                            *)
EXTENDS Lab4c

SmallScripts ==
  { <<"ST", "OP", CR!Newline, "ST", "ART", CR!Newline>>,
    <<"ST", "OP", CR!Newline, "OFF", CR!Newline>>,
    <<"SCALE=", "C", CR!Newline, "OFF", CR!Newline>>,
    <<"PERIOD=", "0", CR!Newline, "LOG", "1", "2", "1">> }
=============================================================================

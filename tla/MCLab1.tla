------------------------------- MODULE MCLab1 -------------------------------
(* Scripts and output for the runs of Lab1.                                 *)
EXTENDS Lab1

SmallScripts ==
  { <<"a", NL, "b", NL, EOT>>,
    <<"a", NL, ETX, NL>> }

ShortScripts == { <<"a", NL>> }

TwoPieces == <<"1", "2">>
=============================================================================

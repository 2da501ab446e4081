------------------------------- MODULE MCLab4b -------------------------------
(* Scripts and first buffer contents for the runs of Lab4b.                 *)
EXTENDS Lab4b

SmallScripts ==
  { <<"ST", "OP", CR!Newline, "ST", "ART", CR!Newline>>,
    <<"ST", "OP", CR!Newline, "OFF", CR!Newline>>,
    <<"blank", "SCALE=", "C", CR!Newline, "OFF", CR!Newline>>,
    <<"PERIOD=", "0", CR!Newline, "LOG", CR!Newline>>,
    <<"OFF", CR!Newline, "LOG", CR!Newline>>,
    <<"LOG", "1", "2", "1", CR!Newline>> }

(* A stack no function has used before.                                     *)
CleanStack == {[i \in 1..BUFSIZ |-> CR!NUL]}

(* Two pieces of junk on the stack.  A first read of three pieces or more   *)
(* covers them, and a call may find them cleared.                           *)
Junk == {[i \in 1..BUFSIZ |-> CASE i = 2 -> "C" [] i = 3 -> CR!Newline
                                [] OTHER -> CR!NUL]}
=============================================================================

------------------------------- MODULE MCChat -------------------------------
(* Chat for TLC.  Blue needs two hexadecimal digits of six, so it is        *)
(* written in two ways.                                                     *)
EXTENDS Chat

AllColors == {"red", "blue"}
ColorDigits == [c \in AllColors |-> IF c = "red" THEN 6 ELSE 2]
ResponseSeconds == [r \in Response |-> IF r = "yes" THEN 1 ELSE 2]

Lines ==
  {[type |-> "other", prefix |-> "red", color |-> "blue", inner |-> <<>>, words |-> {"admin"}],
   [type |-> "chat", prefix |-> "blue", color |-> "red", inner |-> <<>>, words |-> {"there"}],
   [type |-> "other", prefix |-> "red", color |-> "red", inner |-> <<"blue">>,
    words |-> {"admin", "there"}]}
=============================================================================

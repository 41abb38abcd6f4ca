------------------------------ MODULE MupdateMC ------------------------------
(* Instances of Mupdate: two names whose order the two sorts agree on, or  *)
(* do not.                                                                 *)
EXTENDS Mupdate

MCOrder == <<"a.b", "a-b">>
MCStrcmp == <<"a-b", "a.b">>
MCSame == <<"a", "b">>
MCOne == <<"a">>
=============================================================================

--------------------------- MODULE MCGroupChannels ---------------------------
(* Model-checking instances of GroupChannels. *)
EXTENDS GroupChannels

CONSTANTS g1, u1    \* a group and one of the users

AllChannels == {<<"group", g1>>, <<"ephemeral-group", g1>>, <<"user", u1>>}
=============================================================================

------------------------------ MODULE MCPlugins ------------------------------
(* Plugins on small instances: see the comments of the .cfg files.         *)
EXTENDS Plugins

First == <<"s1">>
=============================================================================

----------------------------- MODULE MCUpdater -----------------------------
(***************************************************************************)
(* Instance of Updater for TLC.                                            *)
(***************************************************************************)
EXTENDS Updater

\* The first release, a private build with the release key, a source build.
Installs == {Released(1), Released(Dev), Other(Dev)}

\* 0.2.9, 0.2.10 and 0.10.0: as strings each would come before the previous one.
Tags == <<<<<<0>>, <<2>>, <<9>>>>, <<<<0>>, <<2>>, <<1, 0>>>>, <<<<0>>, <<1, 0>>, <<0>>>>>>
=============================================================================

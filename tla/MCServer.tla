------------------------------ MODULE MCServer ------------------------------
(***************************************************************************)
(* Server for model checking.  The build without on_exit() is looked at    *)
(* with a pidfile that can be written and is not there; the one with it    *)
(* also with that of a dead process, and with one that cannot be written,  *)
(* where it makes no difference what is in it.                             *)
(***************************************************************************)
EXTENDS Server

MCInit ==
  /\ ServerInit
  /\ unix /\ ~onExit => writable /\ pidfile = Nobody
  /\ unix /\ ~writable => pidfile = Nobody

MCSpec == MCInit /\ [][ServerNext]_serverVars /\ ServerFairness
=============================================================================

-------------------------- MODULE MCTestController --------------------------
(* A small instance of TestController: the constants are in the .cfg.      *)
EXTENDS TestController
=============================================================================

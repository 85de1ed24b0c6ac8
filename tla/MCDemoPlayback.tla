---------------------------- MODULE MCDemoPlayback ----------------------------
(* Lead-ins and outros for TLC.                                            *)
EXTENDS DemoPlayback

MCMargins == {<<2, 1>>, <<0, 0>>}
===============================================================================

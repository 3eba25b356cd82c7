---------------------------- MODULE MCSkvsServer ----------------------------
(* Small instances of SkvsServer: one client sends two requests, the others*)
(* one.                                                                    *)
EXTENDS SkvsServer

MCMaxRequests ==
  LET talkative == CHOOSE c \in Clients : TRUE
  IN  [c \in Clients |-> IF c = talkative THEN 2 ELSE 1]
=============================================================================

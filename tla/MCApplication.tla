---------------------------- MODULE MCApplication ----------------------------
(* The applications by themselves, and what ListenEvent is called with:    *)
(* a topic and a method, as its parameters say.                            *)
EXTENDS Application
CONSTANTS topic, consume
MCRoutes == [m \in {consume} |-> "POST"]
MCListens == {<<topic, consume>>}
=============================================================================

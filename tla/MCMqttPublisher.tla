--------------------------- MODULE MCMqttPublisher ---------------------------
(* Two places, so that the settings can move the connection, and two handlers, *)
(* so that two updates can overlap; the application starts enabled.            *)
EXTENDS MqttPublisher

CONSTANTS here, there, h1, h2

MCPlaces == {here, there}
MCHandlers == {h1, h2}
MCInitial == [enabled |-> TRUE, place |-> here]

=============================================================================

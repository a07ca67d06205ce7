---------------------------- MODULE MCHfpdAudio ----------------------------
(* Two gateways that only differ by name, and every choice of options.     *)
EXTENDS HfpdAudio, TLC

AllOptions == {"acceptunknown", "voicepersist", "voiceautoconnect"}
AnyGateway == Permutations(Gateway)
=============================================================================

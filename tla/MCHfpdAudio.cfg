\* Two gateways and a client, with every choice of options.
SPECIFICATION Spec
CONSTANTS
    Gateway = {phone, car}
    Client = {gui}
    None = None
    Options <- AllOptions
SYMMETRY AnyGateway
INVARIANTS AudioAgrees OnlyMembufFaults
PROPERTIES StrangersRefused StrangersLeave
CHECK_DEADLOCK FALSE

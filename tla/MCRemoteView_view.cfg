\* A client that connects, is welcomed or refused, plays, is cut off, dials again.
SPECIFICATION FairSpec
CONSTANTS
    Places = {"hall", "yard"}
    Chunks = {"c1", "c2", "c3", "hole"}
    Content = {"c1", "c2", "c3"}
    Near <- Surroundings
    Crowd <- Quiet
    MaxChunks = 1
    MaxActors = 255
    HeaderBits = 48
    ActorBits = 142
    PacketBits = 32768
    MaxTick = 4
    MaxFlight = 2
    MaxCommands = 2
INVARIANTS SentMeansComing ReasonIsHeard
PROPERTIES MapArrives 

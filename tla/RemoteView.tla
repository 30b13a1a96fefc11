----------------------------- MODULE RemoteView -----------------------------
(***************************************************************************)
(* What one remote player gets to see: the server pushes map chunks on the *)
(* reliable channel and snapshots of the actors around it on the           *)
(* unreliable one, and RemoteSession builds its WorldView from both.       *)
(*                                                                         *)
(* The channels are ENet's.  The reliable one keeps order and loses        *)
(* nothing while the link holds; the unreliable one may lose a packet but  *)
(* does not reorder ("unreliable sequenced", transport.hpp).  Between the  *)
(* two there is no order.  The link may fail at any time, and each end     *)
(* learns of it in its own time.                                           *)
(***************************************************************************)
EXTENDS Naturals, Sequences

CONSTANTS
    Places,        \* where the player's actor may be
    Chunks,        \* map chunks, those off the map or without ground included
    Near,          \* [place -> chunks around it, in the order of the loops]
    Content,       \* the chunks with some ground in them
    Crowd,         \* [place -> actors in the area of interest]
    MaxChunks,     \* kMaxChunksPerTick
    MaxActors,     \* kMaxActorsPerSnapshot
    HeaderBits, ActorBits, PacketBits,  \* the sizes write_snapshot works with
    MaxTick,       \* bound: the world is at rest after this tick
    MaxFlight,     \* bound: unreliable packets under way
    MaxCommands    \* bound: commands under way

ASSUME RemoteViewAssumption ==
    /\ Near \in [Places -> Seq(Chunks)]
    /\ Content \subseteq Chunks
    /\ Crowd \in [Places -> Nat]
    /\ {MaxChunks, MaxActors, MaxTick, MaxFlight, MaxCommands} \subseteq Nat \ {0}
    /\ {HeaderBits, ActorBits, PacketBits} \subseteq Nat

VARIABLES
    link,      \* "none", "up", "closed" by the server or "failed"
    server,    \* the Connection: "none", "fresh", "in" (welcomed), "refused"
    sent,      \* Connection::sent_chunks
    place,     \* where the actor is
    tick,      \* world.tick(), counted in snapshots
    client,    \* RemoteSession::status_
    ready,     \* WorldView::ready, and local_id is known
    viewTick,  \* WorldView::tick
    shown,     \* the tick WorldView::actors were taken at, 0 for none yet
    known,     \* the chunks in WorldView::map
    up,        \* reliable, to the server
    down,      \* reliable, to the client
    loose      \* unreliable, to the client: the ticks of snapshots

serverVars == <<server, sent, place, tick>>
clientVars == <<client, ready, viewTick, shown, known>>
vars == <<link, serverVars, clientVars, up, down, loose>>

Alive == client \in {"connecting", "handshaking", "connected"}

Hello(good) == [kind |-> "hello", good |-> good]
Command     == [kind |-> "command"]
WelcomeMsg  == [kind |-> "welcome", tick |-> tick]
Reject      == [kind |-> "reject"]
Chunk(c)    == [kind |-> "chunk", chunk |-> c]

(* A RemoteSession that has just been made. *)
NewSession ==
    /\ client' = "connecting"
    /\ ready' = FALSE /\ viewTick' = 0 /\ shown' = 0 /\ known' = {}

Init ==
    /\ link = "none"
    /\ server = "none" /\ sent = {} /\ place \in Places /\ tick = 1
    /\ client = "connecting"
    /\ ready = FALSE /\ viewTick = 0 /\ shown = 0 /\ known = {}
    /\ up = <<>> /\ down = <<>> /\ loose = <<>>

(* What is queued for a peer whose link is gone goes nowhere. *)
Queue(channel, msgs) == IF link = "up" THEN channel \o msgs ELSE channel

----------------------------------------------------------------------------
(* The link. *)

(* Both ends see Connected, the client says hello; whether the server will *)
(* like it depends on the versions of the two programs.                    *)
Connect(good) ==
    /\ link = "none" /\ client = "connecting" /\ server = "none"
    /\ link' = "up"
    /\ server' = "fresh" /\ sent' = {}
    /\ client' = "handshaking"
    /\ up' = <<Hello(good)>>
    /\ UNCHANGED <<place, tick, ready, viewTick, shown, known, down, loose>>

Cut(how) ==
    /\ link' = how
    /\ up' = <<>> /\ down' = <<>> /\ loose' = <<>>

(* The network, or the player closing the window. *)
Fail ==
    /\ link = "up"
    /\ Cut("failed")
    /\ UNCHANGED <<serverVars, clientVars>>

(* Faulty: enet_peer_disconnect_now in its place, before the reason is out. *)
DisconnectNow ==
    /\ link = "up" /\ server = "refused"
    /\ Cut("closed")
    /\ UNCHANGED <<serverVars, clientVars>>

(* enet_peer_disconnect_later: once everything queued has been delivered.  *)
DisconnectLater ==
    /\ link = "up" /\ server = "refused"
    /\ down = <<>>
    /\ Cut("closed")
    /\ UNCHANGED <<serverVars, clientVars>>

(* Disconnected, at the server: the Connection is erased. *)
PeerGone ==
    /\ link \in {"closed", "failed"} /\ server # "none"
    /\ server' = "none" /\ sent' = {}
    /\ UNCHANGED <<link, place, tick, clientVars, up, down, loose>>

(* Disconnected, at the client. *)
ServerGone ==
    /\ link \in {"closed", "failed"} /\ Alive
    /\ client' = "disconnected"
    /\ UNCHANGED <<link, serverVars, ready, viewTick, shown, known, up, down, loose>>

(* The player starts the client again. *)
Redial ==
    /\ link \in {"closed", "failed"} /\ ~ Alive /\ server = "none"
    /\ link' = "none"
    /\ NewSession
    /\ UNCHANGED <<serverVars, up, down, loose>>

----------------------------------------------------------------------------
(* The server. *)

HandleHello ==
    /\ link = "up" /\ up # <<>> /\ Head(up).kind = "hello"
    /\ up' = Tail(up)
    /\ IF Head(up).good
       THEN /\ server' = "in"
            /\ down' = Append(down, WelcomeMsg)
       ELSE /\ server' = "refused"
            /\ down' = Append(down, Reject)
    /\ UNCHANGED <<link, sent, place, tick, clientVars, loose>>

(* Equip, attack and their like: what they do is not the business here;    *)
(* a peer that is not welcomed is ignored.                                 *)
HandleCommand ==
    /\ link = "up" /\ up # <<>> /\ Head(up).kind = "command"
    /\ up' = Tail(up)
    /\ UNCHANGED <<link, serverVars, clientVars, down, loose>>

Move(q) ==
    /\ server = "in" /\ q # place
    /\ place' = q
    /\ UNCHANGED <<link, server, sent, tick, clientVars, up, down, loose>>

(* Faulty: what the limit leaves out is marked as sent as well. *)
StreamChunkMarkAll(s, c) ==
    [sent |-> s.sent \cup {c},
     out  |-> IF Len(s.out) < MaxChunks /\ c \in Content \ s.sent
              THEN Append(s.out, Chunk(c)) ELSE s.out]

(* stream_chunks: in the order of the loops, what has not been sent yet,   *)
(* until MaxChunks are on their way; a chunk without ground only counts as *)
(* sent.                                                                   *)
StreamChunk(s, c) ==
    IF Len(s.out) >= MaxChunks \/ c \in s.sent THEN s
    ELSE [sent |-> s.sent \cup {c},
          out  |-> IF c \in Content THEN Append(s.out, Chunk(c)) ELSE s.out]

Streamed ==
    LET around == Near[place]
        after[k \in 0..Len(around)] ==
            IF k = 0 THEN [sent |-> sent, out |-> <<>>]
            ELSE StreamChunk(after[k - 1], around[k])
    IN  after[Len(around)]

Least(a, b) == IF a <= b THEN a ELSE b

(* write_snapshot carries no more than MaxActors; send_message drops a     *)
(* packet that has outgrown its buffer.                                    *)
Carried == Least(Crowd[place], MaxActors)
Fits    == HeaderBits + Carried * ActorBits <= PacketBits

(* Faulty: connections that are not welcomed yet are served too. *)
SnapshotTickForAll ==
    /\ tick' = Least(tick + 1, MaxTick)
    /\ IF server # "none"
       THEN /\ sent' = Streamed.sent
            /\ down' = Queue(down, Streamed.out)
            /\ loose' = IF Fits /\ Len(loose) < MaxFlight THEN Queue(loose, <<tick'>>) ELSE loose
       ELSE UNCHANGED <<sent, down, loose>>
    /\ UNCHANGED <<link, server, place, clientVars, up>>

(* Every third tick: chunks, then a snapshot.  A full channel stands for   *)
(* the packet being lost at once.                                          *)
SnapshotTick ==
    /\ tick' = Least(tick + 1, MaxTick)
    /\ IF server = "in"
       THEN /\ sent' = Streamed.sent
            /\ down' = Queue(down, Streamed.out)
            /\ loose' = IF Fits /\ Len(loose) < MaxFlight THEN Queue(loose, <<tick'>>) ELSE loose
       ELSE UNCHANGED <<sent, down, loose>>
    /\ UNCHANGED <<link, server, place, clientVars, up>>

----------------------------------------------------------------------------
(* The client. *)

(* request_attack and the others: not before local_id is known. *)
Request ==
    /\ Alive /\ ready
    /\ Len(up) < MaxCommands
    /\ up' = Queue(up, <<Command>>)
    /\ UNCHANGED <<link, serverVars, clientVars, down, loose>>

(* S2C_Welcome: an empty map of the right size; the actors stay. *)
ApplyWelcome(msg) ==
    /\ client' = "connected"
    /\ ready' = TRUE /\ viewTick' = msg.tick /\ known' = {}
    /\ UNCHANGED shown

(* S2C_MapChunk: only what lies on the map, and before Welcome nothing does. *)
ApplyChunk(msg) ==
    /\ known' = IF ready THEN known \cup {msg.chunk} ELSE known
    /\ UNCHANGED <<client, ready, viewTick, shown>>

ApplyReject ==
    /\ client' = "rejected"
    /\ UNCHANGED <<ready, viewTick, shown, known>>

ReceiveReliable ==
    /\ link = "up" /\ Alive /\ down # <<>>
    /\ down' = Tail(down)
    /\ LET msg == Head(down)
       IN  \/ msg.kind = "welcome" /\ ApplyWelcome(msg)
           \/ msg.kind = "chunk"   /\ ApplyChunk(msg)
           \/ msg.kind = "reject"  /\ ApplyReject
    /\ UNCHANGED <<link, serverVars, up, loose>>

(* Faulty: the comparison the wrong way round. *)
Ahead(t) == ready /\ t > viewTick

Stale(t) == ready /\ t < viewTick

ReceiveSnapshot ==
    /\ link = "up" /\ Alive /\ loose # <<>>
    /\ loose' = Tail(loose)
    /\ IF Stale(Head(loose)) THEN UNCHANGED <<viewTick, shown>>
       ELSE viewTick' = Head(loose) /\ shown' = Head(loose)
    /\ UNCHANGED <<link, serverVars, client, ready, known, up, down>>

LoseSnapshot ==
    /\ loose # <<>>
    /\ loose' = Tail(loose)
    /\ UNCHANGED <<link, serverVars, clientVars, up, down>>

----------------------------------------------------------------------------
Next ==
    \/ \E good \in BOOLEAN : Connect(good)
    \/ Fail \/ DisconnectLater \/ PeerGone \/ ServerGone \/ Redial
    \/ HandleHello \/ HandleCommand \/ SnapshotTick
    \/ \E q \in Places : Move(q)
    \/ Request \/ ReceiveReliable \/ ReceiveSnapshot \/ LoseSnapshot

Spec == Init /\ [][Next]_vars

(* Both programs keep looping, ENet resends what is reliable, and the      *)
(* network does not lose every snapshot.                                   *)
FairSpec ==
    /\ Spec
    /\ WF_vars(SnapshotTick) /\ WF_vars(HandleHello) /\ WF_vars(HandleCommand)
    /\ WF_vars(ReceiveReliable) /\ SF_vars(ReceiveSnapshot)
    /\ WF_vars(DisconnectLater) /\ WF_vars(ServerGone)

----------------------------------------------------------------------------
(* A chunk the server will not send again is on the client's map, or under *)
(* way behind whatever would wipe it: Welcome makes a new map, and a new   *)
(* connection starts with nothing sent (Connection::sent_chunks).          *)
SentMeansComing ==
    link = "up" =>
        \A c \in sent \cap Content :
            \/ c \in known /\ \A k \in DOMAIN down : down[k].kind # "welcome"
            \/ \E k \in DOMAIN down :
                  /\ down[k] = Chunk(c)
                  /\ \A j \in DOMAIN down : down[j].kind = "welcome" => j < k
                  /\ ready \/ \E j \in 1..k : down[j].kind = "welcome"

(* A client the server turns away is told why before it is disconnected    *)
(* (ITransport::disconnect): it only sees a bare end when the link failed. *)
ReasonIsHeard ==
    link = "closed" => client = "rejected"

(* A player that stays somewhere has the ground around it sooner or later, *)
(* however many chunks that is and whatever it had been sent before.       *)
Playing     == server = "in" /\ link = "up" /\ Alive
Staying(q)  == Playing /\ place = q
Around(q)   == Content \cap {Near[q][k] : k \in DOMAIN Near[q]}

MapArrives ==
    \A q \in Places : <>[]Staying(q) => <>[](Around(q) \subseteq known)

(* A player that stays connected keeps seeing the world as it has become:  *)
(* a snapshot that is lost, overtaken by Welcome or stale costs nothing    *)
(* (docs/architecture.md: the next one says exactly where the step is; and *)
(* protocol.hpp: an oversized snapshot is truncated).                      *)
ViewKeepsUp ==
    <>[]Playing => []<>(shown = tick)
=============================================================================

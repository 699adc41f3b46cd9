--------------------------- MODULE ConnectionManager ---------------------------
(***************************************************************************)
(* ConnectionManager and websocket_endpoint (api/websocket_manager.py):    *)
(* the sockets of each session, the endpoint coroutine of each socket, and *)
(* broadcasts that walk a session's list while it changes under them.      *)
(*                                                                         *)
(* All of it runs on one event loop, so code between two awaits is one     *)
(* action.  broadcast iterates over the list object itself: an index moves *)
(* on while disconnect shifts the elements to its right, and once the list *)
(* is empty its key is deleted, so that a later connect starts a list this *)
(* broadcast does not know (field live).                                   *)
(***************************************************************************)
EXTENDS Naturals, SequencesExt

CONSTANTS Sockets,     \* connections that exist at the same time, numbered
          Sessions,    \* session ids
          Broadcasts   \* calls of broadcast

ASSUME SocketsAssumption == Sockets \subseteq Nat

VARIABLES active,      \* active_connections[s]; <<>> if there is no such key
          endpoint,    \* where the endpoint coroutine of a socket is
          peer,        \* "up" or "gone": the other end, which may vanish unseen
          sessionOf,   \* the session in the socket's URL
          inbox,       \* the frames on their way to the peer
          sending      \* the broadcasts

connectionVars == <<active, endpoint, peer, sessionOf, inbox, sending>>

Messages == {"END", "error"}

Listed(s) == ToSet(active[s])

Idle == [pc |-> "idle", session |-> "none", message |-> "none",
         next |-> 1, live |-> TRUE, dead |-> {}, due |-> {}]

ConnectionInit ==
  /\ active = [s \in Sessions |-> <<>>]
  /\ endpoint = [c \in Sockets |-> "none"]
  /\ peer = [c \in Sockets |-> "gone"]
  /\ sessionOf = [c \in Sockets |-> "none"]
  /\ inbox = [c \in Sockets |-> <<>>]
  /\ sending = [b \in Broadcasts |-> Idle]

-----------------------------------------------------------------------------
(* The endpoint *)

\* await websocket.accept(): from here on the peer takes the socket for open.
Accept(c) ==
  /\ endpoint[c] = "accepting" /\ peer[c] = "up"
  /\ endpoint' = [endpoint EXCEPT ![c] = "accepted"]
  /\ UNCHANGED <<active, peer, sessionOf, inbox, sending>>

\* accept raises; the endpoint's try block has not begun, nothing is listed.
AcceptFails(c) ==
  /\ endpoint[c] = "accepting" /\ peer[c] = "gone"
  /\ endpoint' = [endpoint EXCEPT ![c] = "none"]
  /\ sessionOf' = [sessionOf EXCEPT ![c] = "none"]
  /\ UNCHANGED <<active, peer, inbox, sending>>

\* The rest of connect.
Register(c) ==
  /\ endpoint[c] = "accepted"
  /\ endpoint' = [endpoint EXCEPT ![c] = "serving"]
  /\ active' = [active EXCEPT ![sessionOf[c]] = Append(@, c)]
  /\ UNCHANGED <<peer, sessionOf, inbox, sending>>

\* Mutant of Rest: the first disconnect deletes the whole group.
RestOfNobody(s, C) == <<>>

\* What disconnect, called for each socket of C, leaves of the list; unlisted
\* sockets are ignored, and an empty list is deleted with its key.
Rest(s, C) ==
  LET left[i \in 0..Len(active[s])] ==
        IF i = 0 THEN <<>>
        ELSE IF active[s][i] \in C THEN left[i - 1] ELSE Append(left[i - 1], active[s][i])
  IN  left[Len(active[s])]

Disconnect(s, C) == active' = [active EXCEPT ![s] = Rest(s, C)]

\* A broadcast b after disconnect: nothing is due to the sockets C any more.
\* due is a history: the peers that were listed when the broadcast began, are
\* still there and have not been sent the message.
AfterDisconnect(b, s, C) ==
  IF b.pc = "sending" /\ b.session = s
  THEN [b EXCEPT !.due = @ \ C, !.live = @ /\ (active[s] = <<>> \/ Rest(s, C) # <<>>)]
  ELSE b

\* Mutant of Leave: the branch for other exceptions forgets the disconnect.
LeaveListed(c) ==
  /\ endpoint[c] = "serving"
  /\ endpoint' = [endpoint EXCEPT ![c] = "none"]
  /\ sessionOf' = [sessionOf EXCEPT ![c] = "none"]
  /\ peer' = [peer EXCEPT ![c] = "gone"]
  /\ inbox' = [inbox EXCEPT ![c] = <<>>]
  /\ UNCHANGED <<active, sending>>

\* receive_text or a reply raises, or a message cannot be handled: the endpoint
\* returns and with it the connection is closed.
Leave(c) ==
  /\ endpoint[c] = "serving"
  /\ endpoint' = [endpoint EXCEPT ![c] = "none"]
  /\ sessionOf' = [sessionOf EXCEPT ![c] = "none"]
  /\ peer' = [peer EXCEPT ![c] = "gone"]
  /\ inbox' = [inbox EXCEPT ![c] = <<>>]
  /\ Disconnect(sessionOf[c], {c})
  /\ sending' = [b \in Broadcasts |-> AfterDisconnect(sending[b], sessionOf[c], {c})]

\* The other end closes, or the network does; the endpoint has not noticed yet.
\* Frames that were on their way are lost.
Gone(C) ==
  /\ peer' = [c \in Sockets |-> IF c \in C THEN "gone" ELSE peer[c]]
  /\ inbox' = [c \in Sockets |-> IF c \in C THEN <<>> ELSE inbox[c]]
  /\ sending' = [b \in Broadcasts |-> [sending[b] EXCEPT !.due = @ \ C]]

-----------------------------------------------------------------------------
(* broadcast *)

\* Up to the first send.  Without a list it returns at once.
Broadcast(b, s, m) ==
  sending' = [sending EXCEPT ![b] =
                IF active[s] = <<>>
                THEN [Idle EXCEPT !.pc = "done", !.session = s, !.message = m]
                ELSE [Idle EXCEPT !.pc = "sending", !.session = s, !.message = m,
                                  !.due = {c \in Listed(s) : peer[c] = "up"}]]

Remaining(b) ==
  IF sending[b].live THEN Len(active[sending[b].session]) + 1 - sending[b].next ELSE 0

Addressee(b) == active[sending[b].session][sending[b].next]

MovesOn(b, c) == [sending[b] EXCEPT !.next = @ + 1, !.due = @ \ {c}]

\* send_json writes the frame; other coroutines may run before the next one.
Send(b) ==
  /\ sending[b].pc = "sending" /\ Remaining(b) > 0
  /\ LET c == Addressee(b)
     IN  /\ peer[c] = "up"
         /\ inbox' = [inbox EXCEPT ![c] = Append(@, sending[b].message)]
         /\ sending' = [sending EXCEPT ![b] = MovesOn(b, c)]
  /\ UNCHANGED <<active, endpoint, peer, sessionOf>>

\* The peer has vanished: send_json raises, or the transport takes the frame.
SendToNobody(b) ==
  /\ sending[b].pc = "sending" /\ Remaining(b) > 0
  /\ LET c == Addressee(b)
     IN  /\ peer[c] = "gone"
         /\ \E raised \in BOOLEAN :
               sending' = [sending EXCEPT ![b] =
                             [MovesOn(b, c) EXCEPT !.dead = IF raised THEN @ \cup {c} ELSE @]]
  /\ UNCHANGED <<active, endpoint, peer, sessionOf, inbox>>

\* The loop is exhausted; the dead are disconnected.
SendEnds(b) ==
  /\ sending[b].pc = "sending" /\ Remaining(b) <= 0
  /\ LET s == sending[b].session
         C == sending[b].dead
     IN  /\ Disconnect(s, C)
         /\ sending' = [x \in Broadcasts |->
              IF x = b THEN [Idle EXCEPT !.pc = "done", !.session = s,
                                         !.message = sending[b].message, !.due = sending[b].due]
              ELSE AfterDisconnect(sending[x], s, C)]
  /\ UNCHANGED <<endpoint, peer, sessionOf, inbox>>

Endpoint(c) == Accept(c) \/ AcceptFails(c) \/ Register(c)
Sender(b) == Send(b) \/ SendToNobody(b) \/ SendEnds(b)

-----------------------------------------------------------------------------
(* Properties *)

ConnectionTypeOK ==
  /\ \A s \in Sessions : Listed(s) \subseteq Sockets
  /\ endpoint \in [Sockets -> {"none", "accepting", "accepted", "serving"}]
  /\ peer \in [Sockets -> {"up", "gone"}]
  /\ sessionOf \in [Sockets -> Sessions \cup {"none"}]
  /\ \A c \in Sockets : ToSet(inbox[c]) \subseteq Messages
  /\ \A b \in Broadcasts :
       /\ sending[b].pc \in {"idle", "sending", "done"}
       /\ sending[b].dead \cup sending[b].due \subseteq Sockets

\* The list is what the endpoints say: a socket is listed at most once, under
\* its own session and while its endpoint serves it, and a peer that is still
\* there is never struck off, whoever dies next to it and whatever broadcast
\* cleans up.
ListMatchesEndpoints ==
  \A s \in Sessions :
     /\ \A i, j \in DOMAIN active[s] : active[s][i] = active[s][j] => i = j
     /\ \A c \in Listed(s) : endpoint[c] = "serving" /\ sessionOf[c] = s
     /\ \A c \in Sockets :
          (endpoint[c] = "serving" /\ peer[c] = "up" /\ sessionOf[c] = s) => c \in Listed(s)

\* The docstring of broadcast: "Send a JSON message to every connected client
\* for a session".  Whoever was listed when it began and is still there when it
\* ends has been sent the message.
BroadcastReachesAll ==
  \A b \in Broadcasts : sending[b].pc = "done" => sending[b].due = {}

\* A vanished peer does not stay in the list.
GoneIsForgotten ==
  \A c \in Sockets : peer[c] = "gone" ~> \A s \in Sessions : c \notin Listed(s)
=============================================================================

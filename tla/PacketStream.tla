---------------------------- MODULE PacketStream ----------------------------
(***************************************************************************)
(* What the touchpad driver promises to a program that reads packets: pen  *)
(* down, moves, pen up, in this order and again.  A packet is read whole   *)
(* before the next is made, byte after byte from its first one, until      *)
(* somebody asks for a signal in the middle of one: the rest of that is    *)
(* lost, and every later packet is read from that place on, and around.    *)
(* TouchpadService shows that Touchpad implements this.                    *)
(***************************************************************************)
EXTENDS Naturals

CONSTANTS
  Size,    \* bytes of a packet
  Points   \* places on the pad

VARIABLES
  packet,  \* the last packet made
  left,    \* bytes of it still to be read
  first,   \* where packets are read from
  out,     \* the last byte read: its packet and its place there
  pen      \* "up" or "down", as the packets tell

streamVars == <<packet, left, first, out, pen>>

PacketOf(kind, at) == [kind |-> kind, at |-> at]

StreamInit ==
  /\ packet \in [kind : {"none"}, at : Points]
  /\ left = 0 /\ first = 0 /\ out = <<packet, 0>> /\ pen = "up"

\* A packet is made when the last one has been read, and may be lost when its reader
\* cannot be told.
Make(p) ==
  /\ left = 0
  /\ packet' = p
  /\ left' \in {0, Size}
  /\ UNCHANGED <<first, out>>

Down(q) == pen = "up" /\ pen' = "down" /\ Make(PacketOf("down", q))
Move(q) == pen = "down" /\ q # packet.at /\ Make(PacketOf("move", q)) /\ UNCHANGED pen
Up == pen = "down" /\ pen' = "up" /\ Make(PacketOf("up", packet.at))

\* where the next byte is
place == (first + Size - left) % Size

Take ==
  /\ left > 0
  /\ out' = <<packet, place>>
  /\ left' = left - 1
  /\ UNCHANGED <<packet, first, pen>>

\* somebody asks for a signal in the middle of a packet
Tear ==
  /\ left \in 1 .. Size - 1
  /\ first' = place
  /\ left' = 0
  /\ UNCHANGED <<packet, out, pen>>

StreamNext == (\E q \in Points : Down(q) \/ Move(q)) \/ Up \/ Take \/ Tear

StreamSpec == StreamInit /\ [][StreamNext]_streamVars
=============================================================================

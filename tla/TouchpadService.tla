-------------------------- MODULE TouchpadService --------------------------
(***************************************************************************)
(* Touchpad implements PacketStream: what is left of the packet is what    *)
(* bytes_avail says, and it is read from where pktbuf_index will be when   *)
(* nothing is left.                                                        *)
(***************************************************************************)
EXTENDS Touchpad

told == IF pointer_down_flag THEN "up" ELSE "down"

start == (pktbuf_index + bytes_avail) % PKTBUFSIZ

Stream == INSTANCE PacketStream
            WITH Size <- PKTBUFSIZ, packet <- pktbuf, left <- bytes_avail, first <- start,
                 out <- got, pen <- told

\* Who reads gets the packets in the order pen down, moves, pen up, none overwritten while
\* it is read, and each from its first byte to its last until somebody asks for a signal in
\* the middle of one: that one loses its rest, and those after it are read from that place
\* on, for good (alarm_h, read, SS_SSig).
WholePackets == Stream!StreamSpec
=============================================================================

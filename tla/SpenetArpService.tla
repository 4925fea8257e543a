-------------------------- MODULE SpenetArpService --------------------------
(***************************************************************************)
(* SpenetArp implements AddressResolution: an address is known when a      *)
(* listed entry for it is complete, and what waits for it is what that     *)
(* entry holds.                                                            *)
(***************************************************************************)
EXTENDS SpenetArp

waiting == [a \in Addrs |->
             IF arptab_look(a) = {} THEN <<>>
             ELSE hold[CHOOSE c \in arptab_look(a) : TRUE]]

Service == INSTANCE AddressResolution WITH Unknown <- Zero

\* Senders see an address resolution service: a packet goes to the address known
\* at that moment, waits among the newest, or is freed, and meets one fate.
ResolutionSpec == Service!ArpSpec
=============================================================================

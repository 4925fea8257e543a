-------------------------- MODULE NcrSiopComments --------------------------
(***************************************************************************)
(* What comments of the driver say of it and the driver does not do.      *)
(* Each property quotes its comment; a run shows how it is violated.       *)
(***************************************************************************)
EXTENDS NcrSiopService

serves(c) == c \in todo /\ c \notin todo'

\* "When he reselects however, we will abort him" (siop_udc): a target whose
\* command was given up is not allowed to go on with it when it reselects.
StaleReselectAborted ==
    [][serves("SC_RESEL") /\ threadstate[reselector] = "DONE"
       => dsp' # "WHICHPHASE"]_vars

\* "The script must know of and clear the select in progress flag, thus preventing
\* the abortion of connections that succeed" (seltoirq): a device that answered its
\* selection and took the command is not reported absent.
ConnectionNotAborted ==
    [][\A t \in Targets : conn = t /\ phythread = t /\ tgt[t].st = "busy"
                          /\ chiperror'[t] = "E_UNIT"
                          => chiperror[t] = "E_UNIT"]_vars
=============================================================================

--------------------------- MODULE NcrSiopService ---------------------------
(***************************************************************************)
(* The NCR driver of NcrSiop provides the service of ScsiCommands.  A call *)
(* is active from the moment grabsem() has the semaphore, and answered     *)
(* when its thread is done, whether or not its process has noticed.        *)
(***************************************************************************)
EXTENDS NcrSiop

answered(p) == pc[p] \in {"check", "sleep", "result"} /\ threadstate[cid[p]] = "DONE"

callState(p) == CASE pc[p] = "idle" -> "idle"
                  [] pc[p] \in {"chipwait", "grabsem", "semwait"} -> "waiting"
                  [] answered(p) -> "answered"
                  [] OTHER -> "active"

Service == INSTANCE ScsiCommands WITH
    Errors     <- ChipErrors \ {"none"},
    state      <- [p \in Procs |-> callState(p)],
    id         <- cid,
    carriedOut <- {p \in Procs : command(p) \in executed},
    answer     <- [p \in Procs |-> IF answered(p) THEN Result(cid[p]) ELSE "none"]

\* Seen from exec(), the driver, the SCRIPT and the interrupt service together
\* are one service that answers each call once, one call per id at a time, and
\* passes a device's status on only for a command that was carried out.
ServiceSpec == Service!Spec
=============================================================================

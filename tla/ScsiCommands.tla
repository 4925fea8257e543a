---------------------------- MODULE ScsiCommands ----------------------------
(***************************************************************************)
(* What a low-level SCSI driver promises the processes that call exec():   *)
(* each call is answered once, one call at a time is active for an id, a   *)
(* device carries out a command only while its call is active, and the     *)
(* device's status is the answer only to a command it has carried out.     *)
(***************************************************************************)
CONSTANTS
    Procs,        \* the processes that call exec()
    Ids,          \* the SCSI ids they address
    Statuses,     \* answers that come from the device
    Errors        \* answers that come from the driver

VARIABLES
    state,        \* of the call of each process
    id,           \* the id the call is for
    carriedOut,   \* the processes whose active command the device has carried out
    answer        \* what exec() will return

vars == <<state, id, carriedOut, answer>>

Occupied(i) == \E p \in Procs : state[p] \in {"active", "answered"} /\ id[p] = i

Init ==
    /\ state = [p \in Procs |-> "idle"]
    /\ id \in [Procs -> Ids]
    /\ carriedOut = {}
    /\ answer = [p \in Procs |-> "none"]

Call(p, i) ==
    /\ state[p] = "idle"
    /\ state' = [state EXCEPT ![p] = "waiting"]
    /\ id' = [id EXCEPT ![p] = i]
    /\ UNCHANGED <<carriedOut, answer>>

Activate(p) ==
    /\ state[p] = "waiting" /\ ~Occupied(id[p])
    /\ state' = [state EXCEPT ![p] = "active"]
    /\ UNCHANGED <<id, carriedOut, answer>>

CarryOut(p) ==
    /\ state[p] = "active" /\ p \notin carriedOut
    /\ carriedOut' = carriedOut \cup {p}
    /\ UNCHANGED <<state, id, answer>>

\* a bus reset answers several calls at once
AnswerAll(S) ==
    /\ S # {}
    /\ \A p \in S : /\ state[p] = "active"
                    /\ answer'[p] \in Errors \cup (IF p \in carriedOut THEN Statuses ELSE {})
    /\ answer' = [p \in Procs |-> IF p \in S THEN answer'[p] ELSE answer[p]]
    /\ state' = [p \in Procs |-> IF p \in S THEN "answered" ELSE state[p]]
    /\ UNCHANGED <<id, carriedOut>>

Return(p) ==
    /\ state[p] = "answered"
    /\ state' = [state EXCEPT ![p] = "idle"]
    /\ answer' = [answer EXCEPT ![p] = "none"]
    /\ carriedOut' = carriedOut \ {p}
    /\ UNCHANGED id

Next == \/ \E p \in Procs : \/ \E i \in Ids : Call(p, i)
                            \/ Activate(p) \/ CarryOut(p) \/ Return(p)
        \/ \E S \in SUBSET Procs : AnswerAll(S)

Spec == Init /\ [][Next]_vars
=============================================================================

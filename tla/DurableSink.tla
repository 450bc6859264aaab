---------------------------- MODULE DurableSink ----------------------------
(* What a sink promises to the runner, whatever service it writes to, and     *)
(* what it does not. A record is accepted when the call that carried it        *)
(* returns; it is durable when the service has it; it is settled when a        *)
(* flush() or close() that began after its acceptance has returned.            *)
(* Checkpoints are saved after flush(): a settled record is not read again, so *)
(* the service must have it. Most sinks of the repository have some sequence   *)
(* of calls in which they lose a record and do not say so: those records are   *)
(* dropped, one by one, and only once the sink is excused by an event that its *)
(* module names. Every other record stays promised, also after such an event.  *)

VARIABLES
    accepted,   \* records whose call returned
    durable,    \* records the service has
    settled,    \* records accepted before a flush() or close() that has returned
    dropped,    \* records that the sink has lost, or may have
    excused     \* whether an event outside the promise has happened

vars == <<accepted, durable, settled, dropped, excused>>

Init == accepted = {} /\ durable = {} /\ settled = {} /\ dropped = {} /\ ~excused

\* A call goes on or returns. What is settled is accepted, and durable but for what was
\* dropped; an error that is raised may take back a record that is not settled, and only that.
Step ==
    /\ durable \subseteq durable' \cup dropped'
    /\ settled \subseteq settled'
    /\ settled' \subseteq accepted' \cap (durable' \cup dropped')
    /\ dropped \subseteq dropped'
    /\ dropped' # {} => excused'

Spec == Init /\ [][Step]_vars
============================================================================

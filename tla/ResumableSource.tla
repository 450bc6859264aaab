-------------------------- MODULE ResumableSource --------------------------
(* What a source that can be resumed promises to the runner. Rows are        *)
(* numbered in cursor order; a row is done when the runner has handled it or  *)
(* the source has dropped it as its row mapper or failure policy says.        *)
EXTENDS Naturals

VARIABLES
    done,   \* rows that are done
    saved   \* the last row of the checkpoint the runner has saved, 0 for none

vars == <<done, saved>>

Init == done = {} /\ saved = 0

\* A checkpoint passes only rows that are done, and never goes back.
Step ==
    /\ done \subseteq done'
    /\ saved <= saved'
    /\ 1..saved' \subseteq done'

Spec == Init /\ [][Step]_vars
=============================================================================

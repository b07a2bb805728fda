---------------------------- MODULE MeasuredLog ----------------------------
(***************************************************************************)
(* What runtimemeasure.Journal promises its caller, with no file, process  *)
(* or failure in sight: an append-only log in which an image appears at    *)
(* most once, and an answer that never runs ahead of the log.  Parties     *)
(* outside the journal may append what is not an image.                    *)
(***************************************************************************)
EXTENDS Naturals, Sequences

CONSTANTS Digests, Other

VARIABLES
    log,    \* what was measured since the launch binding, in order
    acked   \* the images whose measurement was reported to a caller

InLog(d) == \E i \in 1..Len(log) : log[i] = d

Init ==
    /\ log = << >>
    /\ acked = {}

(* An image is measured; its caller may or may not live to hear of it. *)
Measure(d) ==
    /\ ~InLog(d)
    /\ log' = Append(log, d)
    /\ acked' \in {acked, acked \cup {d}}

(* A caller asks about an image measured before. *)
Report(d) ==
    /\ InLog(d)
    /\ acked' = acked \cup {d}
    /\ UNCHANGED log

Foreign ==
    /\ log' = Append(log, Other)
    /\ UNCHANGED acked

Next == (\E d \in Digests : Measure(d) \/ Report(d)) \/ Foreign

Spec == Init /\ [][Next]_<<log, acked>>

=============================================================================

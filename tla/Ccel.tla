-------------------------------- MODULE Ccel --------------------------------
(***************************************************************************)
(* The confidential computing event log and its replay (tdx/ccel.go).      *)
(*                                                                         *)
(* A log is [header, records]: header says whether the Spec ID event fits  *)
(* the data, and a record is what the parser meets at one offset.  Its     *)
(* kind is "whole", "cut" (some field runs past the end of the data),      *)
(* "padding" (a digest count no event has) or "unknown" (a digest          *)
(* algorithm of no known size); digest is its SHA-384 digest, None where   *)
(* it carries none, and bare says that its type and its data size are 0.   *)
(***************************************************************************)
EXTENDS RuntimeMeasure, Ordering

Records == [kind : {"whole", "cut", "padding", "unknown"}, mr : 0..5,
            bare : BOOLEAN, digest : Digests \cup {None}]

(* The parser stops at this record and returns what it has. *)
EndsLog(rec) ==
    \/ rec.kind \in {"cut", "padding"}
    \/ rec.kind = "whole" /\ rec.mr = 0 /\ rec.bare

(* The events of a log: the set of its one parse, empty on error. *)
ParseCCEL(log) ==
    LET stops == {i \in 1..Len(log.records) :
                     EndsLog(log.records[i]) \/ log.records[i].kind = "unknown"}
        Before(n) == Filtered(log.records, {i \in 1..n : log.records[i].digest # None})
    IN  IF ~log.header THEN {}
        ELSE IF stops = {} THEN {Before(Len(log.records))}
        ELSE {Before(i - 1) : i \in {k \in stops :
                 (\A j \in stops : k <= j) /\ log.records[k].kind # "unknown"}}

(* Mutant: MR index and register number are taken to be the same. *)
ReplayRTMRs_ByIndex(events) ==
    [i \in 0..3 |->
        LET own == Filtered(events, {j \in 1..Len(events) : events[j].mr = i})
        IN  [k \in 1..Len(own) |-> own[k].digest]]

(* The registers the events fold to, each from zero: MR index 1-4 is       *)
(* RTMR[0-3], and an event for any other index extends nothing.            *)
ReplayRTMRs(events) ==
    [i \in 0..3 |->
        LET own == Filtered(events, {j \in 1..Len(events) : events[j].mr = i + 1})
        IN  [k \in 1..Len(own) |-> own[k].digest]]

(* Mutant: RTMR[3] is enforced as the boot registers are. *)
VerifyCCELAgainstRTMRs_All(log, rtmr) ==
    {TRUE : events \in {e \in ParseCCEL(log) : ReplayRTMRs(e) = rtmr}}

(* rtmr3Match, or nothing where the replay of RTMR[0-2] fails. *)
VerifyCCELAgainstRTMRs(log, rtmr) ==
    {ReplayRTMRs(events)[3] = rtmr[3] :
        events \in {e \in ParseCCEL(log) :
                       \A i \in 0..2 : ReplayRTMRs(e)[i] = rtmr[i]}}

=============================================================================

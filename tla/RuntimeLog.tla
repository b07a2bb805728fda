----------------------------- MODULE RuntimeLog -----------------------------
(***************************************************************************)
(* A measuring guest and its verifier.  Beside the measurer of module      *)
(* Journal an attester has the hardware quote the register and reads the   *)
(* journal file for the list it publishes (ReadJournal), neither of them   *)
(* synchronised with the measurer; the verifier replays the list against   *)
(* the quote (MatchBindingPrefix).                                         *)
(***************************************************************************)
EXTENDS Journal, Binding

(* The launch file is one a verifier can hold a guest to. *)
ASSUME AnchorIsAFile == Anchor \notin {EmptyBytes, ZeroBytes}

VARIABLES
    quote,          \* the register the hardware signed, None before it did
    list,           \* what ReadJournal returned, None before it did
    quoteForeign    \* history: foreign when the quote was taken

exchange == <<quote, list, quoteForeign>>

LogInit ==
    /\ Init
    /\ quote = None
    /\ list = None
    /\ quoteForeign = FALSE

(* The hardware signs the register as it is. *)
TakeQuote ==
    /\ quote = None
    /\ quote' = reg
    /\ quoteForeign' = foreign
    /\ UNCHANGED <<list, vars>>

(* ReadJournal: the reader may meet a record whose extend is still to      *)
(* come, or one about to be rolled back.                                   *)
ReadJournal ==
    /\ list = None
    /\ \E o \in Orders :
          /\ parseJournal(file, o)
          /\ list' = [i \in DOMAIN o |-> [form |-> "bare", digest |-> o[i]]]
    /\ UNCHANGED <<quote, quoteForeign, vars>>

Measurer == Next /\ UNCHANGED exchange

LogNext == Measurer \/ TakeQuote \/ ReadJournal

(* The measurer runs on as module Journal says; the attester need not. *)
LogSpec == LogInit /\ [][LogNext]_<<vars, exchange>> /\ Fairness

-----------------------------------------------------------------------------
(* What the verifier makes of the exchange. *)
Result ==
    [SignatureValid |-> TRUE,
     Platform |-> [tag |-> "tdx", canonical |-> TRUE],
     Claims |-> [RTMR |-> [i \in {3} |-> quote], InitData |-> None]]

Proven == MatchBindingPrefix(Result, Anchor, list)

Delivered == quote # None /\ list # None

(* An honest guest's list replays to its quote whenever it names every     *)
(* digest in it, however the measurer's steps, crashes and rollbacks fall  *)
(* between the reading of the two: a verifier refuses it for staleness     *)
(* alone (MatchBindingPrefix, ReadJournal).                                *)
CoveringListReplays ==
    (Delivered /\ ~quoteForeign
        /\ Held(quote) \subseteq {list[i].digest : i \in DOMAIN list})
    => Proven # {}

(* A list read after the quote is never stale: it replays, and it names    *)
(* at most one digest more than the measurer had extended when it was read *)
(* (MatchBindingPrefix: "may be read after the quote").                    *)
ListAfterQuoteReplays ==
    [][(quote # None /\ ~quoteForeign /\ list = None /\ list' # None)
        => /\ Proven' # {}
           /\ ~foreign => Len(list') <= Cardinality(Held(reg)) + 1]_<<vars, exchange>>

=============================================================================

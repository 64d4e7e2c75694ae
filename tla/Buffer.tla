------------------------------- MODULE Buffer -------------------------------
(***************************************************************************)
(* One `Buffer` (questdb-rs/src/ingress/mod.rs) in the hands of a caller   *)
(* that may make any call at any time, with any argument, and may go on    *)
(* after an error.  Rust's &mut self makes every call atomic.              *)
(***************************************************************************)
EXTENDS BufferText

CONSTANTS
    TsInputs,    \* the timestamps the caller passes
    MaxTokens    \* bound on the length of the output

ASSUME TsInputsAssumption == TsInputs \subseteq Timestamps
ASSUME MaxTokensAssumption == MaxTokens \in Nat

VARIABLES
    buf,         \* the buffer
    res,         \* what the last call returned
    saved        \* history: what the live marker was set on, if there is one

vars == <<buf, res, saved>>

\* A row-building call pushes at most two tokens.
Room == Len(buf.output) + 2 <= MaxTokens

Call(r) == buf' = r.buf /\ res' = r.res

\* A value of a caller's own type may fail to convert into a Timestamp.
TsArgs == {{t} : t \in TsInputs} \cup {{}}

Init == /\ buf = NewBuffer
        /\ res = "Ok"
        /\ saved = {}

Table(n)            == Room /\ Call(table(buf, n)) /\ UNCHANGED saved
Symbol(named)       == Room /\ Call(symbol(buf, named)) /\ UNCHANGED saved
Column(named)       == Room /\ Call(column(buf, named)) /\ UNCHANGED saved
ColumnTs(named, ts) == Room /\ Call(column_ts(buf, named, ts)) /\ UNCHANGED saved
At(ts)              == Room /\ Call(at(buf, ts)) /\ UNCHANGED saved
AtNow               == Room /\ Call(at_now(buf)) /\ UNCHANGED saved

SetMarker ==
    /\ Call(set_marker(buf))
    /\ saved' = IF res' = "Ok"
                  THEN {[output |-> buf.output, state |-> buf.state]}
                  ELSE saved

RewindToMarker == Call(rewind_to_marker(buf)) /\ saved' = {}
ClearMarker    == Call(clear_marker(buf)) /\ saved' = {}
Clear          == Call(clear(buf)) /\ saved' = {}

Next ==
    \/ \E n \in Tables \cup {BadName} : Table(n)
    \/ \E named \in BOOLEAN : Symbol(named)
    \/ \E named \in BOOLEAN : Column(named)
    \/ \E named \in BOOLEAN, ts \in TsArgs : ColumnTs(named, ts)
    \/ \E ts \in TsArgs : At(ts)
    \/ AtNow
    \/ SetMarker
    \/ RewindToMarker
    \/ ClearMarker
    \/ Clear

Spec == Init /\ [][Next]_vars

-----------------------------------------------------------------------------
(***************************************************************************)
(* Properties.                                                             *)
(***************************************************************************)

(***************************************************************************)
(* The types of the buffer's fields; saved mirrors the Option in `marker`. *)
(***************************************************************************)
TypeOK ==
    /\ buf \in Buffers
    /\ res \in Errors \cup {"Ok"}
    /\ saved \subseteq [output : Seq(Tokens), state : BufferStates]
    /\ IsOption(buf.marker) /\ IsOption(saved)

(***************************************************************************)
(* The BufferState kept beside the text never drifts from it, through any  *)
(* sequence of calls, errors, rewinds and clears: row_count() counts the   *)
(* new-lines in as_str(), transactional() holds exactly when the text      *)
(* names at most one table, and the op case is that of the last piece, so  *)
(* a flush is allowed only on whole rows and never on an empty buffer.     *)
(***************************************************************************)
StateDescribesOutput == Describes(buf.state, buf.output)

(***************************************************************************)
(* Whatever the caller does, the text is a sequence of ILP lines, save for *)
(* the keys that a failed column_ts leaves without a value.                *)
(***************************************************************************)
OutputIsLines == LooseGrammar(buf.output)

(***************************************************************************)
(* While a marker is set, the text before its position is the text that    *)
(* set_marker saw, and the state saved with it is that text's state.  The  *)
(* position stays inside the text and on a row boundary.                   *)
(***************************************************************************)
MarkerIsSnapshot ==
    /\ (buf.marker = {}) <=> (saved = {})
    /\ \A m \in buf.marker, s \in saved :
         /\ m.position <= Len(buf.output)
         /\ SubSeq(buf.output, 1, m.position) = s.output
         /\ m.state = s.state
         /\ Describes(m.state, s.output)
         /\ m.state.op_case \in {"Init", "MayFlushOrTable"}

(***************************************************************************)
(* rewind_to_marker() gives back exactly the text and the state that the   *)
(* last successful set_marker() saw, and fails only when no marker is set. *)
(***************************************************************************)
RewindRestores ==
    [][RewindToMarker =>
         IF saved = {} THEN res' = "InvalidApiCall" /\ buf' = buf
         ELSE /\ res' = "Ok"
              /\ saved = {[output |-> buf'.output, state |-> buf'.state]}]_vars

(***************************************************************************)
(* A call that fails loses nothing: the text only grows, no row is closed, *)
(* and the marker that the recovery depends on is still set.  A call that  *)
(* returns Ok never makes a well-formed buffer malformed: only going on    *)
(* after an error, without a rewind or a clear, can.                       *)
(***************************************************************************)
ErrorsContained ==
    [][IF res' = "Ok"
         THEN WellFormed(buf.output) => WellFormed(buf'.output)
         ELSE /\ Len(buf.output) <= Len(buf'.output)
              /\ buf.output = SubSeq(buf'.output, 1, Len(buf.output))
              /\ Rows(buf.output) = Rows(buf'.output)
              /\ buf.marker = buf'.marker]_vars
=============================================================================

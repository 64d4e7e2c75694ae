----------------------------- MODULE Timestamp -----------------------------
(***************************************************************************)
(* The timestamp conversions of questdb-rs/src/ingress/timestamp.rs.       *)
(*                                                                         *)
(* A Rust Timestamp is an enum of TimestampMicros(i64) and                 *)
(* TimestampNanos(i64); here it is a record with its unit and its value.   *)
(* i64 keeps its two's-complement shape, with a parametric largest value.  *)
(* An Option or a fallible result is a set with at most one element.       *)
(***************************************************************************)
EXTENDS Integers

CONSTANT MaxI64    \* the largest i64

ASSUME MaxI64Assumption == MaxI64 \in Nat

I64 == (-MaxI64 - 1) .. MaxI64

Timestamps == [unit : {"micros", "nanos"}, v : I64]

\* Mutant: a plain multiplication, which does not notice the overflow.
micros_to_nanos_unchecked(v) == {v * 1000}

(***************************************************************************)
(* TryFrom<TimestampMicros> for TimestampNanos: checked_mul(1000).         *)
(***************************************************************************)
micros_to_nanos(v) == {v * 1000} \cap I64

(***************************************************************************)
(* From<TimestampNanos> for TimestampMicros: Rust's integer division,      *)
(* which rounds toward zero.                                               *)
(***************************************************************************)
nanos_to_micros(v) == IF v >= 0 THEN v \div 1000 ELSE -((-v) \div 1000)

\* TryFrom<Timestamp> for TimestampNanos: fails when the product overflows.
as_nanos(ts) == IF ts.unit = "nanos" THEN {ts.v} ELSE micros_to_nanos(ts.v)

\* TryFrom<Timestamp> for TimestampMicros: never fails.
as_micros(ts) == IF ts.unit = "micros" THEN ts.v ELSE nanos_to_micros(ts.v)
=============================================================================

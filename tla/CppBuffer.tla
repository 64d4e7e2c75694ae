----------------------------- MODULE CppBuffer -----------------------------
(***************************************************************************)
(* The class questdb::ingress::line_sender_buffer                          *)
(* (include/questdb/ingress/line_sender.hpp) over the C interface.         *)
(*                                                                         *)
(* An object owns a C buffer, or none: it is allocated by the first call   *)
(* that needs it and leaves with a move.  Variables of the program hold    *)
(* objects; a statement makes, copies, moves, destroys or calls one.  What *)
(* the statement returned or threw is in out.  After undefined behaviour   *)
(* (ub) nothing more is said.                                              *)
(***************************************************************************)
EXTENDS CApi, FiniteSetsExt

CONSTANTS
    Bufs,          \* the program's variables
    MaxNameLens,   \* the arguments of the constructor
    MaxTokens,     \* bound on the text of all buffers
    Times          \* arguments of at() and of columns: counts of a unit

\* Memory does not run out: there is an address for the C buffer of each
\* variable, and one for an error.
ASSUME AddrAssumption ==
    /\ IsFiniteSet(Addr) /\ IsFiniteSet(Bufs)
    /\ Cardinality(Addr) > Cardinality(Bufs)

VARIABLES heap, bufs, out, ub

cppvars == <<heap, bufs, out, ub>>

Names == Tables \cup {NotName, NotUtf8}
Texts == {"text", NotUtf8}

Dead == [dead |-> TRUE]
Live(v) == bufs[v] # Dead
Object(impl, n) == [impl |-> impl, max_name_len |-> n]

Returned == <<"returned">>
Threw(code) == <<"threw", code>>

-----------------------------------------------------------------------------
\* line_sender_error::from_c: the code and the text are copied, then freed.
from_c(h, e) ==
    LET code == line_sender_error_get_code(h, e)
        msg  == line_sender_error_msg(code.heap, e)
        free == line_sender_error_free(msg.heap, e)
    IN  [heap |-> free.heap, ret |-> NULL, out |-> Threw(code.ret),
         ub |-> code.ub \/ msg.ub \/ free.ub]

\* line_sender_error::wrapped_call of a C function that gave r.
wrapped_call(r) ==
    IF r.ub \/ r.ret # NULL
      THEN [heap |-> r.heap, ret |-> r.ret, out |-> Returned, ub |-> r.ub]
      ELSE from_c(r.heap, r.err)

\* The constructors of basic_view.
table_name_view(h, n)  == wrapped_call(line_sender_table_name_init(h, n))
column_name_view(h, n) == wrapped_call(line_sender_column_name_init(h, n))
utf8_view(h, s)        == wrapped_call(line_sender_utf8_init(h, s))

\* C++ does not say which of two arguments is made first.
Views(h, n, s) ==
    LET name == column_name_view(h, n)
        text == utf8_view(h, s)
    IN  { IF name.out = Returned THEN text ELSE name,
          IF text.out = Returned THEN name ELSE text }

NoView(h) == {[heap |-> h, ret |-> NULL, out |-> Returned, ub |-> FALSE]}

\* The constructors of timestamp_nanos and timestamp_micros: duration_cast.
timestamp_nanos(t)  == IF t.unit = "nanos" THEN t.v ELSE t.v * 1000
timestamp_micros(t) == IF t.unit = "micros" THEN t.v ELSE nanos_to_micros(t.v)

\* may_init: the object and the heap once there is a C buffer.
may_init(h, o) ==
    IF o.impl # NULL THEN [heap |-> h, obj |-> o]
    ELSE LET r == line_sender_buffer_with_max_name_len(h, o.max_name_len)
         IN  [heap |-> line_sender_buffer_reserve(r.heap, r.ret).heap,
              obj  |-> [o EXCEPT !.impl = r.ret]]

-----------------------------------------------------------------------------
Init ==
    /\ heap = [a \in Addr |-> Freed]
    /\ bufs = [v \in Bufs |-> Dead]
    /\ out = Returned
    /\ ub = FALSE

Bounded(h) ==
    LET size(a) == IF h[a].kind = "buffer" THEN Len(h[a].buf.output) ELSE 0
    IN  MapThenSumSet(size, Addr) <= MaxTokens

\* The end of a statement that made r of the heap and left v holding o.
Ends(v, o, r) ==
    /\ Bounded(r.heap)
    /\ heap' = r.heap
    /\ bufs' = [bufs EXCEPT ![v] = o]
    /\ out' = r.out
    /\ ub' = r.ub

Done(h) == [heap |-> h, out |-> Returned, ub |-> FALSE]
After(r) == [heap |-> r.heap, out |-> Returned, ub |-> r.ub]

\* The C function that gave s, called after the one that gave r.
Then(r, s) == [s EXCEPT !.ub = @ \/ r.ub]

\* The constructor: nothing is allocated.
Construct(v, n) == ~Live(v) /\ Ends(v, Object(NULL, n), Done(heap))

\* Whether the other has a C buffer is not tested.
CopyConstruct(v, w) ==
    LET r == line_sender_buffer_clone(heap, bufs[w].impl)
    IN  /\ ~Live(v) /\ Live(w)
        /\ Ends(v, Object(r.ret, bufs[w].max_name_len), After(r))

\* From a temporary or std::move: w stays alive and owns nothing.
MoveConstruct(v, w) ==
    /\ ~Live(v) /\ Live(w)
    /\ bufs' = [bufs EXCEPT ![v] = bufs[w], ![w].impl = NULL]
    /\ out' = Returned
    /\ UNCHANGED <<heap, ub>>

\* Mutant: v keeps its own limit on names.
CopyAssign_own_limit(v, w) ==
    LET freed == line_sender_buffer_free(heap, bufs[v].impl)
        r == IF bufs[w].impl # NULL
               THEN line_sender_buffer_clone(freed.heap, bufs[w].impl)
               ELSE Return(freed.heap, NULL)
    IN  /\ Live(v) /\ Live(w)
        /\ IF v = w THEN Ends(v, bufs[v], Done(heap))
                    ELSE Ends(v, Object(r.ret, bufs[v].max_name_len), After(Then(freed, r)))

\* Mutant: no test for self-assignment: the clone is of what was just freed.
CopyAssign_self(v, w) ==
    LET freed == line_sender_buffer_free(heap, bufs[v].impl)
        r == IF bufs[w].impl # NULL
               THEN line_sender_buffer_clone(freed.heap, bufs[w].impl)
               ELSE Return(freed.heap, NULL)
    IN  /\ Live(v) /\ Live(w)
        /\ Ends(v, Object(r.ret, bufs[w].max_name_len), After(Then(freed, r)))

\* operator=(const line_sender_buffer&).
CopyAssign(v, w) ==
    LET freed == line_sender_buffer_free(heap, bufs[v].impl)
        r == IF bufs[w].impl # NULL
               THEN line_sender_buffer_clone(freed.heap, bufs[w].impl)
               ELSE Return(freed.heap, NULL)
    IN  /\ Live(v) /\ Live(w)
        /\ IF v = w THEN Ends(v, bufs[v], Done(heap))
                    ELSE Ends(v, Object(r.ret, bufs[w].max_name_len), After(Then(freed, r)))

\* operator=(line_sender_buffer&&).
MoveAssign(v, w) ==
    LET freed == line_sender_buffer_free(heap, bufs[v].impl)
    IN  /\ Live(v) /\ Live(w)
        /\ out' = Returned
        /\ IF v = w THEN UNCHANGED <<heap, bufs, ub>>
           ELSE /\ heap' = freed.heap /\ ub' = freed.ub
                /\ bufs' = [bufs EXCEPT ![v] = bufs[w], ![w].impl = NULL]

Destroy(v) == Live(v) /\ Ends(v, Dead, After(line_sender_buffer_free(heap, bufs[v].impl)))

-----------------------------------------------------------------------------
(***************************************************************************)
(* Methods.  The views are made first, and one that throws leaves the      *)
(* object alone; then may_init, then the C function.                       *)
(***************************************************************************)
Method(v, views, F(_, _)) ==
    /\ Live(v)
    /\ \E view \in views :
         IF view.out # Returned THEN Ends(v, bufs[v], view)
         ELSE LET i == may_init(view.heap, bufs[v])
              IN  Ends(v, i.obj, wrapped_call(F(i.heap, i.obj.impl)))

Table(v, n) ==
    Method(v, {table_name_view(heap, n)},
           LAMBDA h, b : line_sender_buffer_table(h, b, n))

Symbol(v, n, s) ==
    Method(v, Views(heap, n, s), LAMBDA h, b : line_sender_buffer_symbol(h, b, n))

ColumnBool(v, n) ==
    Method(v, {column_name_view(heap, n)},
           LAMBDA h, b : line_sender_buffer_column_bool(h, b, n))

ColumnI64(v, n) ==
    Method(v, {column_name_view(heap, n)},
           LAMBDA h, b : line_sender_buffer_column_i64(h, b, n))

ColumnF64(v, n) ==
    Method(v, {column_name_view(heap, n)},
           LAMBDA h, b : line_sender_buffer_column_f64(h, b, n))

ColumnStr(v, n, s) ==
    Method(v, Views(heap, n, s),
           LAMBDA h, b : line_sender_buffer_column_str(h, b, n))

\* The overloads for time points and timestamps: nanoseconds go as they are,
\* everything else as microseconds.
ColumnTime(v, n, t) ==
    Method(v, {column_name_view(heap, n)},
           LAMBDA h, b :
             IF t.unit = "nanos"
               THEN line_sender_buffer_column_ts_nanos(h, b, n, timestamp_nanos(t))
               ELSE line_sender_buffer_column_ts_micros(h, b, n, timestamp_micros(t)))

AtNanos(v, t) ==
    t.unit = "nanos" /\
    Method(v, NoView(heap),
           LAMBDA h, b : line_sender_buffer_at_nanos(h, b, timestamp_nanos(t)))

AtMicros(v, t) ==
    Method(v, NoView(heap),
           LAMBDA h, b : line_sender_buffer_at_micros(h, b, timestamp_micros(t)))

AtNow(v) ==
    Method(v, NoView(heap), LAMBDA h, b : line_sender_buffer_at_now(h, b))

SetMarker(v) ==
    Method(v, NoView(heap), LAMBDA h, b : line_sender_buffer_set_marker(h, b))

RewindToMarker(v) ==
    Method(v, NoView(heap), LAMBDA h, b : line_sender_buffer_rewind_to_marker(h, b))

\* reserve: allocates, and cannot fail.
Reserve(v) ==
    LET i == may_init(heap, bufs[v])
    IN  Live(v) /\ Ends(v, i.obj, After(line_sender_buffer_reserve(i.heap, i.obj.impl)))

\* clear_marker and clear: without a buffer there is nothing to do.
ClearMarker(v) ==
    LET b == bufs[v].impl
    IN  Live(v) /\ Ends(v, bufs[v], IF b = NULL THEN Done(heap)
                                    ELSE After(line_sender_buffer_clear_marker(heap, b)))

Clear(v) ==
    LET b == bufs[v].impl
    IN  Live(v) /\ Ends(v, bufs[v], IF b = NULL THEN Done(heap)
                                    ELSE After(line_sender_buffer_clear(heap, b)))

-----------------------------------------------------------------------------
(***************************************************************************)
(* The const methods: what they return is in out.                          *)
(***************************************************************************)
Observe(v, name, default, F(_, _)) ==
    LET b == bufs[v].impl
        r == IF b = NULL THEN Return(heap, default) ELSE F(heap, b)
    IN  /\ Live(v)
        /\ out' = <<name, r.ret>>
        /\ ub' = r.ub
        /\ UNCHANGED <<heap, bufs>>

Size(v)     == Observe(v, "size", 0, line_sender_buffer_size)
RowCount(v) == Observe(v, "row_count", 0, line_sender_buffer_row_count)
Peek(v)     == Observe(v, "peek", <<>>, line_sender_buffer_peek)
Transactional(v) == Observe(v, "transactional", FALSE, line_sender_buffer_transactional)

BufferStatement ==
    \E v \in Bufs :
      \/ \E n \in MaxNameLens : Construct(v, n)
      \/ \E w \in Bufs : \/ CopyConstruct(v, w) \/ MoveConstruct(v, w)
                         \/ CopyAssign(v, w) \/ MoveAssign(v, w)
      \/ Destroy(v)
      \/ \E n \in Names :
           \/ Table(v, n) \/ ColumnBool(v, n) \/ ColumnI64(v, n) \/ ColumnF64(v, n)
           \/ \E s \in Texts : Symbol(v, n, s) \/ ColumnStr(v, n, s)
           \/ \E t \in Times : ColumnTime(v, n, t)
      \/ \E t \in Times : AtNanos(v, t) \/ AtMicros(v, t)
      \/ AtNow(v)
      \/ SetMarker(v) \/ RewindToMarker(v) \/ ClearMarker(v)
      \/ Reserve(v) \/ Clear(v)
      \/ Size(v) \/ RowCount(v) \/ Peek(v) \/ Transactional(v)

BufferNext ==
    \/ ~ub /\ BufferStatement
    \/ ub /\ UNCHANGED cppvars

BufferSpec == Init /\ [][BufferNext]_cppvars

-----------------------------------------------------------------------------
(***************************************************************************)
(* What an object is worth: one without a buffer is an empty buffer.       *)
(***************************************************************************)
Value(o) ==
    IF o = Dead THEN Dead
    ELSE [buf |-> IF o.impl = NULL THEN NewBuffer ELSE heap[o.impl].buf,
          max_name_len |-> o.max_name_len]

Values == INSTANCE ValueBuffer WITH
            vals <- [v \in Bufs |-> Value(bufs[v])]

\* The owners of an address.
Owners(a) == {v \in Bufs : Live(v) /\ bufs[v].impl = a}

OneOwner ==
    \A a \in Addr :
      /\ heap[a].kind # "error"
      /\ heap[a].kind = "buffer" => Cardinality(Owners(a)) = 1
      /\ heap[a].kind # "buffer" => Owners(a) = {}

CopiesNull == \E v, w \in Bufs : CopyConstruct(v, w) /\ bufs[w].impl = NULL

\* Between statements every C object has one owner: nothing leaks, no error
\* is left behind by an exception, no two objects free the same buffer, and
\* no object keeps a pointer to what was freed, through any mix of copies,
\* moves, self-assignments, exceptions and destructors.  The one statement
\* that is undefined is the copy constructor, of an object that was never
\* written to or was moved from: it clones without testing for null.
BuffersOwned == [](~ub => OneOwner) /\ [][ub' => ub \/ CopiesNull]_cppvars

\* Through allocation on demand, moves and copies, the objects behave as
\* plain values: each holds a text of its own, an object that was moved from
\* is an empty buffer, and every method returns, throws or reads what the
\* Rust buffer would, but for two things that tell an object without a C
\* buffer from an empty one: transactional() is false for it, although it
\* contains "data for at most one table", and copying it is undefined.
ActsAsValue == Values!Spec
=============================================================================

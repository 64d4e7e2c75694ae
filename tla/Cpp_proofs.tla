----------------------------- MODULE Cpp_proofs -----------------------------
(***************************************************************************)
(* Ownership and values in the C++ classes, and what the example programs  *)
(* leave: theorems about modules CppBuffer, CppSender and Examples.        *)
(***************************************************************************)
EXTENDS Examples, FiniteSetTheorems, TLAPS

USE CApiAssumption

(***************************************************************************)
(* Heaps.                                                                  *)
(***************************************************************************)
\* What the C interface puts at an address.
Shaped(x) ==
    \/ x = Freed
    \/ x = line_sender_error(x.code)
    \/ x = line_sender_buffer(x.buf, x.max_name_len)
    \/ x = line_sender_opts(x.builder)
    \/ x = line_sender(x.sender)

IsHeap(h) == h = [a \in Addr |-> h[a]] /\ \A a \in Addr : Shaped(h[a])

\* The addresses of the objects of a kind.
Of(h, kind) == {a \in Addr : h[a].kind = kind}

Kinds == {"error", "buffer", "opts", "sender"}

\* Two heaps have the same objects, whatever is in them.
SameObjects(h, g) == \A kind \in Kinds : Of(g, kind) = Of(h, kind)

\* There is room for an object, and for two.
Room(h) == \E a \in Addr : h[a] = Freed
RoomForTwo(h) == \E a, b \in Addr : a # b /\ h[a] = Freed /\ h[b] = Freed

\* The kind says what the object is.
LEMMA ShapeFacts ==
    ASSUME NEW x, Shaped(x)
    PROVE  /\ x.kind \in Kinds \cup {"freed"}
           /\ x.kind = "freed" <=> x = Freed
           /\ x.kind = "buffer" => x = line_sender_buffer(x.buf, x.max_name_len)
           /\ x.kind = "opts" => x = line_sender_opts(x.builder)
           /\ x.kind = "sender" => x = line_sender(x.sender)
  BY DEF Shaped, Kinds, Freed, line_sender_error, line_sender_buffer, line_sender_opts,
         line_sender

\* Box::into_raw finds an address that is free.
LEMMA FreshFacts ==
    ASSUME NEW h, Room(h)
    PROVE  Fresh(h) \in Addr /\ h[Fresh(h)] = Freed /\ Fresh(h) # NULL
  BY DEF Fresh, Room, NULL
\* r gave x out: one object more.
Gave(h, x, r) ==
    /\ r.ub = FALSE
    /\ r.ret \in Addr /\ r.ret # NULL /\ h[r.ret] = Freed
    /\ IsHeap(r.heap)
    /\ \A a \in Addr : r.heap[a] = IF a = r.ret THEN x ELSE h[a]
    /\ Of(r.heap, x.kind) = Of(h, x.kind) \cup {r.ret}
    /\ \A kind \in Kinds \ {x.kind} : Of(r.heap, kind) = Of(h, kind)

\* Give does so.
LEMMA GiveFacts ==
    ASSUME NEW h, IsHeap(h), Room(h), NEW x, Shaped(x), x # Freed
    PROVE  Gave(h, x, Give(h, x))
  <1> DEFINE p == Fresh(h)
             g == [h EXCEPT ![p] = x]
  <1>1. p \in Addr /\ h[p] = Freed /\ p # NULL
    BY FreshFacts
  <1>2. x.kind \in Kinds /\ Freed.kind = "freed"
    BY ShapeFacts DEF Freed
  <1>3. h = [a \in Addr |-> h[a]] /\ \A a \in Addr : Shaped(h[a])
    BY DEF IsHeap
  <1> HIDE DEF p
  <1>4. g = [a \in Addr |-> g[a]] /\ \A a \in Addr : g[a] = IF a = p THEN x ELSE h[a]
    BY <1>1, <1>3
  <1> HIDE DEF g
  <1>5. IsHeap(g)
    BY <1>3, <1>4 DEF IsHeap
  <1>6. h[p].kind = "freed" /\ "freed" \notin Kinds
    BY <1>1, <1>2 DEF Kinds
  <1>7. Of(g, x.kind) = Of(h, x.kind) \cup {p}
    BY <1>1, <1>4 DEF Of
  <1>8. \A kind \in Kinds \ {x.kind} : Of(g, kind) = Of(h, kind)
    BY <1>1, <1>2, <1>4, <1>6 DEF Of
  <1>9. Give(h, x) = [heap |-> g, ret |-> p, err |-> NULL, ub |-> FALSE]
    BY DEF Give, Return, p, g
  <1>10. Give(h, x).heap = g /\ Give(h, x).ret = p /\ Give(h, x).ub = FALSE
    BY <1>9
  <1> QED
    BY <1>1, <1>4, <1>5, <1>7, <1>8, <1>10 DEF Gave

\* r freed p: NULL is nothing to free, anything else is gone.
Frees(h, kind, p, r) ==
    /\ r.ub = FALSE
    /\ IsHeap(r.heap)
    /\ p = NULL => r.heap = h
    /\ p # NULL => r.heap[p] = Freed
    /\ Of(r.heap, kind) = Of(h, kind) \ {p}
    /\ \A k \in Kinds \ {kind} : Of(r.heap, k) = Of(h, k)
    /\ \A a \in Addr : a # p => r.heap[a] = h[a]

\* Drop does so.
LEMMA DropFacts ==
    ASSUME NEW h, IsHeap(h), NEW kind \in Kinds, NEW p, p = NULL \/ p \in Of(h, kind)
    PROVE  Frees(h, kind, p, Drop(h, p, kind))
  <1>1. CASE p = NULL
    <2>1. Of(h, kind) = Of(h, kind) \ {p}
      BY <1>1 DEF NULL, Of
    <2> QED
      BY <1>1, <2>1 DEF Drop, Void, Return, Frees
  <1>2. CASE p # NULL
    <2> DEFINE g == [h EXCEPT ![p] = Freed]
    <2>1. p \in Addr /\ h[p].kind = kind /\ Freed.kind = "freed" /\ Shaped(Freed)
      BY <1>2 DEF Of, Freed, Shaped
    <2>2. h = [a \in Addr |-> h[a]] /\ \A a \in Addr : Shaped(h[a])
      BY DEF IsHeap
    <2>3. g = [a \in Addr |-> g[a]] /\ \A a \in Addr : g[a] = IF a = p THEN Freed ELSE h[a]
      BY <2>1, <2>2
    <2>4. Drop(h, p, kind) = Void(g)
      BY <1>2, <2>1 DEF Drop, Points
    <2> HIDE DEF g
    <2>5. IsHeap(g)
      BY <2>1, <2>2, <2>3 DEF IsHeap
    <2>6. Of(g, kind) = Of(h, kind) \ {p}
      BY <2>1, <2>3 DEF Of, Kinds
    <2>7. \A k \in Kinds \ {kind} : Of(g, k) = Of(h, k)
      BY <2>1, <2>3 DEF Of, Kinds
    <2> QED
      BY <1>2, <2>1, <2>3, <2>4, <2>5, <2>6, <2>7 DEF Void, Return, Frees
  <1> QED
    BY <1>1, <1>2

\* An error that a C function allocated is freed by the exception made of it.
LEMMA FailCaught ==
    ASSUME NEW h, IsHeap(h), Room(h), NEW code
    PROVE  wrapped_call(Fail(h, code, NULL))
             = [heap |-> h, ret |-> NULL, out |-> Threw(code), ub |-> FALSE]
  <1> DEFINE p == Fresh(h)
             e == line_sender_error(code)
             g == [h EXCEPT ![p] = e]
  <1>1. p \in Addr /\ h[p] = Freed /\ p # NULL
    BY FreshFacts
  <1>2. h = [a \in Addr |-> h[a]]
    BY DEF IsHeap
  <1>3. e.kind = "error" /\ e.code = code
    BY DEF line_sender_error
  <1>4. Fail(h, code, NULL) = [heap |-> g, ret |-> NULL, err |-> p, ub |-> FALSE]
    BY DEF Fail
  <1> HIDE DEF p, e
  <1>5. g[p] = e
    BY <1>1, <1>2
  <1>6. [g EXCEPT ![p] = Freed] = h
    BY <1>1, <1>2
  <1> HIDE DEF g
  <1>7. wrapped_call(Fail(h, code, NULL)) = from_c(g, p)
    BY <1>4 DEF wrapped_call
  <1>8. Points(g, p, "error")
    BY <1>1, <1>3, <1>5 DEF Points
  <1>9. /\ line_sender_error_get_code(g, p) = Return(g, code)
        /\ line_sender_error_msg(g, p) = Return(g, "msg")
        /\ line_sender_error_free(g, p) = Void(h)
    BY <1>1, <1>3, <1>5, <1>6, <1>8
       DEF line_sender_error_get_code, line_sender_error_msg, line_sender_error_free, Drop
  <1>10. /\ Return(g, code).heap = g /\ Return(g, "msg").heap = g /\ Void(h).heap = h
         /\ Return(g, code).ret = code
         /\ ~Return(g, code).ub /\ ~Return(g, "msg").ub /\ ~Void(h).ub
    BY DEF Return, Void
  <1>11. from_c(g, p) = [heap |-> h, ret |-> NULL, out |-> Threw(code), ub |-> FALSE]
    BY <1>9, <1>10 DEF from_c
  <1> QED
    BY <1>7, <1>11

\* The same objects leave the same room.
LEMMA SameRoom ==
    ASSUME NEW h, NEW g, IsHeap(h), IsHeap(g), SameObjects(h, g)
    PROVE  \A a \in Addr : g[a] = Freed <=> h[a] = Freed
  <1> SUFFICES ASSUME NEW a \in Addr PROVE g[a] = Freed <=> h[a] = Freed
    OBVIOUS
  <1>1. /\ h[a].kind \in Kinds \cup {"freed"} /\ (h[a].kind = "freed" <=> h[a] = Freed)
        /\ g[a].kind \in Kinds \cup {"freed"} /\ (g[a].kind = "freed" <=> g[a] = Freed)
    BY ShapeFacts DEF IsHeap
  <1>2. \A kind \in Kinds : g[a].kind = kind <=> h[a].kind = kind
    BY DEF SameObjects, Of
  <1> QED
    BY <1>1, <1>2 DEF Kinds

\* What an object holds is replaced.
LEMMA Replaced ==
    ASSUME NEW h, IsHeap(h), NEW b \in Addr, NEW x, Shaped(x), x.kind = h[b].kind
    PROVE  LET g == [h EXCEPT ![b] = x] IN IsHeap(g) /\ SameObjects(h, g)
  <1> DEFINE g == [h EXCEPT ![b] = x]
  <1>1. h = [a \in Addr |-> h[a]] /\ \A a \in Addr : Shaped(h[a])
    BY DEF IsHeap
  <1>2. g = [a \in Addr |-> g[a]] /\ \A a \in Addr : g[a] = IF a = b THEN x ELSE h[a]
    BY <1>1
  <1> HIDE DEF g
  <1>3. IsHeap(g)
    BY <1>1, <1>2 DEF IsHeap
  <1>4. \A a \in Addr : g[a].kind = h[a].kind
    BY <1>2
  <1>5. SameObjects(h, g)
    BY <1>4 DEF SameObjects, Of
  <1> QED
    BY <1>3, <1>5 DEF g

\* r kept every object where it was.
Keeps(h, r) == r.ub = FALSE /\ IsHeap(r.heap) /\ SameObjects(h, r.heap)

\* A C function that changes an object and may then fail, called from C++:
\* the error is gone again.
LEMMA CallKeeps ==
    ASSUME NEW h, NEW g, IsHeap(h), Room(h), IsHeap(g), SameObjects(h, g), NEW res
    PROVE  Keeps(h, wrapped_call(IF res = "Ok" THEN Return(g, true)
                                               ELSE Fail(g, res, false)))
  <1>1. Room(g)
    BY SameRoom DEF Room
  <1>2. CASE res = "Ok"
    <2>1. wrapped_call(Return(g, true))
            = [heap |-> g, ret |-> true, out |-> Returned, ub |-> FALSE]
      BY DEF wrapped_call, Return, true, NULL
    <2> QED
      BY <1>2, <2>1 DEF Keeps
  <1>3. CASE res # "Ok"
    <2>1. Fail(g, res, false) = Fail(g, res, NULL)
      BY DEF false, NULL
    <2>2. wrapped_call(Fail(g, res, NULL))
            = [heap |-> g, ret |-> NULL, out |-> Threw(res), ub |-> FALSE]
      BY <1>1, FailCaught
    <2> QED
      BY <1>3, <2>1, <2>2 DEF Keeps
  <1> QED
    BY <1>2, <1>3

\* Every operation of Buffer through C and C++.
LEMMA BufferCalled ==
    ASSUME NEW h, IsHeap(h), Room(h), NEW b \in Of(h, "buffer"), NEW r
    PROVE  Keeps(h, wrapped_call(BufferCall(h, b, r)))
  <1> DEFINE o == h[b]
             x == line_sender_buffer(r.buf, o.max_name_len)
             g == [h EXCEPT ![b] = x]
  <1>1. b \in Addr /\ b # NULL /\ o.kind = "buffer" /\ Shaped(o)
    BY DEF Of, NULL, IsHeap
  <1>2. o = line_sender_buffer(o.buf, o.max_name_len)
    BY <1>1, ShapeFacts
  <1>3. [o EXCEPT !.buf = r.buf] = x
    BY <1>2 DEF line_sender_buffer
  <1>4. [h EXCEPT ![b].buf = r.buf] = [h EXCEPT ![b] = [o EXCEPT !.buf = r.buf]]
    BY <1>1 DEF IsHeap
  <1>5. Shaped(x) /\ x.kind = o.kind
    BY <1>1 DEF Shaped, line_sender_buffer
  <1>6. BufferCall(h, b, r) = IF r.res = "Ok" THEN Return(g, true) ELSE Fail(g, r.res, false)
    BY <1>1, <1>3, <1>4 DEF BufferCall, Points
  <1> HIDE DEF x
  <1>7. IsHeap(g) /\ SameObjects(h, g)
    BY <1>1, <1>5, Replaced
  <1> QED
    BY <1>6, <1>7, CallKeeps

\* Every setter of the builder through C and C++.
LEMMA OptsCalled ==
    ASSUME NEW h, IsHeap(h), Room(h), NEW o \in Of(h, "opts"), NEW r
    PROVE  Keeps(h, wrapped_call(upd_opts(h, o, r)))
  <1> DEFINE new_builder == IF r.res = "Ok" THEN r.builder ELSE DummyBuilder
             x == line_sender_opts(new_builder)
             g == [h EXCEPT ![o] = x]
  <1>1. o \in Addr /\ o # NULL /\ h[o].kind = "opts" /\ Shaped(h[o])
    BY DEF Of, NULL, IsHeap
  <1>2. h[o] = line_sender_opts(h[o].builder)
    BY <1>1, ShapeFacts
  <1>3. \A y : [h EXCEPT ![o].builder = y] = [h EXCEPT ![o] = line_sender_opts(y)]
    <2> SUFFICES ASSUME NEW y
                 PROVE  [h EXCEPT ![o].builder = y] = [h EXCEPT ![o] = line_sender_opts(y)]
      OBVIOUS
    <2>1. [h[o] EXCEPT !.builder = y] = line_sender_opts(y)
      BY <1>2 DEF line_sender_opts
    <2>2. [h EXCEPT ![o].builder = y] = [h EXCEPT ![o] = [h[o] EXCEPT !.builder = y]]
      BY <1>1 DEF IsHeap
    <2> QED
      BY <2>1, <2>2
  <1>4. Shaped(x) /\ x.kind = h[o].kind
    BY <1>1 DEF Shaped, line_sender_opts
  <1>5. upd_opts(h, o, r) = IF r.res = "Ok" THEN Return(g, true) ELSE Fail(g, r.res, false)
    BY <1>1, <1>3 DEF upd_opts, Points
  <1> HIDE DEF x
  <1>6. IsHeap(g) /\ SameObjects(h, g)
    BY <1>1, <1>4, Replaced
  <1> QED
    BY <1>5, <1>6, CallKeeps

-----------------------------------------------------------------------------
(***************************************************************************)
(* Owners.  p[v] is the pointer that variable v owns, or NULL.             *)
(***************************************************************************)
Owns(S, p, V) ==
    /\ p \in [V -> S \cup {NULL}]
    /\ \A v, w \in V : p[v] = p[w] /\ p[v] # NULL => v = w
    /\ \A a \in S : \E v \in V : p[v] = a

\* A new object goes to a variable that owns nothing.
LEMMA Takes ==
    ASSUME NEW S, NEW V, NEW p, Owns(S, p, V), S \subseteq Addr,
           NEW v \in V, p[v] = NULL, NEW a \in Addr, a \notin S
    PROVE  Owns(S \cup {a}, [p EXCEPT ![v] = a], V)
  <1> DEFINE q == [p EXCEPT ![v] = a]
  <1>1. p \in [V -> S \cup {NULL}] /\ a # NULL
    BY DEF Owns, NULL
  <1>2. q \in [V -> S \cup {a} \cup {NULL}] /\ \A w \in V : q[w] = IF w = v THEN a ELSE p[w]
    BY <1>1
  <1> HIDE DEF q
  <1>3. \A x, w \in V : q[x] = q[w] /\ q[x] # NULL => x = w
    BY <1>1, <1>2 DEF Owns
  <1>4. \A b \in S \cup {a} : \E w \in V : q[w] = b
    <2> SUFFICES ASSUME NEW b \in S \cup {a} PROVE \E w \in V : q[w] = b
      OBVIOUS
    <2>1. CASE b = a
      BY <1>2, <2>1
    <2>2. CASE b # a
      <3>1. PICK w \in V : p[w] = b
        BY <2>2 DEF Owns
      <3>2. b # NULL
        BY <2>2 DEF NULL
      <3>3. w # v
        BY <3>1, <3>2
      <3> QED
        BY <1>2, <3>1, <3>3
    <2> QED
      BY <2>1, <2>2
  <1> QED
    BY <1>2, <1>3, <1>4 DEF Owns, q

\* What a variable owned is freed, if it owned something.
LEMMA Releases ==
    ASSUME NEW S, NEW V, NEW p, Owns(S, p, V), S \subseteq Addr, NEW v \in V
    PROVE  Owns(S \ {p[v]}, [p EXCEPT ![v] = NULL], V)
  <1> DEFINE q == [p EXCEPT ![v] = NULL]
  <1>1. p \in [V -> S \cup {NULL}] /\ NULL \notin S
    BY DEF Owns, NULL
  <1>2. \A w \in V : q[w] = IF w = v THEN NULL ELSE p[w]
    BY <1>1
  <1>3. q \in [V -> (S \ {p[v]}) \cup {NULL}]
    <2>1. \A w \in V : q[w] \in (S \ {p[v]}) \cup {NULL}
      <3> SUFFICES ASSUME NEW w \in V, w # v, p[w] # NULL PROVE p[w] \in S /\ p[w] # p[v]
        BY <1>2
      <3> QED
        BY <1>1 DEF Owns
    <2> QED
      BY <1>1, <2>1
  <1> HIDE DEF q
  <1>4. \A x, w \in V : q[x] = q[w] /\ q[x] # NULL => x = w
    BY <1>2 DEF Owns
  <1>5. \A b \in S \ {p[v]} : \E w \in V : q[w] = b
    <2> SUFFICES ASSUME NEW b \in S \ {p[v]} PROVE \E w \in V : q[w] = b
      OBVIOUS
    <2>1. PICK w \in V : p[w] = b
      BY DEF Owns
    <2>2. w # v
      BY <2>1
    <2> QED
      BY <1>2, <2>1, <2>2
  <1> QED
    BY <1>3, <1>4, <1>5 DEF Owns, q

\* A pointer goes from one variable to another that owns nothing.
LEMMA Moves ==
    ASSUME NEW S, NEW V, NEW p, Owns(S, p, V), NULL \notin S,
           NEW v \in V, NEW w \in V, p[v] = NULL
    PROVE  Owns(S, [p EXCEPT ![v] = p[w], ![w] = NULL], V)
  <1> DEFINE q == [p EXCEPT ![v] = p[w], ![w] = NULL]
  <1>1. p \in [V -> S \cup {NULL}]
    BY DEF Owns
  <1>2. \A x \in V : q[x] = IF x = w THEN NULL ELSE IF x = v THEN p[w] ELSE p[x]
    BY <1>1
  <1>3. q \in [V -> S \cup {NULL}]
    BY <1>1
  <1> HIDE DEF q
  <1>4. \A x, y \in V : q[x] = q[y] /\ q[x] # NULL => x = y
    BY <1>2 DEF Owns
  <1>5. \A b \in S : \E x \in V : q[x] = b
    <2> SUFFICES ASSUME NEW b \in S PROVE \E x \in V : q[x] = b
      OBVIOUS
    <2>1. PICK x \in V : p[x] = b
      BY DEF Owns
    <2>2. x # v
      BY <2>1
    <2>3. CASE x = w
      <3>1. v # w
        BY <2>2, <2>3
      <3> QED
        BY <1>2, <2>1, <2>3, <3>1
    <2>4. CASE x # w
      BY <1>2, <2>1, <2>2, <2>4
    <2> QED
      BY <2>3, <2>4
  <1> QED
    BY <1>3, <1>4, <1>5 DEF Owns, q

\* An object has one owner and nothing else has any.
LEMMA OwnersAre ==
    ASSUME NEW S, NEW V, NEW p, Owns(S, p, V), NULL \notin S, NEW a, a # NULL
    PROVE  LET owners == {v \in V : p[v] = a}
           IN  /\ a \in S => Cardinality(owners) = 1
               /\ a \notin S => owners = {}
  <1> DEFINE owners == {v \in V : p[v] = a}
  <1>1. ASSUME a \in S PROVE Cardinality(owners) = 1
    <2>1. PICK v \in V : p[v] = a
      BY <1>1 DEF Owns
    <2>2. owners = {v}
      BY <2>1 DEF Owns
    <2> QED
      BY <2>2, FS_Singleton
  <1>2. ASSUME a \notin S PROVE owners = {}
    BY <1>2 DEF Owns
  <1> QED
    BY <1>1, <1>2

-----------------------------------------------------------------------------
(***************************************************************************)
(* Statements about buffers.                                               *)
(***************************************************************************)
\* The pointer in an object.
Ptr(o) == IF o = Dead THEN NULL ELSE o.impl

BufPtrs(bs) == [v \in Bufs |-> Ptr(bs[v])]

IsBuf(o) == o = Dead \/ o = Object(o.impl, o.max_name_len)

\* Every C buffer has one owner and no error is left behind.
BuffersOk(h, bs) ==
    /\ IsHeap(h) /\ Of(h, "error") = {}
    /\ bs = [v \in Bufs |-> bs[v]] /\ \A v \in Bufs : IsBuf(bs[v])
    /\ Owns(Of(h, "buffer"), BufPtrs(bs), Bufs)

\* Room for an error, and for the buffer that a variable does not have yet.
Ample(h, bs) ==
    /\ Room(h)
    /\ \A v \in Bufs : Ptr(bs[v]) = NULL => RoomForTwo(h)

\* The objects that are not buffers stay where they are.
OthersStay(h, g) == \A kind \in {"opts", "sender"} : Of(g, kind) = Of(h, kind)

\* What every statement about buffers comes to.
Fares == BuffersOk(heap', bufs') /\ ub' = FALSE /\ OthersStay(heap, heap')

\* An object is not a dead variable.
LEMMA ObjectFacts ==
    ASSUME NEW p, NEW n
    PROVE  /\ Object(p, n) # Dead /\ Ptr(Object(p, n)) = p /\ IsBuf(Object(p, n))
           /\ Object(p, n).impl = p
           /\ Ptr(Dead) = NULL /\ IsBuf(Dead)
  <1>1. DOMAIN Object(p, n) = {"impl", "max_name_len"} /\ DOMAIN Dead = {"dead"}
    BY DEF Object, Dead
  <1>2. Object(p, n) # Dead
    BY <1>1
  <1>3. Object(p, n).impl = p /\ Object(p, n).max_name_len = n
    BY DEF Object
  <1> QED
    BY <1>2, <1>3 DEF Ptr, IsBuf

\* One variable is given another object.
LEMMA OneChanges ==
    ASSUME NEW bs, bs = [v \in Bufs |-> bs[v]], \A v \in Bufs : IsBuf(bs[v]),
           NEW v \in Bufs, NEW o, IsBuf(o)
    PROVE  LET cs == [bs EXCEPT ![v] = o]
           IN  /\ cs = [w \in Bufs |-> cs[w]] /\ \A w \in Bufs : IsBuf(cs[w])
               /\ BufPtrs(cs) = [BufPtrs(bs) EXCEPT ![v] = Ptr(o)]
  <1> DEFINE cs == [bs EXCEPT ![v] = o]
  <1>1. cs = [w \in Bufs |-> cs[w]] /\ \A w \in Bufs : cs[w] = IF w = v THEN o ELSE bs[w]
    OBVIOUS
  <1> HIDE DEF cs
  <1>2. \A w \in Bufs : IsBuf(cs[w])
    BY <1>1
  <1>3. BufPtrs(cs) = [BufPtrs(bs) EXCEPT ![v] = Ptr(o)]
    BY <1>1 DEF BufPtrs
  <1> QED
    BY <1>1, <1>2, <1>3 DEF cs

\* The end of a statement, once the owners are known.
LEMMA EndsFares ==
    ASSUME BuffersOk(heap, bufs), NEW v \in Bufs, NEW o, IsBuf(o), NEW r, Ends(v, o, r),
           r.ub = FALSE, IsHeap(r.heap), Of(r.heap, "error") = {},
           OthersStay(heap, r.heap),
           Owns(Of(r.heap, "buffer"), [BufPtrs(bufs) EXCEPT ![v] = Ptr(o)], Bufs)
    PROVE  Fares
  <1> DEFINE cs == [bufs EXCEPT ![v] = o]
  <1>1. heap' = r.heap /\ bufs' = cs /\ ub' = FALSE
    BY DEF Ends
  <1>2. /\ cs = [w \in Bufs |-> cs[w]] /\ \A w \in Bufs : IsBuf(cs[w])
        /\ BufPtrs(cs) = [BufPtrs(bufs) EXCEPT ![v] = Ptr(o)]
    BY OneChanges DEF BuffersOk
  <1> HIDE DEF cs
  <1>3. BuffersOk(r.heap, cs)
    BY <1>2 DEF BuffersOk
  <1> QED
    BY <1>1, <1>3 DEF Fares

\* may_init: the object has a C buffer then, and there is still room.
LEMMA InitFacts ==
    ASSUME NEW h, NEW bs, BuffersOk(h, bs), Ample(h, bs), NEW v \in Bufs, bs[v] # Dead
    PROVE  LET i == may_init(h, bs[v])
           IN  /\ IsHeap(i.heap) /\ Of(i.heap, "error") = {} /\ Room(i.heap)
               /\ IsBuf(i.obj) /\ Ptr(i.obj) = i.obj.impl
               /\ i.obj.impl \in Of(i.heap, "buffer")
               /\ OthersStay(h, i.heap)
               /\ Owns(Of(i.heap, "buffer"), [BufPtrs(bs) EXCEPT ![v] = Ptr(i.obj)], Bufs)
  <1> DEFINE o == bs[v]
             n == o.max_name_len
             p == BufPtrs(bs)
             i == may_init(h, o)
  <1>1. /\ IsHeap(h) /\ Of(h, "error") = {} /\ Room(h)
        /\ o = Object(o.impl, n) /\ Owns(Of(h, "buffer"), p, Bufs)
    BY DEF BuffersOk, IsBuf, Ample
  <1>2. Ptr(o) = o.impl /\ p[v] = Ptr(o)
    BY DEF Ptr, BufPtrs
  <1>3. p \in [Bufs -> Of(h, "buffer") \cup {NULL}]
    BY <1>1 DEF Owns
  <1>4. CASE o.impl # NULL
    <2>1. i.heap = h /\ i.obj = o
      BY <1>4 DEF may_init
    <2>2. o.impl \in Of(h, "buffer")
      BY <1>2, <1>3, <1>4
    <2>3. [p EXCEPT ![v] = Ptr(o)] = p
      BY <1>2, <1>3
    <2>4. IsBuf(o) /\ OthersStay(h, h)
      BY <1>1 DEF IsBuf, OthersStay
    <2> QED
      BY <1>1, <1>2, <2>1, <2>2, <2>3, <2>4
  <1>5. CASE o.impl = NULL
    <2> DEFINE x == line_sender_buffer(NewBuffer, n)
               r == Give(h, x)
    <2>1. Shaped(x) /\ x # Freed /\ x.kind = "buffer"
      BY DEF Shaped, line_sender_buffer, Freed
    <2> HIDE DEF x
    <2>2. Gave(h, x, r)
      BY <1>1, <2>1, GiveFacts
    <2>3. line_sender_buffer_with_max_name_len(h, n) = r
      BY DEF line_sender_buffer_with_max_name_len, x
    <2> HIDE DEF r
    <2>4. line_sender_buffer_reserve(r.heap, r.ret).heap = r.heap
      BY DEF line_sender_buffer_reserve, Read, Return, Undefined
    <2>5. [o EXCEPT !.impl = r.ret] = Object(r.ret, n)
      BY <1>1 DEF Object
    <2>6. i.heap = r.heap /\ i.obj = Object(r.ret, n)
      BY <1>5, <2>3, <2>4, <2>5 DEF may_init
    <2>7. PICK c, d \in Addr : c # d /\ h[c] = Freed /\ h[d] = Freed
      BY <1>2, <1>5 DEF Ample, RoomForTwo
    <2>8. Room(r.heap)
      BY <2>2, <2>7 DEF Gave, Room
    <2>9. /\ r.ret \in Addr \ Of(h, "buffer")
          /\ Of(r.heap, "buffer") = Of(h, "buffer") \cup {r.ret}
          /\ \A kind \in Kinds \ {"buffer"} : Of(r.heap, kind) = Of(h, kind)
      BY <2>1, <2>2 DEF Gave, Of, Freed
    <2>10. Of(r.heap, "error") = {} /\ OthersStay(h, r.heap)
      BY <1>1, <2>9 DEF OthersStay, Kinds
    <2>11. Owns(Of(r.heap, "buffer"), [p EXCEPT ![v] = r.ret], Bufs)
      <3>1. p[v] = NULL /\ Of(h, "buffer") \subseteq Addr
        BY <1>2, <1>5 DEF Of
      <3> QED
        BY <1>1, <2>9, <3>1, Takes
    <2>12. IsHeap(r.heap)
      BY <2>2 DEF Gave
    <2>13. IsBuf(i.obj) /\ Ptr(i.obj) = r.ret /\ i.obj.impl = r.ret
      BY <2>6, ObjectFacts
    <2> QED
      BY <2>6, <2>8, <2>9, <2>10, <2>11, <2>12, <2>13
  <1> QED
    BY <1>4, <1>5

\* A statement that keeps every object, and the variable its buffer.
LEMMA KeepsFares ==
    ASSUME BuffersOk(heap, bufs), NEW v \in Bufs, NEW r, Ends(v, bufs[v], r), Keeps(heap, r)
    PROVE  Fares
  <1>1. /\ IsHeap(r.heap) /\ r.ub = FALSE /\ Of(r.heap, "error") = {}
        /\ OthersStay(heap, r.heap) /\ Of(r.heap, "buffer") = Of(heap, "buffer")
    BY DEF Keeps, SameObjects, BuffersOk, Kinds, OthersStay
  <1>2. IsBuf(bufs[v]) /\ Owns(Of(heap, "buffer"), BufPtrs(bufs), Bufs)
    BY DEF BuffersOk
  <1>3. [BufPtrs(bufs) EXCEPT ![v] = Ptr(bufs[v])] = BufPtrs(bufs)
    BY DEF BufPtrs
  <1> QED
    BY <1>1, <1>2, <1>3, EndsFares

\* A method: may_init, then an operation of Buffer that may fail.
LEMMA MethodFares ==
    ASSUME BuffersOk(heap, bufs), Ample(heap, bufs), NEW v \in Bufs, bufs[v] # Dead, NEW r,
           LET i == may_init(heap, bufs[v])
           IN  Ends(v, i.obj, wrapped_call(BufferCall(i.heap, i.obj.impl, r)))
    PROVE  Fares
  <1> DEFINE i == may_init(heap, bufs[v])
             w == wrapped_call(BufferCall(i.heap, i.obj.impl, r))
  <1>1. /\ IsHeap(i.heap) /\ Of(i.heap, "error") = {} /\ Room(i.heap)
        /\ IsBuf(i.obj) /\ Ptr(i.obj) = i.obj.impl
        /\ i.obj.impl \in Of(i.heap, "buffer")
        /\ OthersStay(heap, i.heap)
        /\ Owns(Of(i.heap, "buffer"), [BufPtrs(bufs) EXCEPT ![v] = Ptr(i.obj)], Bufs)
    BY InitFacts
  <1>2. Ends(v, i.obj, w)
    OBVIOUS
  <1> HIDE DEF i
  <1>3. Keeps(i.heap, w)
    BY <1>1, BufferCalled
  <1> HIDE DEF w
  <1>4. /\ IsHeap(w.heap) /\ w.ub = FALSE /\ Of(w.heap, "error") = {}
        /\ OthersStay(heap, w.heap) /\ Of(w.heap, "buffer") = Of(i.heap, "buffer")
    BY <1>1, <1>3 DEF Keeps, SameObjects, Kinds, OthersStay
  <1> QED
    BY <1>1, <1>2, <1>4, EndsFares

\* The constructors of the views throw or return, and leave the heap alone.
LEMMA ViewFacts ==
    ASSUME NEW h, IsHeap(h), Room(h), NEW s
    PROVE  /\ utf8_view(h, s).heap = h /\ utf8_view(h, s).ub = FALSE
           /\ table_name_view(h, s).heap = h /\ table_name_view(h, s).ub = FALSE
           /\ column_name_view(h, s).heap = h /\ column_name_view(h, s).ub = FALSE
  <1>1. \A code : LET w == wrapped_call(Fail(h, code, false)) IN w.heap = h /\ w.ub = FALSE
    BY FailCaught DEF false, NULL
  <1>2. LET w == wrapped_call(Return(h, true)) IN w.heap = h /\ w.ub = FALSE
    BY DEF wrapped_call, Return, true, NULL
  <1>3. \/ line_sender_utf8_init(h, s) = Return(h, true)
        \/ line_sender_utf8_init(h, s) = Fail(h, "InvalidUtf8", false)
    BY DEF line_sender_utf8_init
  <1>4. \/ NameInit(h, s) = Return(h, true)
        \/ NameInit(h, s) = Fail(h, "InvalidUtf8", false)
        \/ NameInit(h, s) = Fail(h, "InvalidName", false)
    BY <1>3 DEF NameInit
  <1>5. utf8_view(h, s).heap = h /\ utf8_view(h, s).ub = FALSE
    BY <1>1, <1>2, <1>3 DEF utf8_view
  <1>6. LET w == wrapped_call(NameInit(h, s)) IN w.heap = h /\ w.ub = FALSE
    BY <1>1, <1>2, <1>4
  <1> QED
    BY <1>5, <1>6 DEF table_name_view, column_name_view, line_sender_table_name_init,
                      line_sender_column_name_init

\* A method after its views: they threw, or an operation of Buffer follows.
Follows(v, view, r) ==
    IF view.out # Returned THEN Ends(v, bufs[v], view)
    ELSE LET i == may_init(view.heap, bufs[v])
         IN  Ends(v, i.obj, wrapped_call(BufferCall(i.heap, i.obj.impl, r)))

\* Both are fine.
LEMMA FollowsFares ==
    ASSUME BuffersOk(heap, bufs), Ample(heap, bufs), NEW v \in Bufs, bufs[v] # Dead,
           NEW view, view.heap = heap, view.ub = FALSE, NEW r, Follows(v, view, r)
    PROVE  Fares
  <1>1. CASE view.out # Returned
    <2>1. Ends(v, bufs[v], view)
      BY <1>1 DEF Follows
    <2>2. Keeps(heap, view)
      BY DEF Keeps, SameObjects, BuffersOk
    <2> QED
      BY <2>1, <2>2, KeepsFares
  <1>2. CASE view.out = Returned
    <2>1. LET i == may_init(heap, bufs[v])
          IN  Ends(v, i.obj, wrapped_call(BufferCall(i.heap, i.obj.impl, r)))
      BY <1>2 DEF Follows
    <2> QED
      BY <2>1, MethodFares
  <1> QED
    BY <1>1, <1>2

\* A method is called on the buffer of v.
CalledOn(v) ==
    /\ Live(v)
    /\ \E view : view.heap = heap /\ view.ub = FALSE /\ \E r : Follows(v, view, r)

\* Whatever it is, the buffers stay in order.
LEMMA MethodsFare ==
    ASSUME BuffersOk(heap, bufs), Ample(heap, bufs), NEW v \in Bufs, CalledOn(v)
    PROVE  Fares
  BY FollowsFares DEF CalledOn, Live

\* The methods that take a name.
LEMMA NameMethods ==
    ASSUME BuffersOk(heap, bufs), Ample(heap, bufs), NEW v \in Bufs, NEW n,
           \/ Table(v, n) \/ ColumnBool(v, n) \/ ColumnI64(v, n) \/ ColumnF64(v, n)
           \/ \E t \in Times : ColumnTime(v, n, t)
    PROVE  CalledOn(v)
  <1> DEFINE tview == table_name_view(heap, n)
             cview == column_name_view(heap, n)
  <1>1. tview.heap = heap /\ tview.ub = FALSE /\ cview.heap = heap /\ cview.ub = FALSE
    BY ViewFacts DEF BuffersOk, Ample
  <1>2. CASE Table(v, n)
    <2> DEFINE i == may_init(tview.heap, bufs[v])
               r == table(i.heap[i.obj.impl].buf,
                          IF Fits(i.heap, i.obj.impl, n) THEN n ELSE BadName)
    <2>1. Live(v) /\ Follows(v, tview, r)
      BY <1>2 DEF Table, Method, Follows, line_sender_buffer_table
    <2> QED
      BY <1>1, <2>1 DEF CalledOn
  <1> DEFINE i == may_init(cview.heap, bufs[v])
             fits == Fits(i.heap, i.obj.impl, n)
             c == column(i.heap[i.obj.impl].buf, fits)
  <1>3. CASE ColumnBool(v, n)
    <2>1. Live(v) /\ Follows(v, cview, c)
      BY <1>3 DEF ColumnBool, Method, Follows, line_sender_buffer_column_bool
    <2> QED
      BY <1>1, <2>1 DEF CalledOn
  <1>4. CASE ColumnI64(v, n)
    <2>1. Live(v) /\ Follows(v, cview, c)
      BY <1>4 DEF ColumnI64, Method, Follows, line_sender_buffer_column_i64
    <2> QED
      BY <1>1, <2>1 DEF CalledOn
  <1>5. CASE ColumnF64(v, n)
    <2>1. Live(v) /\ Follows(v, cview, c)
      BY <1>5 DEF ColumnF64, Method, Follows, line_sender_buffer_column_f64
    <2> QED
      BY <1>1, <2>1 DEF CalledOn
  <1>6. ASSUME NEW t \in Times, ColumnTime(v, n, t) PROVE CalledOn(v)
    <2> DEFINE r == column_ts(i.heap[i.obj.impl].buf, fits,
                              IF t.unit = "nanos" THEN Nanos(timestamp_nanos(t))
                                                  ELSE Micros(timestamp_micros(t)))
    <2>1. Live(v) /\ Follows(v, cview, r)
      BY <1>6 DEF ColumnTime, Method, Follows, line_sender_buffer_column_ts_nanos,
                  line_sender_buffer_column_ts_micros
    <2> QED
      BY <1>1, <2>1 DEF CalledOn
  <1> QED
    BY <1>2, <1>3, <1>4, <1>5, <1>6

\* The methods that take a name and a text, whichever view is made first.
LEMMA TextMethods ==
    ASSUME BuffersOk(heap, bufs), Ample(heap, bufs), NEW v \in Bufs, NEW n, NEW s,
           Symbol(v, n, s) \/ ColumnStr(v, n, s)
    PROVE  CalledOn(v)
  <1> DEFINE name == column_name_view(heap, n)
             text == utf8_view(heap, s)
  <1>1. \A view \in Views(heap, n, s) : view.heap = heap /\ view.ub = FALSE
    <2>1. name.heap = heap /\ name.ub = FALSE /\ text.heap = heap /\ text.ub = FALSE
      BY ViewFacts DEF BuffersOk, Ample
    <2>2. Views(heap, n, s) \subseteq {name, text}
      BY DEF Views
    <2> HIDE DEF name, text
    <2> QED
      BY <2>1, <2>2
  <1>2. CASE Symbol(v, n, s)
    <2>1. PICK view \in Views(heap, n, s) :
             IF view.out # Returned THEN Ends(v, bufs[v], view)
             ELSE LET i == may_init(view.heap, bufs[v])
                  IN  Ends(v, i.obj, wrapped_call(line_sender_buffer_symbol(i.heap,
                                                                            i.obj.impl, n)))
      BY <1>2 DEF Symbol, Method
    <2> DEFINE i == may_init(view.heap, bufs[v])
               r == symbol(i.heap[i.obj.impl].buf, Fits(i.heap, i.obj.impl, n))
    <2>2. Follows(v, view, r)
      BY <2>1 DEF Follows, line_sender_buffer_symbol
    <2>3. Live(v)
      BY <1>2 DEF Symbol, Method
    <2> QED
      BY <1>1, <2>2, <2>3 DEF CalledOn
  <1>3. CASE ColumnStr(v, n, s)
    <2>1. PICK view \in Views(heap, n, s) :
             IF view.out # Returned THEN Ends(v, bufs[v], view)
             ELSE LET i == may_init(view.heap, bufs[v])
                  IN  Ends(v, i.obj, wrapped_call(line_sender_buffer_column_str(i.heap,
                                                                                i.obj.impl, n)))
      BY <1>3 DEF ColumnStr, Method
    <2> DEFINE i == may_init(view.heap, bufs[v])
               r == column(i.heap[i.obj.impl].buf, Fits(i.heap, i.obj.impl, n))
    <2>2. Follows(v, view, r)
      BY <2>1 DEF Follows, line_sender_buffer_column_str
    <2>3. Live(v)
      BY <1>3 DEF ColumnStr, Method
    <2> QED
      BY <1>1, <2>2, <2>3 DEF CalledOn
  <1> QED
    BY <1>2, <1>3

\* The methods without a view.
LEMMA PlainMethods ==
    ASSUME BuffersOk(heap, bufs), NEW v \in Bufs,
           \/ \E t \in Times : AtNanos(v, t) \/ AtMicros(v, t)
           \/ AtNow(v) \/ SetMarker(v) \/ RewindToMarker(v)
    PROVE  CalledOn(v)
  <1> DEFINE view == [heap |-> heap, ret |-> NULL, out |-> Returned, ub |-> FALSE]
             i == may_init(view.heap, bufs[v])
             b == i.heap[i.obj.impl].buf
  <1>1. view.heap = heap /\ view.ub = FALSE /\ NoView(heap) = {view}
    BY DEF NoView
  <1> SUFFICES Live(v) /\ \E r : Follows(v, view, r)
    BY <1>1 DEF CalledOn
  <1>2. ASSUME NEW t \in Times, AtNanos(v, t)
        PROVE  Live(v) /\ Follows(v, view, at(b, Nanos(timestamp_nanos(t))))
    BY <1>2 DEF AtNanos, Method, NoView, Follows, line_sender_buffer_at_nanos
  <1>3. ASSUME NEW t \in Times, AtMicros(v, t)
        PROVE  Live(v) /\ Follows(v, view, at(b, Micros(timestamp_micros(t))))
    BY <1>3 DEF AtMicros, Method, NoView, Follows, line_sender_buffer_at_micros
  <1>4. ASSUME AtNow(v) PROVE Live(v) /\ Follows(v, view, at_now(b))
    BY <1>4 DEF AtNow, Method, NoView, Follows, line_sender_buffer_at_now
  <1>5. ASSUME SetMarker(v) PROVE Live(v) /\ Follows(v, view, set_marker(b))
    BY <1>5 DEF SetMarker, Method, NoView, Follows, line_sender_buffer_set_marker
  <1>6. ASSUME RewindToMarker(v) PROVE Live(v) /\ Follows(v, view, rewind_to_marker(b))
    BY <1>6 DEF RewindToMarker, Method, NoView, Follows, line_sender_buffer_rewind_to_marker
  <1> HIDE DEF view, i, b
  <1> QED
    BY <1>2, <1>3, <1>4, <1>5, <1>6

\* An operation of Buffer that cannot fail needs no exception.
LEMMA SureCall ==
    ASSUME NEW h, IsHeap(h), Room(h), NEW b \in Of(h, "buffer"), NEW r, r.res = "Ok"
    PROVE  Keeps(h, After(BufferCall(h, b, r)))
  <1> DEFINE w == [h EXCEPT ![b].buf = r.buf]
             c == BufferCall(h, b, r)
  <1>1. Points(h, b, "buffer")
    BY DEF Points, Of, NULL
  <1>2. c = Return(w, true)
    BY <1>1 DEF BufferCall
  <1> HIDE DEF w, c
  <1>3. wrapped_call(c).heap = c.heap /\ wrapped_call(c).ub = c.ub
    BY <1>2 DEF wrapped_call, Return, true, NULL
  <1>4. Keeps(h, wrapped_call(c))
    BY BufferCalled DEF c
  <1>5. After(c).heap = c.heap /\ After(c).ub = c.ub
    BY DEF After
  <1> QED
    BY <1>3, <1>4, <1>5 DEF Keeps, c

\* A live object with a C buffer points to it.
LEMMA LivePoints ==
    ASSUME NEW h, NEW bs, BuffersOk(h, bs), NEW v \in Bufs, bs[v] # Dead
    PROVE  /\ bs[v] = Object(bs[v].impl, bs[v].max_name_len)
           /\ Ptr(bs[v]) = bs[v].impl /\ BufPtrs(bs)[v] = bs[v].impl
           /\ bs[v].impl = NULL \/ bs[v].impl \in Of(h, "buffer")
  <1>1. BufPtrs(bs)[v] \in Of(h, "buffer") \cup {NULL}
    BY DEF BuffersOk, Owns
  <1> QED
    BY <1>1 DEF BufPtrs, Ptr, BuffersOk, IsBuf

\* reserve, clear_marker and clear.
LEMMA VoidMethods ==
    ASSUME BuffersOk(heap, bufs), Ample(heap, bufs), NEW v \in Bufs,
           Reserve(v) \/ ClearMarker(v) \/ Clear(v)
    PROVE  Fares
  <1> DEFINE b == bufs[v].impl
  <1>1. Live(v) /\ bufs[v] # Dead
    BY DEF Reserve, ClearMarker, Clear, Live
  <1>2. b = NULL \/ b \in Of(heap, "buffer")
    BY <1>1, LivePoints
  <1>3. IsHeap(heap) /\ Room(heap)
    BY DEF BuffersOk, Ample
  <1>4. Keeps(heap, Done(heap))
    BY <1>3 DEF Keeps, Done, SameObjects
  <1>5. CASE Reserve(v)
    <2> DEFINE i == may_init(heap, bufs[v])
               r == After(line_sender_buffer_reserve(i.heap, i.obj.impl))
    <2>1. Ends(v, i.obj, r)
      BY <1>5 DEF Reserve
    <2>2. /\ IsHeap(i.heap) /\ Of(i.heap, "error") = {} /\ Room(i.heap)
          /\ IsBuf(i.obj) /\ Ptr(i.obj) = i.obj.impl
          /\ i.obj.impl \in Of(i.heap, "buffer")
          /\ OthersStay(heap, i.heap)
          /\ Owns(Of(i.heap, "buffer"), [BufPtrs(bufs) EXCEPT ![v] = Ptr(i.obj)], Bufs)
      BY <1>1, InitFacts
    <2> HIDE DEF i
    <2>3. r.heap = i.heap /\ r.ub = FALSE
      BY <2>2 DEF After, line_sender_buffer_reserve, Read, Return, Points, Of, NULL
    <2> HIDE DEF r
    <2> QED
      BY <2>1, <2>2, <2>3, EndsFares
  <1>6. CASE ClearMarker(v)
    <2>1. clear_marker(heap[b].buf).res = "Ok"
      BY DEF clear_marker, Ok
    <2>2. b # NULL => Keeps(heap, After(line_sender_buffer_clear_marker(heap, b)))
      BY <1>2, <1>3, <2>1, SureCall DEF line_sender_buffer_clear_marker
    <2>3. Ends(v, bufs[v], IF b = NULL THEN Done(heap)
                           ELSE After(line_sender_buffer_clear_marker(heap, b)))
      BY <1>6 DEF ClearMarker
    <2> QED
      BY <1>4, <2>2, <2>3, KeepsFares
  <1>7. CASE Clear(v)
    <2>1. clear(heap[b].buf).res = "Ok"
      BY DEF clear, Ok
    <2>2. b # NULL => Keeps(heap, After(line_sender_buffer_clear(heap, b)))
      BY <1>2, <1>3, <2>1, SureCall DEF line_sender_buffer_clear
    <2>3. Ends(v, bufs[v], IF b = NULL THEN Done(heap)
                           ELSE After(line_sender_buffer_clear(heap, b)))
      BY <1>7 DEF Clear
    <2> QED
      BY <1>4, <2>2, <2>3, KeepsFares
  <1> QED
    BY <1>5, <1>6, <1>7

\* The const methods read a buffer that is there, or none.
LEMMA ReadsFare ==
    ASSUME BuffersOk(heap, bufs), NEW v \in Bufs,
           Size(v) \/ RowCount(v) \/ Peek(v) \/ Transactional(v)
    PROVE  Fares
  <1> DEFINE b == bufs[v].impl
  <1>1. Live(v) /\ UNCHANGED <<heap, bufs>>
    BY DEF Size, RowCount, Peek, Transactional, Observe
  <1>2. b = NULL \/ b \in Of(heap, "buffer")
    BY <1>1, LivePoints DEF Live
  <1>3. \A x : Read(heap, b, x).ub = FALSE \/ b = NULL
    BY <1>2 DEF Read, Return, Points, Of
  <1>4. \A x : Return(heap, x).ub = FALSE
    BY DEF Return
  <1>5. ub' = FALSE
    <2>1. CASE Size(v)
      BY <1>3, <1>4, <2>1 DEF Size, Observe, line_sender_buffer_size
    <2>2. CASE RowCount(v)
      BY <1>3, <1>4, <2>2 DEF RowCount, Observe, line_sender_buffer_row_count
    <2>3. CASE Peek(v)
      BY <1>3, <1>4, <2>3 DEF Peek, Observe, line_sender_buffer_peek
    <2>4. CASE Transactional(v)
      BY <1>3, <1>4, <2>4 DEF Transactional, Observe, line_sender_buffer_transactional
    <2> QED
      BY <2>1, <2>2, <2>3, <2>4
  <1> QED
    BY <1>1, <1>5 DEF Fares, OthersStay

\* A clone is a new buffer.
LEMMA CloneFacts ==
    ASSUME NEW h, IsHeap(h), Room(h), NEW b \in Of(h, "buffer")
    PROVE  /\ Gave(h, h[b], line_sender_buffer_clone(h, b))
           /\ h[b].kind = "buffer"
  <1>1. b \in Addr /\ b # NULL /\ h[b].kind = "buffer" /\ Shaped(h[b]) /\ h[b] # Freed
    BY DEF Of, NULL, IsHeap, Freed
  <1>2. line_sender_buffer_clone(h, b) = Give(h, h[b])
    BY <1>1 DEF line_sender_buffer_clone, Points
  <1> QED
    BY <1>1, <1>2, GiveFacts

\* The addresses of buffers are addresses.
LEMMA BufferAddresses ==
    ASSUME NEW h, NEW kind
    PROVE  Of(h, kind) \subseteq Addr /\ NULL \notin Of(h, kind)
  BY DEF Of, NULL

\* A variable that owns nothing is given a clone.
LEMMA CloneOwned ==
    ASSUME NEW h, IsHeap(h), Room(h), Of(h, "error") = {},
           NEW p, Owns(Of(h, "buffer"), p, Bufs),
           NEW v \in Bufs, p[v] = NULL, NEW b \in Of(h, "buffer")
    PROVE  LET r == line_sender_buffer_clone(h, b)
           IN  /\ r.ub = FALSE /\ IsHeap(r.heap) /\ Of(r.heap, "error") = {}
               /\ OthersStay(h, r.heap)
               /\ Owns(Of(r.heap, "buffer"), [p EXCEPT ![v] = r.ret], Bufs)
  <1> DEFINE r == line_sender_buffer_clone(h, b)
  <1>1. Gave(h, h[b], r) /\ h[b].kind = "buffer"
    BY CloneFacts
  <1> HIDE DEF r
  <1>2. /\ r.ub = FALSE /\ IsHeap(r.heap) /\ r.ret \in Addr \ Of(h, "buffer")
        /\ Of(r.heap, "buffer") = Of(h, "buffer") \cup {r.ret}
        /\ \A kind \in Kinds \ {"buffer"} : Of(r.heap, kind) = Of(h, kind)
    BY <1>1 DEF Gave, Of, Freed
  <1>3. Of(r.heap, "error") = {} /\ OthersStay(h, r.heap)
    BY <1>2 DEF Kinds, OthersStay
  <1>4. Owns(Of(r.heap, "buffer"), [p EXCEPT ![v] = r.ret], Bufs)
    BY <1>2, Takes, BufferAddresses
  <1> QED
    BY <1>2, <1>3, <1>4 DEF r

\* A move takes the pointer along.
LEMMA MovedPtrs ==
    ASSUME NEW bs, bs = [x \in Bufs |-> bs[x]], \A x \in Bufs : IsBuf(bs[x]),
           NEW v \in Bufs, NEW w \in Bufs, v # w, bs[w] # Dead
    PROVE  LET cs == [bs EXCEPT ![v] = bs[w], ![w].impl = NULL]
           IN  /\ cs = [x \in Bufs |-> cs[x]] /\ \A x \in Bufs : IsBuf(cs[x])
               /\ BufPtrs(cs) = [BufPtrs(bs) EXCEPT ![v] = BufPtrs(bs)[w], ![w] = NULL]
  <1> DEFINE cs == [bs EXCEPT ![v] = bs[w], ![w].impl = NULL]
             o == bs[w]
             q == Object(NULL, o.max_name_len)
             ps == BufPtrs(bs)
  <1>1. o = Object(o.impl, o.max_name_len)
    BY DEF IsBuf
  <1>2. [o EXCEPT !.impl = NULL] = q
    BY <1>1 DEF Object
  <1>3. /\ cs = [x \in Bufs |-> cs[x]]
        /\ \A x \in Bufs : cs[x] = IF x = w THEN [o EXCEPT !.impl = NULL]
                                    ELSE IF x = v THEN o ELSE bs[x]
    OBVIOUS
  <1>4. Ptr(q) = NULL /\ IsBuf(q)
    BY ObjectFacts
  <1>5. \A x \in Bufs : ps[x] = Ptr(bs[x])
    BY DEF BufPtrs
  <1> HIDE DEF cs, q
  <1>6. \A x \in Bufs : cs[x] = IF x = w THEN q ELSE IF x = v THEN o ELSE bs[x]
    BY <1>2, <1>3
  <1>7. \A x \in Bufs : IsBuf(cs[x])
    BY <1>4, <1>6
  <1>8. \A x \in Bufs : Ptr(cs[x]) = IF x = w THEN NULL ELSE IF x = v THEN ps[w] ELSE ps[x]
    BY <1>4, <1>5, <1>6
  <1>9. BufPtrs(cs) = [x \in Bufs |-> IF x = w THEN NULL ELSE IF x = v THEN ps[w] ELSE ps[x]]
    BY <1>8 DEF BufPtrs
  <1>10. ps = [x \in Bufs |-> ps[x]]
    BY DEF BufPtrs
  <1> HIDE DEF ps
  <1>11. [ps EXCEPT ![v] = ps[w], ![w] = NULL]
           = [x \in Bufs |-> IF x = w THEN NULL ELSE IF x = v THEN ps[w] ELSE ps[x]]
    BY <1>10
  <1> QED
    BY <1>3, <1>7, <1>9, <1>11 DEF cs, ps

\* Constructors, save for the copy of an object without a C buffer.
LEMMA ConstructFares ==
    ASSUME BuffersOk(heap, bufs), Ample(heap, bufs), ub = FALSE,
           NEW v \in Bufs, NEW w \in Bufs, NEW n,
           \/ Construct(v, n) \/ MoveConstruct(v, w)
           \/ CopyConstruct(v, w) /\ bufs[w].impl # NULL
    PROVE  Fares
  <1> DEFINE p == BufPtrs(bufs)
  <1>1. /\ IsHeap(heap) /\ Room(heap) /\ Of(heap, "error") = {}
        /\ bufs = [x \in Bufs |-> bufs[x]] /\ \A x \in Bufs : IsBuf(bufs[x])
        /\ Owns(Of(heap, "buffer"), p, Bufs)
    BY DEF BuffersOk, Ample
  <1>2. bufs[v] = Dead /\ p[v] = NULL
    BY DEF Construct, CopyConstruct, MoveConstruct, Live, BufPtrs, Ptr
  <1>3. CASE Construct(v, n)
    <2>1. Ends(v, Object(NULL, n), Done(heap))
      BY <1>3 DEF Construct
    <2>2. [p EXCEPT ![v] = NULL] = p
      BY <1>2 DEF BufPtrs
    <2>3. IsBuf(Object(NULL, n)) /\ Ptr(Object(NULL, n)) = NULL
      BY ObjectFacts
    <2>4. Done(heap).heap = heap /\ Done(heap).ub = FALSE /\ OthersStay(heap, heap)
      BY DEF Done, OthersStay
    <2> HIDE DEF p
    <2>5. Owns(Of(Done(heap).heap, "buffer"), [p EXCEPT ![v] = Ptr(Object(NULL, n))], Bufs)
      BY <1>1, <2>2, <2>3, <2>4
    <2> QED
      BY <1>1, <2>1, <2>3, <2>4, <2>5, EndsFares DEF p
  <1>4. CASE CopyConstruct(v, w) /\ bufs[w].impl # NULL
    <2> DEFINE b == bufs[w].impl
               r == line_sender_buffer_clone(heap, b)
               o == Object(r.ret, bufs[w].max_name_len)
    <2>1. Live(w) /\ b # NULL /\ Ends(v, o, After(r))
      BY <1>4 DEF CopyConstruct
    <2>2. b \in Of(heap, "buffer")
      BY <2>1, LivePoints DEF Live
    <2>3. /\ r.ub = FALSE /\ IsHeap(r.heap) /\ Of(r.heap, "error") = {}
          /\ OthersStay(heap, r.heap)
          /\ Owns(Of(r.heap, "buffer"), [p EXCEPT ![v] = r.ret], Bufs)
      BY <1>1, <1>2, <2>2, CloneOwned
    <2>4. IsBuf(o) /\ Ptr(o) = r.ret
      BY ObjectFacts
    <2>5. After(r).heap = r.heap /\ After(r).ub = r.ub
      BY DEF After
    <2> HIDE DEF r, o
    <2> QED
      BY <2>1, <2>3, <2>4, <2>5, EndsFares
  <1>5. CASE MoveConstruct(v, w)
    <2>1. /\ Live(w) /\ UNCHANGED <<heap, ub>>
          /\ bufs' = [bufs EXCEPT ![v] = bufs[w], ![w].impl = NULL]
      BY <1>5 DEF MoveConstruct
    <2>2. v # w /\ bufs[w] # Dead
      BY <1>2, <2>1 DEF Live
    <2>3. /\ bufs' = [x \in Bufs |-> bufs'[x]] /\ \A x \in Bufs : IsBuf(bufs'[x])
          /\ BufPtrs(bufs') = [p EXCEPT ![v] = p[w], ![w] = NULL]
      BY <1>1, <2>1, <2>2, MovedPtrs
    <2>4. Owns(Of(heap, "buffer"), BufPtrs(bufs'), Bufs)
      <3> HIDE DEF p
      <3>1. Owns(Of(heap, "buffer"), [p EXCEPT ![v] = p[w], ![w] = NULL], Bufs)
        BY <1>1, <1>2, Moves, BufferAddresses
      <3> QED
        BY <2>3, <3>1, Zenon
    <2> QED
      BY <1>1, <2>1, <2>3, <2>4 DEF Fares, BuffersOk, OthersStay
  <1> QED
    BY <1>3, <1>4, <1>5

\* line_sender_buffer_free of what a variable owns.
LEMMA FreeOwned ==
    ASSUME NEW h, NEW bs, BuffersOk(h, bs), Room(h), NEW v \in Bufs, bs[v] # Dead
    PROVE  LET f == line_sender_buffer_free(h, bs[v].impl)
           IN  /\ f.ub = FALSE /\ IsHeap(f.heap) /\ Room(f.heap)
               /\ Of(f.heap, "error") = {} /\ OthersStay(h, f.heap)
               /\ Of(f.heap, "buffer") = Of(h, "buffer") \ {bs[v].impl}
               /\ Owns(Of(f.heap, "buffer"), [BufPtrs(bs) EXCEPT ![v] = NULL], Bufs)
  <1> DEFINE b == bs[v].impl
             f == line_sender_buffer_free(h, b)
             p == BufPtrs(bs)
  <1>1. IsHeap(h) /\ Of(h, "error") = {} /\ Owns(Of(h, "buffer"), p, Bufs)
    BY DEF BuffersOk
  <1>2. p[v] = b /\ (b = NULL \/ b \in Of(h, "buffer"))
    BY LivePoints
  <1>3. Frees(h, "buffer", b, f)
    BY <1>1, <1>2, DropFacts DEF line_sender_buffer_free, Kinds
  <1> HIDE DEF f, b, p
  <1>4. /\ f.ub = FALSE /\ IsHeap(f.heap) /\ Of(f.heap, "buffer") = Of(h, "buffer") \ {b}
        /\ Of(f.heap, "error") = {} /\ OthersStay(h, f.heap)
    BY <1>1, <1>3 DEF Frees, Kinds, OthersStay
  <1>5. Room(f.heap)
    <2>1. CASE b = NULL
      BY <1>3, <2>1 DEF Frees
    <2>2. CASE b # NULL
      BY <1>2, <1>3, <2>2 DEF Frees, Room, Of
    <2> QED
      BY <2>1, <2>2
  <1>6. Owns(Of(h, "buffer") \ {b}, [p EXCEPT ![v] = NULL], Bufs)
    BY <1>1, <1>2, Releases, BufferAddresses
  <1>7. Owns(Of(f.heap, "buffer"), [p EXCEPT ![v] = NULL], Bufs)
    BY <1>4, <1>6, Zenon
  <1> QED
    BY <1>4, <1>5, <1>7 DEF f, b, p

\* ~line_sender_buffer().
LEMMA DestroyFares ==
    ASSUME BuffersOk(heap, bufs), Ample(heap, bufs), NEW v \in Bufs, Destroy(v)
    PROVE  Fares
  <1> DEFINE f == line_sender_buffer_free(heap, bufs[v].impl)
             q == [BufPtrs(bufs) EXCEPT ![v] = NULL]
  <1>1. bufs[v] # Dead /\ Ends(v, Dead, After(f))
    BY DEF Destroy, Live
  <1>2. /\ f.ub = FALSE /\ IsHeap(f.heap) /\ Room(f.heap)
        /\ Of(f.heap, "error") = {} /\ OthersStay(heap, f.heap)
        /\ Of(f.heap, "buffer") = Of(heap, "buffer") \ {bufs[v].impl}
        /\ Owns(Of(f.heap, "buffer"), q, Bufs)
    BY <1>1, FreeOwned DEF Ample
  <1>3. IsBuf(Dead) /\ Ptr(Dead) = NULL
    BY ObjectFacts
  <1>4. After(f).heap = f.heap /\ After(f).ub = f.ub
    BY DEF After
  <1> HIDE DEF f
  <1>5. Owns(Of(After(f).heap, "buffer"), [BufPtrs(bufs) EXCEPT ![v] = Ptr(Dead)], Bufs)
    BY <1>2, <1>3, <1>4, Zenon DEF q
  <1> QED
    BY <1>1, <1>2, <1>3, <1>4, <1>5, EndsFares

\* operator=: to the object itself, to one with a buffer and to one without.
LEMMA AssignFares ==
    ASSUME BuffersOk(heap, bufs), Ample(heap, bufs), ub = FALSE,
           NEW v \in Bufs, NEW w \in Bufs, CopyAssign(v, w) \/ MoveAssign(v, w)
    PROVE  Fares
  <1> DEFINE b == bufs[w].impl
             n == bufs[w].max_name_len
             f == line_sender_buffer_free(heap, bufs[v].impl)
             p == BufPtrs(bufs)
             q == [p EXCEPT ![v] = NULL]
  <1>1. bufs[v] # Dead /\ bufs[w] # Dead
    BY DEF CopyAssign, MoveAssign, Live
  <1>2. /\ f.ub = FALSE /\ IsHeap(f.heap) /\ Room(f.heap)
        /\ Of(f.heap, "error") = {} /\ OthersStay(heap, f.heap)
        /\ Of(f.heap, "buffer") = Of(heap, "buffer") \ {bufs[v].impl}
        /\ Owns(Of(f.heap, "buffer"), q, Bufs)
    BY <1>1, FreeOwned DEF Ample
  <1>3. /\ p[v] = bufs[v].impl /\ p[w] = b
        /\ b = NULL \/ b \in Of(heap, "buffer")
    BY <1>1, LivePoints
  <1>4. /\ bufs = [x \in Bufs |-> bufs[x]] /\ \A x \in Bufs : IsBuf(bufs[x])
        /\ Owns(Of(heap, "buffer"), p, Bufs) /\ IsHeap(heap)
    BY DEF BuffersOk
  <1> HIDE DEF p
  <1>5. p = [x \in Bufs |-> p[x]]
    BY <1>4 DEF Owns
  <1>6. \A a : [q EXCEPT ![v] = a] = [p EXCEPT ![v] = a]
    BY <1>5
  <1>7. q[v] = NULL
    BY <1>5
  <1>8. v # w => b = NULL \/ b \in Of(f.heap, "buffer")
    BY <1>2, <1>3, <1>4 DEF Owns
  <1> HIDE DEF f, q
  <1>9. CASE CopyAssign(v, w) /\ v = w
    <2>1. Ends(v, bufs[v], Done(heap))
      BY <1>9 DEF CopyAssign
    <2>2. Keeps(heap, Done(heap))
      BY <1>4 DEF Keeps, Done, SameObjects
    <2> QED
      BY <2>1, <2>2, KeepsFares
  <1>10. CASE CopyAssign(v, w) /\ v # w
    <2> DEFINE r == IF b # NULL THEN line_sender_buffer_clone(f.heap, b)
                                ELSE Return(f.heap, NULL)
               o == Object(r.ret, n)
               s == After(Then(f, r))
    <2>1. Ends(v, o, s)
      BY <1>10 DEF CopyAssign, f
    <2>2. /\ r.ub = FALSE /\ IsHeap(r.heap) /\ Of(r.heap, "error") = {}
          /\ OthersStay(f.heap, r.heap)
          /\ Owns(Of(r.heap, "buffer"), [q EXCEPT ![v] = r.ret], Bufs)
      <3>1. CASE b # NULL
        <4> DEFINE c == line_sender_buffer_clone(f.heap, b)
        <4>1. /\ c.ub = FALSE /\ IsHeap(c.heap) /\ Of(c.heap, "error") = {}
              /\ OthersStay(f.heap, c.heap)
              /\ Owns(Of(c.heap, "buffer"), [q EXCEPT ![v] = c.ret], Bufs)
          BY <1>2, <1>7, <1>8, <1>10, <3>1, CloneOwned
        <4>2. r = c
          BY <3>1
        <4> HIDE DEF r, c
        <4> QED
          BY <4>1, <4>2, Zenon
      <3>2. CASE b = NULL
        <4>1. r.heap = f.heap /\ r.ret = NULL /\ r.ub = FALSE
          BY <3>2 DEF Return
        <4>2. [q EXCEPT ![v] = NULL] = q
          BY <1>7, <1>5 DEF q
        <4> HIDE DEF r
        <4>3. Owns(Of(r.heap, "buffer"), [q EXCEPT ![v] = r.ret], Bufs)
          BY <1>2, <4>1, <4>2, Zenon
        <4> QED
          BY <1>2, <4>1, <4>3 DEF OthersStay
      <3> QED
        BY <3>1, <3>2
    <2>3. r = [heap |-> r.heap, ret |-> r.ret, err |-> r.err, ub |-> r.ub]
      BY DEF Return, line_sender_buffer_clone, Give, Undefined
    <2> HIDE DEF r
    <2>4. s.heap = r.heap /\ s.ub = FALSE
      BY <1>2, <2>2, <2>3 DEF After, Then
    <2>5. IsBuf(o) /\ Ptr(o) = r.ret
      BY ObjectFacts
    <2>6. OthersStay(heap, r.heap)
      BY <1>2, <2>2 DEF OthersStay
    <2> HIDE DEF s, o
    <2>7. [q EXCEPT ![v] = r.ret] = [p EXCEPT ![v] = Ptr(o)]
      BY <1>6, <2>5, Zenon
    <2>8. Owns(Of(s.heap, "buffer"), [p EXCEPT ![v] = Ptr(o)], Bufs)
      BY <2>2, <2>4, <2>7, Zenon
    <2> QED
      BY <2>1, <2>2, <2>4, <2>5, <2>6, <2>8, EndsFares DEF p
  <1>11. CASE MoveAssign(v, w) /\ v = w
    <2>1. UNCHANGED <<heap, bufs, ub>>
      BY <1>11 DEF MoveAssign
    <2> QED
      BY <2>1 DEF Fares, OthersStay
  <1>12. CASE MoveAssign(v, w) /\ v # w
    <2>1. /\ heap' = f.heap /\ ub' = FALSE
          /\ bufs' = [bufs EXCEPT ![v] = bufs[w], ![w].impl = NULL]
      BY <1>2, <1>12 DEF MoveAssign, f
    <2>2. /\ bufs' = [x \in Bufs |-> bufs'[x]] /\ \A x \in Bufs : IsBuf(bufs'[x])
          /\ BufPtrs(bufs') = [p EXCEPT ![v] = p[w], ![w] = NULL]
      BY <1>1, <1>4, <1>12, <2>1, MovedPtrs, Zenon DEF p
    <2>3. Owns(Of(f.heap, "buffer"), [q EXCEPT ![v] = q[w], ![w] = NULL], Bufs)
      BY <1>2, <1>7, Moves, BufferAddresses
    <2>4. [q EXCEPT ![v] = q[w], ![w] = NULL] = [p EXCEPT ![v] = p[w], ![w] = NULL]
      BY <1>5, <1>12 DEF q
    <2>5. Owns(Of(f.heap, "buffer"), BufPtrs(bufs'), Bufs)
      BY <2>2, <2>3, <2>4, Zenon
    <2> QED
      BY <1>2, <2>1, <2>2, <2>5 DEF Fares, BuffersOk
  <1> QED
    BY <1>9, <1>10, <1>11, <1>12

-----------------------------------------------------------------------------
(***************************************************************************)
(* Memory does not run out.                                                *)
(***************************************************************************)
\* Addresses in use that are fewer than all leave one free, or two.
LEMMA Counting ==
    ASSUME NEW U \in SUBSET Addr, NEW T, IsFiniteSet(T), NEW f \in Injection(U, T)
    PROVE  /\ Cardinality(Addr) > Cardinality(T) => \E a \in Addr : a \notin U
           /\ Cardinality(Addr) > Cardinality(T) + 1
                => \E a, b \in Addr : a # b /\ a \notin U /\ b \notin U
  <1>1. IsFiniteSet(Addr) /\ IsFiniteSet(U) /\ Cardinality(U) <= Cardinality(T)
    BY AddrAssumption, FS_Injection
  <1>2. Cardinality(Addr) \in Nat /\ Cardinality(U) \in Nat /\ Cardinality(T) \in Nat
    BY <1>1, FS_CardinalityType
  <1>3. ASSUME Cardinality(Addr) > Cardinality(T) PROVE \E a \in Addr : a \notin U
    <2>1. Cardinality(Addr) # Cardinality(U)
      BY <1>1, <1>2, <1>3
    <2>2. Addr # U
      BY <2>1, Zenon
    <2> QED
      BY <2>2
  <1>4. ASSUME Cardinality(Addr) > Cardinality(T) + 1
        PROVE  \E a, b \in Addr : a # b /\ a \notin U /\ b \notin U
    <2>1. PICK a \in Addr : a \notin U
      BY <1>2, <1>3, <1>4
    <2>2. IsFiniteSet(U \cup {a}) /\ Cardinality(U \cup {a}) = Cardinality(U) + 1
      BY <1>1, <2>1, FS_AddElement
    <2>3. Cardinality(U \cup {a}) # Cardinality(Addr)
      BY <1>1, <1>2, <1>4, <2>2
    <2>4. U \cup {a} # Addr
      BY <2>3, Zenon
    <2> QED
      BY <2>1, <2>4
  <1> QED
    BY <1>3, <1>4

\* Each object has an owner of its own.
LEMMA OwnersInject ==
    ASSUME NEW S, NEW V, NEW p, Owns(S, p, V), NULL \notin S
    PROVE  \E f : f \in Injection(S, {v \in V : p[v] # NULL})
  <1> DEFINE f == [a \in S |-> CHOOSE v \in V : p[v] = a]
             T == {v \in V : p[v] # NULL}
  <1>1. \A a \in S : f[a] \in V /\ p[f[a]] = a
    BY DEF Owns
  <1>2. f \in [S -> T]
    <2>1. \A a \in S : f[a] \in T
      BY <1>1
    <2> QED
      BY <2>1
  <1>3. \A a, b \in S : f[a] = f[b] => a = b
    BY <1>1
  <1> HIDE DEF f
  <1>4. f \in Injection(S, T)
    BY <1>2, <1>3 DEF Injection, IsInjective
  <1> QED
    BY <1>4

\* A program that has only buffers.
LEMMA BuffersAmple ==
    ASSUME NEW h, NEW bs, BuffersOk(h, bs), Of(h, "opts") = {}, Of(h, "sender") = {}
    PROVE  Ample(h, bs)
  <1> DEFINE U == Of(h, "buffer")
             p == BufPtrs(bs)
             T == {v \in Bufs : p[v] # NULL}
  <1>1. U \in SUBSET Addr /\ NULL \notin U /\ Owns(U, p, Bufs)
    BY BufferAddresses DEF BuffersOk
  <1>2. \A a \in Addr : a \notin U => h[a] = Freed
    <2> SUFFICES ASSUME NEW a \in Addr, a \notin U PROVE h[a] = Freed
      OBVIOUS
    <2>1. Shaped(h[a]) /\ Of(h, "error") = {}
      BY DEF BuffersOk, IsHeap
    <2>2. h[a].kind \notin Kinds
      BY <2>1 DEF Of, Kinds
    <2> QED
      BY <2>1, <2>2, ShapeFacts
  <1> HIDE DEF U, p
  <1>3. PICK f : f \in Injection(U, T)
    BY <1>1, OwnersInject
  <1>4. /\ T \in SUBSET Bufs /\ IsFiniteSet(Bufs)
        /\ Cardinality(Addr) > Cardinality(Bufs) /\ IsFiniteSet(Addr)
    BY AddrAssumption
  <1> HIDE DEF T
  <1>5. IsFiniteSet(T) /\ Cardinality(T) <= Cardinality(Bufs)
    BY <1>4, FS_Subset
  <1>6. /\ Cardinality(T) \in Nat /\ Cardinality(Bufs) \in Nat /\ Cardinality(Addr) \in Nat
    BY <1>4, <1>5, FS_CardinalityType
  <1>7. Room(h)
    <2>1. Cardinality(Addr) > Cardinality(T)
      BY <1>4, <1>5, <1>6
    <2>2. \E a \in Addr : a \notin U
      BY <1>1, <1>3, <1>5, <2>1, Counting
    <2> QED
      BY <1>2, <2>2 DEF Room
  <1>8. ASSUME NEW v \in Bufs, Ptr(bs[v]) = NULL PROVE RoomForTwo(h)
    <2>1. v \in Bufs /\ v \notin T
      BY <1>8 DEF T, p, BufPtrs
    <2>2. Cardinality(Bufs) = Cardinality(T) => Bufs = T
      BY <1>4, FS_Subset, Zenon
    <2>3. Cardinality(Addr) > Cardinality(T) + 1
      BY <1>4, <1>5, <1>6, <2>1, <2>2
    <2>4. \E a, b \in Addr : a # b /\ a \notin U /\ b \notin U
      BY <1>1, <1>3, <1>5, <2>3, Counting
    <2> QED
      BY <1>2, <2>4 DEF RoomForTwo
  <1> QED
    BY <1>7, <1>8 DEF Ample

-----------------------------------------------------------------------------
(***************************************************************************)
(* A program that has only buffers.                                        *)
(***************************************************************************)
BuffersInv ==
    /\ BuffersOk(heap, bufs) /\ ub = FALSE
    /\ Of(heap, "opts") = {} /\ Of(heap, "sender") = {}

\* At the start there are no objects and no variables are alive.
LEMMA BuffersStart ==
    ASSUME Init
    PROVE  BuffersInv
  <1>1. \A kind \in Kinds : Of(heap, kind) = {}
    BY DEF Init, Of, Freed, Kinds
  <1>2. IsHeap(heap)
    BY DEF Init, IsHeap, Shaped
  <1>3. BufPtrs(bufs) = [v \in Bufs |-> NULL]
    BY DEF Init, BufPtrs, Ptr
  <1>4. Owns({}, BufPtrs(bufs), Bufs)
    BY <1>3 DEF Owns
  <1>5. bufs = [v \in Bufs |-> bufs[v]] /\ \A v \in Bufs : IsBuf(bufs[v])
    BY DEF Init, IsBuf
  <1> QED
    BY <1>1, <1>2, <1>4, <1>5 DEF BuffersInv, BuffersOk, Init, Kinds

\* Every statement on a buffer keeps the buffers in order.
LEMMA BufferStatements ==
    ASSUME BuffersInv, ~CopiesNull, BufferStatement
    PROVE  Fares
  <1>1. BuffersOk(heap, bufs) /\ Ample(heap, bufs) /\ ub = FALSE
    BY BuffersAmple DEF BuffersInv
  <1>2. PICK v \in Bufs :
         \/ \E n \in MaxNameLens : Construct(v, n)
         \/ \E w \in Bufs : \/ CopyConstruct(v, w) \/ MoveConstruct(v, w)
                            \/ CopyAssign(v, w) \/ MoveAssign(v, w)
         \/ Destroy(v)
         \/ \E n \in Names :
              \/ Table(v, n) \/ ColumnBool(v, n) \/ ColumnI64(v, n) \/ ColumnF64(v, n)
              \/ \E s \in Texts : Symbol(v, n, s) \/ ColumnStr(v, n, s)
              \/ \E t \in Times : ColumnTime(v, n, t)
         \/ \E t \in Times : AtNanos(v, t) \/ AtMicros(v, t)
         \/ AtNow(v)
         \/ SetMarker(v) \/ RewindToMarker(v) \/ ClearMarker(v)
         \/ Reserve(v) \/ Clear(v)
         \/ Size(v) \/ RowCount(v) \/ Peek(v) \/ Transactional(v)
    BY DEF BufferStatement
  <1>3. CASE \E n \in MaxNameLens : Construct(v, n)
    BY <1>1, <1>3, ConstructFares
  <1>4. CASE \E w \in Bufs : CopyConstruct(v, w) \/ MoveConstruct(v, w)
    BY <1>1, <1>4, ConstructFares DEF CopiesNull
  <1>5. CASE \E w \in Bufs : CopyAssign(v, w) \/ MoveAssign(v, w)
    BY <1>1, <1>5, AssignFares
  <1>6. CASE Destroy(v)
    BY <1>1, <1>6, DestroyFares
  <1>7. CASE \E n \in Names :
               \/ Table(v, n) \/ ColumnBool(v, n) \/ ColumnI64(v, n) \/ ColumnF64(v, n)
               \/ \E t \in Times : ColumnTime(v, n, t)
    BY <1>1, <1>7, NameMethods, MethodsFare
  <1>8. CASE \E n \in Names, s \in Texts : Symbol(v, n, s) \/ ColumnStr(v, n, s)
    BY <1>1, <1>8, TextMethods, MethodsFare
  <1>9. CASE \/ \E t \in Times : AtNanos(v, t) \/ AtMicros(v, t)
             \/ AtNow(v) \/ SetMarker(v) \/ RewindToMarker(v)
    BY <1>1, <1>9, PlainMethods, MethodsFare
  <1>10. CASE Reserve(v) \/ ClearMarker(v) \/ Clear(v)
    BY <1>1, <1>10, VoidMethods
  <1>11. CASE Size(v) \/ RowCount(v) \/ Peek(v) \/ Transactional(v)
    BY <1>1, <1>11, ReadsFare
  <1> QED
    BY <1>2, <1>3, <1>4, <1>5, <1>6, <1>7, <1>8, <1>9, <1>10, <1>11

\* The owners of an address are the variables that hold its pointer.
LEMMA BufferOwners ==
    ASSUME BuffersOk(heap, bufs), NEW a \in Addr
    PROVE  Owners(a) = {v \in Bufs : BufPtrs(bufs)[v] = a}
  BY DEF Owners, Live, BufPtrs, Ptr, NULL

\* A C buffer has one owner, and nothing else has a buffer for an owner.
LEMMA BufferHolders ==
    ASSUME BuffersOk(heap, bufs), NEW a \in Addr
    PROVE  /\ a \in Of(heap, "buffer") => Cardinality(Owners(a)) = 1
           /\ a \notin Of(heap, "buffer") => Owners(a) = {}
  <1> DEFINE S == Of(heap, "buffer")
             owners == {v \in Bufs : BufPtrs(bufs)[v] = a}
  <1>1. Owns(S, BufPtrs(bufs), Bufs) /\ a # NULL /\ NULL \notin S
    BY BufferAddresses DEF BuffersOk, NULL
  <1> HIDE DEF S
  <1>2. (a \in S => Cardinality(owners) = 1) /\ (a \notin S => owners = {})
    BY <1>1, OwnersAre
  <1>3. Owners(a) = owners
    BY BufferOwners
  <1> HIDE DEF owners
  <1> QED
    BY <1>2, <1>3 DEF S

\* Buffers in order have one owner each.
LEMMA InvOwned ==
    ASSUME BuffersInv
    PROVE  OneOwner
  <1>1. BuffersOk(heap, bufs)
    BY DEF BuffersInv
  <1>2. \A a \in Addr : /\ heap[a].kind # "error"
                        /\ heap[a].kind = "buffer" <=> a \in Of(heap, "buffer")
    BY <1>1 DEF BuffersOk, Of
  <1> QED
    BY <1>2, <1>1, BufferHolders DEF OneOwner

\* The copy of an object without a C buffer hands null to the C interface.
LEMMA NullCopied ==
    ASSUME CopiesNull
    PROVE  /\ ub' = TRUE
           /\ \E v, w \in Bufs : bufs[v] = Dead /\ bufs[w] # Dead /\ bufs[w].impl = NULL
  <1>1. PICK v \in Bufs, w \in Bufs : CopyConstruct(v, w) /\ bufs[w].impl = NULL
    BY DEF CopiesNull
  <1>2. line_sender_buffer_clone(heap, NULL).ub = TRUE
    BY DEF line_sender_buffer_clone, Points, Undefined
  <1>3. After(line_sender_buffer_clone(heap, NULL)).ub = TRUE
    BY <1>2 DEF After
  <1> QED
    BY <1>1, <1>3 DEF CopyConstruct, Ends, Live

\* Every C buffer has exactly one owner and every exception has freed the C
\* error that it was made of, after any statements on any number of variables;
\* and no call into the C interface follows NULL or a freed pointer, but for
\* the copy constructor of an object without a C buffer.
THEOREM BuffersAlwaysOwned == BufferSpec => BuffersOwned
  <1> DEFINE Inv == ub = TRUE \/ BuffersInv
  <1>1. Init => Inv
    BY BuffersStart
  <1>2. Inv /\ [BufferNext]_cppvars => Inv' /\ [ub' => ub \/ CopiesNull]_cppvars
    <2> SUFFICES ASSUME Inv, [BufferNext]_cppvars
                 PROVE  Inv' /\ [ub' => ub \/ CopiesNull]_cppvars
      OBVIOUS
    <2>1. CASE ~ub /\ BufferStatement /\ ~CopiesNull
      <3>1. BuffersInv
        BY <2>1
      <3>2. BuffersOk(heap', bufs') /\ ub' = FALSE /\ OthersStay(heap, heap')
        BY <2>1, <3>1, BufferStatements DEF Fares
      <3>3. BuffersInv'
        BY <3>1, <3>2 DEF BuffersInv, OthersStay
      <3> QED
        BY <3>2, <3>3
    <2>2. CASE CopiesNull
      BY <2>2, NullCopied
    <2>3. CASE UNCHANGED cppvars
      <3>1. UNCHANGED <<heap, bufs, ub>>
        BY <2>3 DEF cppvars
      <3>2. Inv'
        BY <3>1 DEF BuffersInv
      <3> QED
        BY <2>3, <3>2
    <2> QED
      BY <2>1, <2>2, <2>3 DEF BufferNext
  <1>3. Inv => (~ub => OneOwner)
    BY InvOwned
  <1> HIDE DEF Inv
  <1> QED
    BY <1>1, <1>2, <1>3, PTL DEF BufferSpec, BuffersOwned

-----------------------------------------------------------------------------
(***************************************************************************)
(* Values.  What each variable is worth, and the limit on names that its   *)
(* C buffer was made with.                                                 *)
(***************************************************************************)
Content(h, o) == IF o.impl = NULL THEN NewBuffer ELSE h[o.impl].buf

WorthOf(h, o) ==
    IF o = Dead THEN Dead
    ELSE [buf |-> Content(h, o), max_name_len |-> o.max_name_len]

Worths(h, bs) == [v \in Bufs |-> WorthOf(h, bs[v])]

\* The C buffer of an object has the limit that the object was made with.
Limit(h, o) == Ptr(o) = NULL \/ h[Ptr(o)].max_name_len = o.max_name_len

Limits(h, bs) == \A v \in Bufs : Limit(h, bs[v])

\* From h to g the buffers that v does not own are left alone.
Spares(h, bs, v, g) == \A a \in Of(h, "buffer") : a # Ptr(bs[v]) => g[a] = h[a]

\* The value is that of the abstract specification.
LEMMA WorthIsValue ==
    /\ [v \in Bufs |-> Value(bufs[v])] = Worths(heap, bufs)
    /\ [v \in Bufs |-> Value(bufs[v])]' = Worths(heap', bufs')
  <1>1. \A o : Value(o) = WorthOf(heap, o)
    BY DEF Value, WorthOf, Content
  <1>2. [v \in Bufs |-> Value(bufs[v])]' = [v \in Bufs |-> WorthOf(heap', bufs'[v])]
    BY DEF Value, WorthOf, Content
  <1> QED
    BY <1>1, <1>2 DEF Worths

\* Two objects do not share a buffer.
LEMMA NotShared ==
    ASSUME NEW h, NEW bs, BuffersOk(h, bs), NEW v \in Bufs, NEW w \in Bufs, v # w,
           NEW g, Spares(h, bs, v, g)
    PROVE  WorthOf(g, bs[w]) = WorthOf(h, bs[w]) /\ (Limit(h, bs[w]) => Limit(g, bs[w]))
  <1> DEFINE p == BufPtrs(bs)
  <1>1. p[v] = Ptr(bs[v]) /\ p[w] = Ptr(bs[w])
    BY DEF BufPtrs
  <1>2. p[w] \in Of(h, "buffer") \cup {NULL} /\ (p[w] # NULL => p[v] # p[w])
    BY DEF BuffersOk, Owns
  <1>3. p[w] # NULL => g[p[w]] = h[p[w]]
    BY <1>1, <1>2 DEF Spares
  <1> HIDE DEF p
  <1>4. Limit(h, bs[w]) => Limit(g, bs[w])
    BY <1>1, <1>3 DEF Limit
  <1>5. CASE bs[w] = Dead
    BY <1>4, <1>5 DEF WorthOf
  <1>6. CASE bs[w] # Dead
    <2>1. Ptr(bs[w]) = bs[w].impl
      BY <1>6 DEF Ptr
    <2>2. Content(g, bs[w]) = Content(h, bs[w])
      BY <1>1, <1>3, <2>1 DEF Content
    <2> QED
      BY <1>4, <2>2 DEF WorthOf
  <1> QED
    BY <1>5, <1>6

\* A statement on one variable changes the value of that one.
LEMMA OneValue ==
    ASSUME NEW h, NEW bs, BuffersOk(h, bs), Limits(h, bs), NEW v \in Bufs,
           NEW g, Spares(h, bs, v, g), NEW o, Limit(g, o)
    PROVE  LET cs == [bs EXCEPT ![v] = o]
           IN  /\ Worths(g, cs) = [Worths(h, bs) EXCEPT ![v] = WorthOf(g, o)]
               /\ Limits(g, cs)
  <1> DEFINE cs == [bs EXCEPT ![v] = o]
  <1>1. bs = [w \in Bufs |-> bs[w]]
    BY DEF BuffersOk
  <1>2. \A w \in Bufs : cs[w] = IF w = v THEN o ELSE bs[w]
    BY <1>1
  <1> HIDE DEF cs
  <1>3. \A w \in Bufs : WorthOf(g, cs[w]) = IF w = v THEN WorthOf(g, o) ELSE WorthOf(h, bs[w])
    BY <1>2, NotShared
  <1>4. Limits(g, cs)
    BY <1>2, NotShared DEF Limits
  <1>5. Worths(g, cs) = [Worths(h, bs) EXCEPT ![v] = WorthOf(g, o)]
    BY <1>3 DEF Worths
  <1> QED
    BY <1>4, <1>5 DEF cs

\* What an exception or the lack of one says.
Said(res) == IF res = "Ok" THEN Returned ELSE Threw(res)

\* An operation of Buffer through C and C++: what the buffer holds then, and
\* what the program sees.
LEMMA CallDoes ==
    ASSUME NEW h, IsHeap(h), Room(h), NEW b \in Of(h, "buffer"), NEW r
    PROVE  LET w == wrapped_call(BufferCall(h, b, r))
           IN  /\ w.out = Said(r.res)
               /\ w.heap[b] = line_sender_buffer(r.buf, h[b].max_name_len)
               /\ \A a \in Addr : a # b => w.heap[a] = h[a]
  <1> DEFINE o == h[b]
             x == line_sender_buffer(r.buf, o.max_name_len)
             g == [h EXCEPT ![b] = x]
             w == wrapped_call(BufferCall(h, b, r))
  <1>1. b \in Addr /\ b # NULL /\ o.kind = "buffer" /\ Shaped(o)
    BY DEF Of, NULL, IsHeap
  <1>2. o = line_sender_buffer(o.buf, o.max_name_len)
    BY <1>1, ShapeFacts
  <1>3. [o EXCEPT !.buf = r.buf] = x
    BY <1>2 DEF line_sender_buffer
  <1>4. [h EXCEPT ![b].buf = r.buf] = [h EXCEPT ![b] = [o EXCEPT !.buf = r.buf]]
    BY <1>1 DEF IsHeap
  <1>5. Shaped(x) /\ x.kind = o.kind
    BY <1>1 DEF Shaped, line_sender_buffer
  <1>6. BufferCall(h, b, r) = IF r.res = "Ok" THEN Return(g, true) ELSE Fail(g, r.res, NULL)
    BY <1>1, <1>3, <1>4 DEF BufferCall, Points, false, NULL
  <1> HIDE DEF x
  <1>7. IsHeap(g) /\ SameObjects(h, g)
    BY <1>1, <1>5, Replaced
  <1>8. g[b] = x /\ \A a \in Addr : a # b => g[a] = h[a]
    BY <1>1 DEF IsHeap
  <1> HIDE DEF g
  <1>9. Room(g)
    BY <1>7, SameRoom DEF Room
  <1>10. w.heap = g /\ w.out = Said(r.res)
    <2>1. CASE r.res = "Ok"
      <3>1. wrapped_call(Return(g, true)) = [heap |-> g, ret |-> true, out |-> Returned, ub |-> FALSE]
        BY DEF wrapped_call, Return, true, NULL
      <3> QED
        BY <1>6, <2>1, <3>1 DEF Said
    <2>2. CASE r.res # "Ok"
      <3>1. wrapped_call(Fail(g, r.res, NULL))
              = [heap |-> g, ret |-> NULL, out |-> Threw(r.res), ub |-> FALSE]
        BY <1>7, <1>9, FailCaught
      <3> QED
        BY <1>6, <2>2, <3>1 DEF Said
    <2> QED
      BY <2>1, <2>2
  <1> QED
    BY <1>8, <1>10 DEF x

\* may_init: the object gets a C buffer that holds what the object was worth.
LEMMA InitKeepsValue ==
    ASSUME NEW h, NEW bs, BuffersOk(h, bs), Ample(h, bs), Limits(h, bs),
           NEW v \in Bufs, bs[v] # Dead
    PROVE  LET i == may_init(h, bs[v])
               n == bs[v].max_name_len
           IN  /\ i.obj = Object(i.obj.impl, n)
               /\ i.heap[i.obj.impl] = line_sender_buffer(Content(h, bs[v]), n)
               /\ Spares(h, bs, v, i.heap)
               /\ i.obj.impl = Ptr(bs[v]) \/ h[i.obj.impl] = Freed
  <1> DEFINE o == bs[v]
             n == o.max_name_len
             i == may_init(h, o)
  <1>1. IsHeap(h) /\ Room(h) /\ o = Object(o.impl, n) /\ Ptr(o) = o.impl
    BY LivePoints DEF BuffersOk, Ample
  <1>2. o.impl = NULL \/ o.impl \in Of(h, "buffer")
    BY LivePoints
  <1>3. CASE o.impl # NULL
    <2>1. i.heap = h /\ i.obj = o
      BY <1>3 DEF may_init
    <2>2. h[o.impl] = line_sender_buffer(h[o.impl].buf, h[o.impl].max_name_len)
      BY <1>1, <1>2, <1>3, ShapeFacts DEF IsHeap, Of
    <2>3. h[o.impl].max_name_len = n /\ Content(h, o) = h[o.impl].buf
      BY <1>1, <1>3 DEF Limits, Limit, Content
    <2>4. Spares(h, bs, v, h)
      BY DEF Spares
    <2> QED
      BY <1>1, <2>1, <2>2, <2>3, <2>4
  <1>4. CASE o.impl = NULL
    <2> DEFINE x == line_sender_buffer(NewBuffer, n)
               r == Give(h, x)
    <2>1. Shaped(x) /\ x # Freed
      BY DEF Shaped, line_sender_buffer, Freed
    <2> HIDE DEF x
    <2>2. Gave(h, x, r)
      BY <1>1, <2>1, GiveFacts
    <2>3. line_sender_buffer_with_max_name_len(h, n) = r
      BY DEF line_sender_buffer_with_max_name_len, x
    <2> HIDE DEF r
    <2>4. line_sender_buffer_reserve(r.heap, r.ret).heap = r.heap
      BY DEF line_sender_buffer_reserve, Read, Return, Undefined
    <2>5. [o EXCEPT !.impl = r.ret] = Object(r.ret, n)
      BY <1>1 DEF Object
    <2>6. i.heap = r.heap /\ i.obj = Object(r.ret, n)
      BY <1>4, <2>3, <2>4, <2>5 DEF may_init
    <2>7. i.obj.impl = r.ret
      BY <2>6, ObjectFacts
    <2>8. Content(h, o) = NewBuffer
      BY <1>4 DEF Content
    <2>9. /\ r.heap[r.ret] = x /\ h[r.ret] = Freed
          /\ \A a \in Addr : a # r.ret => r.heap[a] = h[a]
      BY <2>2 DEF Gave
    <2>10. Spares(h, bs, v, r.heap)
      BY <2>9 DEF Spares, Of, Freed
    <2> QED
      BY <2>6, <2>7, <2>8, <2>9, <2>10 DEF x
  <1> QED
    BY <1>3, <1>4
-----------------------------------------------------------------------------
\* A variable took a value, or an operation was done on the one it had.
Became(v, x) ==
    out' = Returned /\ Worths(heap', bufs') = [Worths(heap, bufs) EXCEPT ![v] = x]

Did(v, r) ==
    /\ out' = Said(r.res)
    /\ Worths(heap', bufs') = [Worths(heap, bufs) EXCEPT ![v].buf = r.buf]

\* A view threw and nothing else happened.
BadView(o) == o \in {Threw("InvalidUtf8"), Threw("InvalidName")}

BadlyViewed == BadView(out') /\ Worths(heap', bufs') = Worths(heap, bufs)

\* A live variable is worth a record.
LEMMA LiveWorth ==
    ASSUME NEW h, NEW bs, NEW v \in Bufs, bs[v] # Dead
    PROVE  Worths(h, bs)[v] = [buf |-> Content(h, bs[v]), max_name_len |-> bs[v].max_name_len]
  BY DEF Worths, WorthOf

\* Which is not a dead variable.
LEMMA LiveNotDead ==
    ASSUME NEW v \in Bufs
    PROVE  Worths(heap, bufs)[v] = Dead <=> bufs[v] = Dead
  <1>1. ASSUME bufs[v] # Dead PROVE Worths(heap, bufs)[v] # Dead
    <2> DEFINE x == Worths(heap, bufs)[v]
    <2>1. x = [buf |-> Content(heap, bufs[v]), max_name_len |-> bufs[v].max_name_len]
      BY <1>1, LiveWorth
    <2> HIDE DEF x
    <2>2. DOMAIN Dead = {"dead"} /\ DOMAIN x = {"buf", "max_name_len"}
      BY <2>1 DEF Dead
    <2> QED
      BY <2>2 DEF x
  <1>2. ASSUME bufs[v] = Dead PROVE Worths(heap, bufs)[v] = Dead
    BY <1>2 DEF Worths, WorthOf
  <1> QED
    BY <1>1, <1>2

\* The end of a statement that changed only what v owns.
LEMMA EndsDoes ==
    ASSUME BuffersOk(heap, bufs), Limits(heap, bufs), NEW v \in Bufs, NEW o, NEW r,
           Ends(v, o, r), Spares(heap, bufs, v, r.heap), Limit(r.heap, o)
    PROVE  /\ Limits(heap', bufs') /\ out' = r.out
           /\ Worths(heap', bufs')
                = [Worths(heap, bufs) EXCEPT ![v] = WorthOf(r.heap, o)]
  <1>1. heap' = r.heap /\ bufs' = [bufs EXCEPT ![v] = o] /\ out' = r.out
    BY DEF Ends
  <1>2. LET cs == [bufs EXCEPT ![v] = o]
        IN  /\ Worths(r.heap, cs) = [Worths(heap, bufs) EXCEPT ![v] = WorthOf(r.heap, o)]
            /\ Limits(r.heap, cs)
    BY OneValue
  <1> QED
    BY <1>1, <1>2, Zenon

\* The same when all is left as it was.
LEMMA EndsSame ==
    ASSUME BuffersOk(heap, bufs), Limits(heap, bufs), NEW v \in Bufs, NEW r,
           Ends(v, bufs[v], r), r.heap = heap
    PROVE  /\ Limits(heap', bufs') /\ out' = r.out
           /\ Worths(heap', bufs') = Worths(heap, bufs)
  <1>1. heap' = heap /\ bufs' = [bufs EXCEPT ![v] = bufs[v]] /\ out' = r.out
    BY DEF Ends
  <1>2. bufs = [w \in Bufs |-> bufs[w]]
    BY DEF BuffersOk
  <1>3. bufs' = bufs
    BY <1>1, <1>2
  <1> QED
    BY <1>1, <1>3

\* A method, once it has a C buffer, does what the operation of Buffer does.
LEMMA MethodDoes ==
    ASSUME BuffersOk(heap, bufs), Ample(heap, bufs), Limits(heap, bufs),
           NEW v \in Bufs, bufs[v] # Dead, NEW r,
           LET i == may_init(heap, bufs[v])
           IN  Ends(v, i.obj, wrapped_call(BufferCall(i.heap, i.obj.impl, r)))
    PROVE  Limits(heap', bufs') /\ Did(v, r)
  <1> DEFINE i == may_init(heap, bufs[v])
             b == i.obj.impl
             n == bufs[v].max_name_len
             w == wrapped_call(BufferCall(i.heap, b, r))
             W == Worths(heap, bufs)
  <1>1. IsHeap(i.heap) /\ Room(i.heap) /\ b \in Of(i.heap, "buffer")
    BY InitFacts
  <1>2. /\ i.obj = Object(b, n)
        /\ i.heap[b] = line_sender_buffer(Content(heap, bufs[v]), n)
        /\ Spares(heap, bufs, v, i.heap)
        /\ b = Ptr(bufs[v]) \/ heap[b] = Freed
    BY InitKeepsValue
  <1>3. Ends(v, i.obj, w)
    OBVIOUS
  <1> HIDE DEF i
  <1>4. /\ w.out = Said(r.res)
        /\ w.heap[b] = line_sender_buffer(r.buf, i.heap[b].max_name_len)
        /\ \A a \in Addr : a # b => w.heap[a] = i.heap[a]
    BY <1>1, CallDoes
  <1> HIDE DEF w, b
  <1>5. w.heap[b].buf = r.buf /\ w.heap[b].max_name_len = n
    BY <1>2, <1>4 DEF line_sender_buffer
  <1>6. Spares(heap, bufs, v, w.heap)
    <2> SUFFICES ASSUME NEW a \in Of(heap, "buffer"), a # Ptr(bufs[v])
                 PROVE  w.heap[a] = heap[a]
      BY DEF Spares
    <2>1. a \in Addr /\ a # b
      BY <1>2 DEF Of, Freed
    <2> QED
      BY <1>2, <1>4, <2>1 DEF Spares
  <1>7. Ptr(i.obj) = b /\ i.obj # Dead /\ i.obj.impl = b /\ i.obj.max_name_len = n
    BY <1>2, ObjectFacts DEF Object
  <1>8. Limit(w.heap, i.obj)
    BY <1>5, <1>7 DEF Limit
  <1>9. /\ Limits(heap', bufs') /\ out' = w.out
        /\ Worths(heap', bufs') = [W EXCEPT ![v] = WorthOf(w.heap, i.obj)]
    BY <1>3, <1>6, <1>8, EndsDoes
  <1>10. b # NULL
    BY <1>1 DEF Of, NULL
  <1>11. WorthOf(w.heap, i.obj) = [buf |-> r.buf, max_name_len |-> n]
    BY <1>5, <1>7, <1>10 DEF WorthOf, Content
  <1>12. W[v] = [buf |-> Content(heap, bufs[v]), max_name_len |-> n]
    BY LiveWorth
  <1>13. W = [x \in Bufs |-> W[x]]
    BY DEF Worths
  <1> HIDE DEF W, n
  <1>14. [W[v] EXCEPT !.buf = r.buf] = [buf |-> r.buf, max_name_len |-> n]
    BY <1>12
  <1>15. [W EXCEPT ![v].buf = r.buf] = [W EXCEPT ![v] = [W[v] EXCEPT !.buf = r.buf]]
    BY <1>13
  <1>16. Worths(heap', bufs') = [W EXCEPT ![v].buf = r.buf]
    BY <1>9, <1>11, <1>14, <1>15
  <1> QED
    BY <1>4, <1>9, <1>16 DEF Did, W

\* What the operation reads is what the variable is worth.
LEMMA InitReads ==
    ASSUME BuffersOk(heap, bufs), Ample(heap, bufs), Limits(heap, bufs),
           NEW v \in Bufs, bufs[v] # Dead
    PROVE  LET i == may_init(heap, bufs[v])
               x == Worths(heap, bufs)[v]
           IN  /\ i.heap[i.obj.impl].buf = x.buf
               /\ \A n : Fits(i.heap, i.obj.impl, n) = (NameLen[n] <= x.max_name_len)
  <1> DEFINE i == may_init(heap, bufs[v])
             b == i.obj.impl
             x == Worths(heap, bufs)[v]
  <1>1. i.heap[b] = line_sender_buffer(Content(heap, bufs[v]), bufs[v].max_name_len)
    BY InitKeepsValue
  <1>2. x = [buf |-> Content(heap, bufs[v]), max_name_len |-> bufs[v].max_name_len]
    BY LiveWorth
  <1> HIDE DEF x, i, b
  <1>3. i.heap[b].buf = x.buf /\ i.heap[b].max_name_len = x.max_name_len
    BY <1>1, <1>2 DEF line_sender_buffer
  <1>4. \A n : Fits(i.heap, b, n) = (NameLen[n] <= x.max_name_len)
    BY <1>3, Zenon DEF Fits
  <1> QED
    BY <1>3, <1>4, Zenon DEF x, i, b

\* A view is made, or its constructor throws.
LEMMA ViewOuts ==
    ASSUME NEW h, IsHeap(h), Room(h), NEW s
    PROVE  /\ LET w == utf8_view(h, s) IN w.out = Returned \/ BadView(w.out)
           /\ LET w == table_name_view(h, s)
              IN  (w.out = Returned /\ s \notin {NotName, NotUtf8}) \/ BadView(w.out)
           /\ LET w == column_name_view(h, s)
              IN  (w.out = Returned /\ s \notin {NotName, NotUtf8}) \/ BadView(w.out)
  <1>1. \A code : wrapped_call(Fail(h, code, false)).out = Threw(code)
    BY FailCaught DEF false, NULL
  <1>2. wrapped_call(Return(h, true)).out = Returned
    BY DEF wrapped_call, Return, true, NULL
  <1>3. \/ line_sender_utf8_init(h, s) = Return(h, true) /\ s # NotUtf8
        \/ line_sender_utf8_init(h, s) = Fail(h, "InvalidUtf8", false) /\ s = NotUtf8
    BY DEF line_sender_utf8_init
  <1>4. Return(h, true).ret = true /\ Fail(h, "InvalidUtf8", false).ret # true
    BY DEF Return, Fail, true, false
  <1>5. \/ NameInit(h, s) = Return(h, true) /\ s \notin {NotName, NotUtf8}
        \/ NameInit(h, s) = Fail(h, "InvalidUtf8", false)
        \/ NameInit(h, s) = Fail(h, "InvalidName", false)
    BY <1>3, <1>4 DEF NameInit
  <1>6. LET w == utf8_view(h, s) IN w.out = Returned \/ BadView(w.out)
    BY <1>1, <1>2, <1>3 DEF utf8_view, BadView
  <1>7. LET w == wrapped_call(NameInit(h, s))
        IN  (w.out = Returned /\ s \notin {NotName, NotUtf8}) \/ BadView(w.out)
    BY <1>1, <1>2, <1>5 DEF BadView
  <1> QED
    BY <1>6, <1>7 DEF table_name_view, column_name_view, line_sender_table_name_init,
                      line_sender_column_name_init

\* A method after its views: refused, or the operation of Buffer.
LEMMA FollowsDoes ==
    ASSUME BuffersOk(heap, bufs), Ample(heap, bufs), Limits(heap, bufs),
           NEW v \in Bufs, bufs[v] # Dead,
           NEW view, view.heap = heap, view.out = Returned \/ BadView(view.out),
           NEW r, Follows(v, view, r)
    PROVE  /\ Limits(heap', bufs')
           /\ BadlyViewed \/ (view.out = Returned /\ Did(v, r))
  <1>1. CASE view.out # Returned
    <2>1. Ends(v, bufs[v], view)
      BY <1>1 DEF Follows
    <2> QED
      BY <1>1, <2>1, EndsSame DEF BadlyViewed
  <1>2. CASE view.out = Returned
    <2>1. LET i == may_init(heap, bufs[v])
          IN  Ends(v, i.obj, wrapped_call(BufferCall(i.heap, i.obj.impl, r)))
      BY <1>2 DEF Follows
    <2> QED
      BY <1>2, <2>1, MethodDoes
  <1> QED
    BY <1>1, <1>2
-----------------------------------------------------------------------------
\* An operation of Buffer was done on the value of v.
OpDone(v) ==
    LET b == Worths(heap, bufs)[v].buf
        fits(n) == NameLen[n] <= Worths(heap, bufs)[v].max_name_len
    IN  \/ \E n \in Tables :
             \/ Did(v, table(b, IF fits(n) THEN n ELSE BadName))
             \/ Did(v, symbol(b, fits(n)))
             \/ Did(v, column(b, fits(n)))
             \/ \E t \in Times : Did(v, column_ts(b, fits(n), {t}))
        \/ \E t \in Times :
             \/ Did(v, at(b, {t}))
             \/ Did(v, at(b, {[unit |-> "micros", v |-> as_micros(t)]}))
        \/ Did(v, at_now(b))
        \/ Did(v, set_marker(b)) \/ Did(v, rewind_to_marker(b))
        \/ Did(v, clear_marker(b)) \/ Did(v, clear(b))

\* A timestamp goes through C++ unchanged: nanoseconds as they are, anything
\* else as the microseconds that a column holds.
LEMMA TimesPass ==
    ASSUME NEW t, NEW b, NEW named
    PROVE  /\ column_ts(b, named, IF t.unit = "nanos" THEN Nanos(timestamp_nanos(t))
                                                      ELSE Micros(timestamp_micros(t)))
                = column_ts(b, named, {t})
           /\ t.unit = "nanos" => at(b, Nanos(timestamp_nanos(t))) = at(b, {t})
           /\ Micros(timestamp_micros(t)) = {[unit |-> "micros", v |-> as_micros(t)]}
  <1> DEFINE ns == [unit |-> "nanos", v |-> t.v]
             us == [unit |-> "micros", v |-> timestamp_micros(t)]
             key == write_column_key(b, named)
  <1>1. \A x : column_ts(b, named, {x}) = WithValue(key, [k |-> "micros", v |-> as_micros(x)])
    <2> SUFFICES ASSUME NEW x
                 PROVE  column_ts(b, named, {x})
                          = WithValue(key, [k |-> "micros", v |-> as_micros(x)])
      OBVIOUS
    <2>1. {x} # {} /\ (CHOOSE y \in {x} : TRUE) = x
      OBVIOUS
    <2>2. column_ts(b, named, {x})
            = WithValue(key, [k |-> "micros", v |-> as_micros(CHOOSE y \in {x} : TRUE)])
      BY <2>1, Zenon DEF column_ts
    <2> QED
      BY <2>1, <2>2, Zenon
  <1>2. ns.unit = "nanos" /\ ns.v = t.v /\ us.unit = "micros" /\ us.v = timestamp_micros(t)
    OBVIOUS
  <1> HIDE DEF ns, us
  <1>3. CASE t.unit = "nanos"
    <2>1. Nanos(timestamp_nanos(t)) = {ns}
      BY <1>3 DEF Nanos, timestamp_nanos, ns
    <2>2. as_micros(ns) = as_micros(t) /\ as_nanos(ns) = as_nanos(t)
      BY <1>2, <1>3 DEF as_micros, as_nanos
    <2>3. UNION {as_nanos(y) : y \in {ns}} = UNION {as_nanos(y) : y \in {t}}
      BY <2>2
    <2>4. at(b, {ns}) = at(b, {t})
      <3> DEFINE From(nanos) ==
                   IF ~check_op(b, "At")
                     THEN Err(b, "InvalidApiCall")
                     ELSE IF nanos = {} \/ \E n \in nanos : n < 0
                            THEN Err(b, "InvalidTimestamp")
                            ELSE Ok(EndRow(Push(b, [k |-> "ts",
                                                    v |-> CHOOSE n \in nanos : TRUE])))
      <3>1. \A ts : at(b, ts) = From(UNION {as_nanos(y) : y \in ts})
        BY Zenon DEF at
      <3> HIDE DEF From
      <3> QED
        BY <2>3, <3>1, Zenon
    <2>5. column_ts(b, named, {ns}) = column_ts(b, named, {t})
      BY <1>1, <2>2, Zenon
    <2>6. timestamp_micros(t) = as_micros(t)
      BY <1>3 DEF timestamp_micros, as_micros
    <2> QED
      BY <1>3, <2>1, <2>4, <2>5, <2>6, Zenon DEF Micros
  <1>4. CASE t.unit # "nanos"
    <2>1. Micros(timestamp_micros(t)) = {us}
      BY DEF Micros, us
    <2>2. timestamp_micros(t) = as_micros(t) /\ as_micros(us) = as_micros(t)
      BY <1>2 DEF timestamp_micros, as_micros
    <2>3. column_ts(b, named, {us}) = column_ts(b, named, {t})
      BY <1>1, <2>2, Zenon
    <2> QED
      BY <1>4, <2>1, <2>2, <2>3, Zenon DEF Micros
  <1> QED
    BY <1>3, <1>4

\* The methods that take a name.
LEMMA NameMethodsDo ==
    ASSUME BuffersOk(heap, bufs), Ample(heap, bufs), Limits(heap, bufs),
           NEW v \in Bufs, NEW n \in Names,
           \/ Table(v, n) \/ ColumnBool(v, n) \/ ColumnI64(v, n) \/ ColumnF64(v, n)
           \/ \E t \in Times : ColumnTime(v, n, t)
    PROVE  Limits(heap', bufs') /\ (BadlyViewed \/ OpDone(v))
  <1> DEFINE tview == table_name_view(heap, n)
             cview == column_name_view(heap, n)
             x == Worths(heap, bufs)[v]
             b == x.buf
             fits == NameLen[n] <= x.max_name_len
             i == may_init(heap, bufs[v])
  <1>1. bufs[v] # Dead /\ IsHeap(heap) /\ Room(heap)
    BY DEF Table, ColumnBool, ColumnI64, ColumnF64, ColumnTime, Method, Live, BuffersOk, Ample
  <1>2. tview.heap = heap /\ cview.heap = heap
    BY <1>1, ViewFacts
  <1>3. /\ (tview.out = Returned /\ n \notin {NotName, NotUtf8}) \/ BadView(tview.out)
        /\ (cview.out = Returned /\ n \notin {NotName, NotUtf8}) \/ BadView(cview.out)
    BY <1>1, ViewOuts
  <1>4. ~BadView(Returned)
    BY DEF BadView, Returned, Threw
  <1>5. /\ tview.out = Returned => n \in Tables
        /\ cview.out = Returned => n \in Tables
    BY <1>3, <1>4 DEF Names
  <1>6. i.heap[i.obj.impl].buf = b /\ Fits(i.heap, i.obj.impl, n) = fits
    BY <1>1, InitReads, Zenon
  <1>7. CASE Table(v, n)
    <2> DEFINE r == table(b, IF fits THEN n ELSE BadName)
    <2>1. IF tview.out # Returned THEN Ends(v, bufs[v], tview)
          ELSE LET j == may_init(tview.heap, bufs[v])
               IN  Ends(v, j.obj, wrapped_call(line_sender_buffer_table(j.heap, j.obj.impl, n)))
      BY <1>7 DEF Table, Method
    <2>2. line_sender_buffer_table(i.heap, i.obj.impl, n) = BufferCall(i.heap, i.obj.impl, r)
      BY <1>6, Zenon DEF line_sender_buffer_table
    <2>3. Follows(v, tview, r)
      BY <1>2, <2>1, <2>2, Zenon DEF Follows
    <2>4. Limits(heap', bufs') /\ (BadlyViewed \/ (tview.out = Returned /\ Did(v, r)))
      BY <1>1, <1>2, <1>3, <2>3, FollowsDoes, Zenon
    <2> QED
      BY <1>5, <2>4, Zenon DEF OpDone
  <1>8. ASSUME NEW r, Follows(v, cview, r), n \in Tables => (Did(v, r) => OpDone(v))
        PROVE  Limits(heap', bufs') /\ (BadlyViewed \/ OpDone(v))
    <2>1. Limits(heap', bufs') /\ (BadlyViewed \/ (cview.out = Returned /\ Did(v, r)))
      BY <1>1, <1>2, <1>3, <1>8, FollowsDoes, Zenon
    <2> QED
      BY <1>5, <1>8, <2>1, Zenon
  <1> DEFINE c == column(b, fits)
  <1>9. n \in Tables => (Did(v, c) => OpDone(v))
    BY Zenon DEF OpDone
  <1>10. CASE ColumnBool(v, n)
    <2>1. IF cview.out # Returned THEN Ends(v, bufs[v], cview)
          ELSE LET j == may_init(cview.heap, bufs[v])
               IN  Ends(v, j.obj, wrapped_call(line_sender_buffer_column_bool(j.heap, j.obj.impl, n)))
      BY <1>10 DEF ColumnBool, Method
    <2>2. line_sender_buffer_column_bool(i.heap, i.obj.impl, n) = BufferCall(i.heap, i.obj.impl, c)
      BY <1>6, Zenon DEF line_sender_buffer_column_bool
    <2>3. Follows(v, cview, c)
      BY <1>2, <2>1, <2>2, Zenon DEF Follows
    <2> QED
      BY <1>8, <1>9, <2>3, Zenon
  <1>11. CASE ColumnI64(v, n)
    <2>1. IF cview.out # Returned THEN Ends(v, bufs[v], cview)
          ELSE LET j == may_init(cview.heap, bufs[v])
               IN  Ends(v, j.obj, wrapped_call(line_sender_buffer_column_i64(j.heap, j.obj.impl, n)))
      BY <1>11 DEF ColumnI64, Method
    <2>2. line_sender_buffer_column_i64(i.heap, i.obj.impl, n) = BufferCall(i.heap, i.obj.impl, c)
      BY <1>6, Zenon DEF line_sender_buffer_column_i64
    <2>3. Follows(v, cview, c)
      BY <1>2, <2>1, <2>2, Zenon DEF Follows
    <2> QED
      BY <1>8, <1>9, <2>3, Zenon
  <1>12. CASE ColumnF64(v, n)
    <2>1. IF cview.out # Returned THEN Ends(v, bufs[v], cview)
          ELSE LET j == may_init(cview.heap, bufs[v])
               IN  Ends(v, j.obj, wrapped_call(line_sender_buffer_column_f64(j.heap, j.obj.impl, n)))
      BY <1>12 DEF ColumnF64, Method
    <2>2. line_sender_buffer_column_f64(i.heap, i.obj.impl, n) = BufferCall(i.heap, i.obj.impl, c)
      BY <1>6, Zenon DEF line_sender_buffer_column_f64
    <2>3. Follows(v, cview, c)
      BY <1>2, <2>1, <2>2, Zenon DEF Follows
    <2> QED
      BY <1>8, <1>9, <2>3, Zenon
  <1>13. ASSUME NEW t \in Times, ColumnTime(v, n, t)
         PROVE  Limits(heap', bufs') /\ (BadlyViewed \/ OpDone(v))
    <2> DEFINE ts == IF t.unit = "nanos" THEN Nanos(timestamp_nanos(t))
                                         ELSE Micros(timestamp_micros(t))
               r == column_ts(b, fits, ts)
    <2>1. IF cview.out # Returned THEN Ends(v, bufs[v], cview)
          ELSE LET j == may_init(cview.heap, bufs[v])
               IN  Ends(v, j.obj, wrapped_call(
                     IF t.unit = "nanos"
                       THEN line_sender_buffer_column_ts_nanos(j.heap, j.obj.impl, n,
                                                               timestamp_nanos(t))
                       ELSE line_sender_buffer_column_ts_micros(j.heap, j.obj.impl, n,
                                                                timestamp_micros(t))))
      BY <1>13 DEF ColumnTime, Method
    <2>2. (IF t.unit = "nanos"
             THEN line_sender_buffer_column_ts_nanos(i.heap, i.obj.impl, n, timestamp_nanos(t))
             ELSE line_sender_buffer_column_ts_micros(i.heap, i.obj.impl, n, timestamp_micros(t)))
            = BufferCall(i.heap, i.obj.impl, r)
      BY <1>6, Zenon DEF line_sender_buffer_column_ts_nanos, line_sender_buffer_column_ts_micros
    <2>3. Follows(v, cview, r)
      BY <1>2, <2>1, <2>2, Zenon DEF Follows
    <2>4. r = column_ts(b, fits, {t})
      BY TimesPass, Zenon
    <2>5. n \in Tables => (Did(v, r) => OpDone(v))
      BY <2>4, Zenon DEF OpDone
    <2> QED
      BY <1>8, <2>3, <2>5, Zenon
  <1> QED
    BY <1>7, <1>10, <1>11, <1>12, <1>13, Zenon

\* The methods that take a name and a text, whichever view is made first.
LEMMA TextMethodsDo ==
    ASSUME BuffersOk(heap, bufs), Ample(heap, bufs), Limits(heap, bufs),
           NEW v \in Bufs, NEW n \in Names, NEW s,
           Symbol(v, n, s) \/ ColumnStr(v, n, s)
    PROVE  Limits(heap', bufs') /\ (BadlyViewed \/ OpDone(v))
  <1> DEFINE name == column_name_view(heap, n)
             text == utf8_view(heap, s)
             x == Worths(heap, bufs)[v]
             b == x.buf
             fits == NameLen[n] <= x.max_name_len
             i == may_init(heap, bufs[v])
  <1>1. bufs[v] # Dead /\ IsHeap(heap) /\ Room(heap)
    BY DEF Symbol, ColumnStr, Method, Live, BuffersOk, Ample
  <1>2. ~BadView(Returned)
    BY DEF BadView, Returned, Threw
  <1>3. \A view \in Views(heap, n, s) :
          /\ view.heap = heap
          /\ view.out = Returned \/ BadView(view.out)
          /\ view.out = Returned => n \in Tables
    <2>1. name.heap = heap /\ text.heap = heap
      BY <1>1, ViewFacts
    <2>2. /\ (name.out = Returned /\ n \notin {NotName, NotUtf8}) \/ BadView(name.out)
          /\ text.out = Returned \/ BadView(text.out)
      BY <1>1, ViewOuts
    <2>3. Views(heap, n, s) = { IF name.out = Returned THEN text ELSE name,
                                IF text.out = Returned THEN name ELSE text }
      BY DEF Views
    <2>4. name.out = Returned => n \in Tables
      BY <1>2, <2>2 DEF Names
    <2> HIDE DEF name, text
    <2> QED
      BY <1>2, <2>1, <2>2, <2>3, <2>4
  <1>4. i.heap[i.obj.impl].buf = b /\ Fits(i.heap, i.obj.impl, n) = fits
    BY <1>1, InitReads, Zenon
  <1>5. ASSUME NEW view \in Views(heap, n, s), NEW r, Follows(v, view, r),
               n \in Tables => (Did(v, r) => OpDone(v))
        PROVE  Limits(heap', bufs') /\ (BadlyViewed \/ OpDone(v))
    <2>1. Limits(heap', bufs') /\ (BadlyViewed \/ (view.out = Returned /\ Did(v, r)))
      BY <1>1, <1>3, <1>5, FollowsDoes, Zenon
    <2> QED
      BY <1>3, <1>5, <2>1, Zenon
  <1>6. CASE Symbol(v, n, s)
    <2> DEFINE r == symbol(b, fits)
    <2>1. PICK view \in Views(heap, n, s) :
             IF view.out # Returned THEN Ends(v, bufs[v], view)
             ELSE LET j == may_init(view.heap, bufs[v])
                  IN  Ends(v, j.obj, wrapped_call(line_sender_buffer_symbol(j.heap,
                                                                            j.obj.impl, n)))
      BY <1>6 DEF Symbol, Method
    <2>2. line_sender_buffer_symbol(i.heap, i.obj.impl, n) = BufferCall(i.heap, i.obj.impl, r)
      BY <1>4, Zenon DEF line_sender_buffer_symbol
    <2>3. Follows(v, view, r)
      BY <1>3, <2>1, <2>2, Zenon DEF Follows
    <2>4. n \in Tables => (Did(v, r) => OpDone(v))
      BY Zenon DEF OpDone
    <2> QED
      BY <1>5, <2>3, <2>4, Zenon
  <1>7. CASE ColumnStr(v, n, s)
    <2> DEFINE r == column(b, fits)
    <2>1. PICK view \in Views(heap, n, s) :
             IF view.out # Returned THEN Ends(v, bufs[v], view)
             ELSE LET j == may_init(view.heap, bufs[v])
                  IN  Ends(v, j.obj, wrapped_call(line_sender_buffer_column_str(j.heap,
                                                                                j.obj.impl, n)))
      BY <1>7 DEF ColumnStr, Method
    <2>2. line_sender_buffer_column_str(i.heap, i.obj.impl, n) = BufferCall(i.heap, i.obj.impl, r)
      BY <1>4, Zenon DEF line_sender_buffer_column_str
    <2>3. Follows(v, view, r)
      BY <1>3, <2>1, <2>2, Zenon DEF Follows
    <2>4. n \in Tables => (Did(v, r) => OpDone(v))
      BY Zenon DEF OpDone
    <2> QED
      BY <1>5, <2>3, <2>4, Zenon
  <1> QED
    BY <1>6, <1>7

\* The methods without a view.
LEMMA PlainMethodsDo ==
    ASSUME BuffersOk(heap, bufs), Ample(heap, bufs), Limits(heap, bufs), NEW v \in Bufs,
           \/ \E t \in Times : AtNanos(v, t) \/ AtMicros(v, t)
           \/ AtNow(v) \/ SetMarker(v) \/ RewindToMarker(v)
    PROVE  Limits(heap', bufs') /\ OpDone(v)
  <1> DEFINE view == [heap |-> heap, ret |-> NULL, out |-> Returned, ub |-> FALSE]
             i == may_init(heap, bufs[v])
             b == Worths(heap, bufs)[v].buf
  <1>1. bufs[v] # Dead
    BY DEF AtNanos, AtMicros, AtNow, SetMarker, RewindToMarker, Method, Live
  <1>2. view.heap = heap /\ view.out = Returned /\ NoView(heap) = {view}
    BY DEF NoView
  <1>3. i.heap[i.obj.impl].buf = b
    BY <1>1, InitReads, Zenon
  <1>4. ASSUME NEW r, Ends(v, i.obj, wrapped_call(BufferCall(i.heap, i.obj.impl, r)))
        PROVE  Limits(heap', bufs') /\ Did(v, r)
    BY <1>1, <1>4, MethodDoes
  <1> HIDE DEF view
  <1>5. ASSUME NEW t \in Times, AtNanos(v, t) PROVE Limits(heap', bufs') /\ OpDone(v)
    <2>1. t.unit = "nanos"
           /\ Ends(v, i.obj, wrapped_call(line_sender_buffer_at_nanos(i.heap, i.obj.impl,
                                                                      timestamp_nanos(t))))
      BY <1>2, <1>5 DEF AtNanos, Method
    <2>2. Limits(heap', bufs') /\ Did(v, at(b, Nanos(timestamp_nanos(t))))
      BY <1>3, <1>4, <2>1, Zenon DEF line_sender_buffer_at_nanos
    <2>3. Did(v, at(b, {t}))
      BY <2>1, <2>2, TimesPass, Zenon
    <2> QED
      BY <2>2, <2>3, Zenon DEF OpDone
  <1>6. ASSUME NEW t \in Times, AtMicros(v, t) PROVE Limits(heap', bufs') /\ OpDone(v)
    <2>1. Ends(v, i.obj, wrapped_call(line_sender_buffer_at_micros(i.heap, i.obj.impl,
                                                                   timestamp_micros(t))))
      BY <1>2, <1>6 DEF AtMicros, Method
    <2>2. Limits(heap', bufs') /\ Did(v, at(b, Micros(timestamp_micros(t))))
      BY <1>3, <1>4, <2>1, Zenon DEF line_sender_buffer_at_micros
    <2>3. Did(v, at(b, {[unit |-> "micros", v |-> as_micros(t)]}))
      BY <2>2, TimesPass, Zenon
    <2> QED
      BY <2>2, <2>3, Zenon DEF OpDone
  <1>7. CASE AtNow(v)
    <2>1. Ends(v, i.obj, wrapped_call(line_sender_buffer_at_now(i.heap, i.obj.impl)))
      BY <1>2, <1>7 DEF AtNow, Method
    <2>2. Limits(heap', bufs') /\ Did(v, at_now(b))
      BY <1>3, <1>4, <2>1, Zenon DEF line_sender_buffer_at_now
    <2> QED
      BY <2>2, Zenon DEF OpDone
  <1>8. CASE SetMarker(v)
    <2>1. Ends(v, i.obj, wrapped_call(line_sender_buffer_set_marker(i.heap, i.obj.impl)))
      BY <1>2, <1>8 DEF SetMarker, Method
    <2>2. Limits(heap', bufs') /\ Did(v, set_marker(b))
      BY <1>3, <1>4, <2>1, Zenon DEF line_sender_buffer_set_marker
    <2> QED
      BY <2>2, Zenon DEF OpDone
  <1>9. CASE RewindToMarker(v)
    <2>1. Ends(v, i.obj, wrapped_call(line_sender_buffer_rewind_to_marker(i.heap, i.obj.impl)))
      BY <1>2, <1>9 DEF RewindToMarker, Method
    <2>2. Limits(heap', bufs') /\ Did(v, rewind_to_marker(b))
      BY <1>3, <1>4, <2>1, Zenon DEF line_sender_buffer_rewind_to_marker
    <2> QED
      BY <2>2, Zenon DEF OpDone
  <1> QED
    BY <1>5, <1>6, <1>7, <1>8, <1>9, Zenon

\* A variable whose value is set to what it was.
LEMMA SameWorth ==
    ASSUME NEW v \in Bufs
    PROVE  LET W == Worths(heap, bufs) IN [W EXCEPT ![v] = W[v]] = W
  BY DEF Worths

\* An operation that cannot fail, on the C buffer that an object has.
LEMMA SureDoes ==
    ASSUME BuffersOk(heap, bufs), Ample(heap, bufs), Limits(heap, bufs),
           NEW v \in Bufs, bufs[v] # Dead, bufs[v].impl # NULL,
           NEW r, r.res = "Ok", Ends(v, bufs[v], After(BufferCall(heap, bufs[v].impl, r)))
    PROVE  /\ Limits(heap', bufs') /\ Did(v, r)
           /\ Worths(heap, bufs)[v].buf = heap[bufs[v].impl].buf
  <1> DEFINE b == bufs[v].impl
             g == [heap EXCEPT ![b].buf = r.buf]
             c == BufferCall(heap, b, r)
             i == may_init(heap, bufs[v])
  <1>1. b \in Of(heap, "buffer")
    BY LivePoints
  <1>2. c = Return(g, true)
    BY <1>1 DEF BufferCall, Points, Of
  <1> HIDE DEF g
  <1>3. /\ wrapped_call(c).heap = After(c).heap /\ wrapped_call(c).out = After(c).out
        /\ wrapped_call(c).ub = After(c).ub
    BY <1>2 DEF wrapped_call, After, Return, true, NULL
  <1>4. i.heap = heap /\ i.obj = bufs[v]
    BY DEF may_init
  <1>5. Ends(v, bufs[v], After(c))
    OBVIOUS
  <1> HIDE DEF c
  <1>6. Ends(v, bufs[v], wrapped_call(c))
    BY <1>3, <1>5, Zenon DEF Ends
  <1>7. Ends(v, i.obj, wrapped_call(BufferCall(i.heap, i.obj.impl, r)))
    BY <1>4, <1>6, Zenon DEF c
  <1>8. Limits(heap', bufs') /\ Did(v, r)
    BY <1>7, MethodDoes
  <1>9. Worths(heap, bufs)[v] = [buf |-> heap[b].buf, max_name_len |-> bufs[v].max_name_len]
    BY LiveWorth DEF Content
  <1> QED
    BY <1>8, <1>9

\* The same on an object that has none: there is nothing to clear.
LEMMA NothingToClear ==
    ASSUME BuffersOk(heap, bufs), Limits(heap, bufs), NEW v \in Bufs, bufs[v] # Dead,
           bufs[v].impl = NULL, Ends(v, bufs[v], Done(heap))
    PROVE  LET b == Worths(heap, bufs)[v].buf
           IN  Limits(heap', bufs') /\ Did(v, clear_marker(b)) /\ Did(v, clear(b))
  <1> DEFINE W == Worths(heap, bufs)
             n == bufs[v].max_name_len
  <1>1. Done(heap).heap = heap /\ Done(heap).out = Returned
    BY DEF Done
  <1>2. Limits(heap', bufs') /\ out' = Returned /\ Worths(heap', bufs') = W
    BY <1>1, EndsSame
  <1>3. W[v] = [buf |-> NewBuffer, max_name_len |-> n]
    BY LiveWorth DEF Content
  <1>4. W = [x \in Bufs |-> W[x]]
    BY DEF Worths
  <1> HIDE DEF W, n
  <1>5. W[v].buf = NewBuffer
    BY <1>3
  <1>6. [NewBuffer EXCEPT !.marker = {}] = NewBuffer
    <2> DEFINE a == <<>>
               s == NewState
    <2>1. NewBuffer = [output |-> a, state |-> s, marker |-> {}]
      BY Zenon DEF NewBuffer
    <2> HIDE DEF a, s
    <2> QED
      BY <2>1
  <1>7. /\ clear_marker(NewBuffer).buf = NewBuffer /\ clear_marker(NewBuffer).res = "Ok"
        /\ clear(NewBuffer).buf = NewBuffer /\ clear(NewBuffer).res = "Ok"
    BY <1>6 DEF clear_marker, clear, Ok
  <1>8. [W[v] EXCEPT !.buf = NewBuffer] = W[v]
    BY <1>3
  <1>9. [W EXCEPT ![v].buf = NewBuffer] = W
    BY <1>4, <1>8
  <1>10. Did(v, clear_marker(NewBuffer)) /\ Did(v, clear(NewBuffer))
    BY <1>2, <1>7, <1>9, Zenon DEF Did, Said, W
  <1> QED
    BY <1>2, <1>5, <1>10, Zenon DEF W

\* clear_marker and clear.
LEMMA ClearsDo ==
    ASSUME BuffersOk(heap, bufs), Ample(heap, bufs), Limits(heap, bufs), NEW v \in Bufs,
           ClearMarker(v) \/ Clear(v)
    PROVE  Limits(heap', bufs') /\ OpDone(v)
  <1> DEFINE b == bufs[v].impl
             x == Worths(heap, bufs)[v].buf
  <1>1. bufs[v] # Dead
    BY DEF ClearMarker, Clear, Live
  <1>2. ASSUME Did(v, clear_marker(x)) \/ Did(v, clear(x)) PROVE OpDone(v)
    BY <1>2, Zenon DEF OpDone
  <1>3. CASE b = NULL
    <2>1. Ends(v, bufs[v], Done(heap))
      BY <1>3 DEF ClearMarker, Clear
    <2>2. Limits(heap', bufs') /\ Did(v, clear(x))
      BY <1>1, <1>3, <2>1, NothingToClear
    <2> QED
      BY <1>2, <2>2
  <1>4. CASE b # NULL
    <2>1. /\ clear_marker(heap[b].buf).res = "Ok" /\ clear(heap[b].buf).res = "Ok"
      BY DEF clear_marker, clear, Ok
    <2>2. CASE ClearMarker(v)
      <3>1. Ends(v, bufs[v], After(BufferCall(heap, b, clear_marker(heap[b].buf))))
        BY <1>4, <2>2 DEF ClearMarker, line_sender_buffer_clear_marker
      <3>2. Limits(heap', bufs') /\ Did(v, clear_marker(heap[b].buf)) /\ x = heap[b].buf
        BY <1>1, <1>4, <2>1, <3>1, SureDoes
      <3> QED
        BY <1>2, <3>2, Zenon
    <2>3. CASE Clear(v)
      <3>1. Ends(v, bufs[v], After(BufferCall(heap, b, clear(heap[b].buf))))
        BY <1>4, <2>3 DEF Clear, line_sender_buffer_clear
      <3>2. Limits(heap', bufs') /\ Did(v, clear(heap[b].buf)) /\ x = heap[b].buf
        BY <1>1, <1>4, <2>1, <3>1, SureDoes
      <3> QED
        BY <1>2, <3>2, Zenon
    <2> QED
      BY <2>2, <2>3
  <1> QED
    BY <1>3, <1>4

\* reserve: a C buffer, but the same value.
LEMMA ReserveDoes ==
    ASSUME BuffersOk(heap, bufs), Ample(heap, bufs), Limits(heap, bufs), NEW v \in Bufs,
           Reserve(v)
    PROVE  Limits(heap', bufs') /\ Became(v, Worths(heap, bufs)[v])
  <1> DEFINE i == may_init(heap, bufs[v])
             b == i.obj.impl
             n == bufs[v].max_name_len
             r == After(line_sender_buffer_reserve(i.heap, b))
             W == Worths(heap, bufs)
  <1>1. bufs[v] # Dead /\ Ends(v, i.obj, r)
    BY DEF Reserve, Live
  <1>2. b \in Of(i.heap, "buffer")
    BY <1>1, InitFacts
  <1>3. /\ i.obj = Object(b, n)
        /\ i.heap[b] = line_sender_buffer(Content(heap, bufs[v]), n)
        /\ Spares(heap, bufs, v, i.heap)
    BY <1>1, InitKeepsValue
  <1> HIDE DEF i
  <1>4. b # NULL
    BY <1>2 DEF Of, NULL
  <1> HIDE DEF b
  <1>5. r.heap = i.heap /\ r.out = Returned
    BY DEF After, line_sender_buffer_reserve, Read, Return, Undefined
  <1> HIDE DEF r
  <1>6. Ptr(i.obj) = b /\ i.obj # Dead /\ i.obj.impl = b /\ i.obj.max_name_len = n
    BY <1>3, ObjectFacts DEF Object
  <1>7. i.heap[b].buf = Content(heap, bufs[v]) /\ i.heap[b].max_name_len = n
    BY <1>3 DEF line_sender_buffer
  <1>8. Limit(r.heap, i.obj)
    BY <1>5, <1>6, <1>7 DEF Limit
  <1>9. /\ Limits(heap', bufs') /\ out' = r.out
        /\ Worths(heap', bufs') = [W EXCEPT ![v] = WorthOf(r.heap, i.obj)]
    BY <1>1, <1>3, <1>5, <1>8, EndsDoes
  <1>10. WorthOf(i.heap, i.obj) = [buf |-> Content(heap, bufs[v]), max_name_len |-> n]
    BY <1>4, <1>6, <1>7 DEF WorthOf, Content
  <1>11. W[v] = [buf |-> Content(heap, bufs[v]), max_name_len |-> n]
    BY <1>1, LiveWorth
  <1> HIDE DEF W
  <1> QED
    BY <1>5, <1>9, <1>10, <1>11, Zenon DEF Became, W

\* What a const method may return of the value of v.
Looked(v) ==
    LET b == Worths(heap, bufs)[v].buf
    IN  /\ \/ out' \in {<<"size", Len(b.output)>>, <<"row_count", b.state.row_count>>,
                        <<"peek", b.output>>, <<"transactional", b.state.transactional>>}
           \/ b = NewBuffer /\ out' = <<"transactional", FALSE>>
        /\ Worths(heap', bufs') = Worths(heap, bufs)

\* The const methods read the value, or see that there is no C buffer.
LEMMA ReadsDo ==
    ASSUME BuffersOk(heap, bufs), Limits(heap, bufs), NEW v \in Bufs,
           Size(v) \/ RowCount(v) \/ Peek(v) \/ Transactional(v)
    PROVE  Limits(heap', bufs') /\ Looked(v)
  <1> DEFINE b == bufs[v].impl
             x == Worths(heap, bufs)[v].buf
  <1>1. bufs[v] # Dead /\ heap' = heap /\ bufs' = bufs
    BY DEF Size, RowCount, Peek, Transactional, Observe, Live
  <1>2. b = NULL \/ b \in Of(heap, "buffer")
    BY <1>1, LivePoints
  <1>3. Limits(heap', bufs') /\ Worths(heap', bufs') = Worths(heap, bufs)
    BY <1>1
  <1>4. x = IF b = NULL THEN NewBuffer ELSE heap[b].buf
    <2>1. Worths(heap, bufs)[v]
            = [buf |-> Content(heap, bufs[v]), max_name_len |-> bufs[v].max_name_len]
      BY <1>1, LiveWorth
    <2>2. x = Content(heap, bufs[v])
      BY <2>1
    <2> QED
      BY <2>2 DEF Content
  <1>5. \A y : b # NULL => Read(heap, b, y).ret = y
    BY <1>2 DEF Read, Return, Points, Of
  <1>6. \A y : Return(heap, y).ret = y
    BY DEF Return
  <1>7. /\ NewBuffer.output = <<>> /\ NewBuffer.state.row_count = 0 /\ Len(<<>>) = 0
    BY DEF NewBuffer, NewState
  <1> HIDE DEF x
  <1>8. \/ out' \in {<<"size", Len(x.output)>>, <<"row_count", x.state.row_count>>,
                     <<"peek", x.output>>, <<"transactional", x.state.transactional>>}
        \/ x = NewBuffer /\ out' = <<"transactional", FALSE>>
    <2>1. CASE Size(v)
      <3>1. out' = <<"size", Len(x.output)>>
        BY <1>4, <1>5, <1>6, <1>7, <2>1 DEF Size, Observe, line_sender_buffer_size
      <3> QED
        BY <3>1
    <2>2. CASE RowCount(v)
      <3>1. out' = <<"row_count", x.state.row_count>>
        BY <1>4, <1>5, <1>6, <1>7, <2>2 DEF RowCount, Observe, line_sender_buffer_row_count
      <3> QED
        BY <3>1
    <2>3. CASE Peek(v)
      <3>1. out' = <<"peek", x.output>>
        BY <1>4, <1>5, <1>6, <1>7, <2>3 DEF Peek, Observe, line_sender_buffer_peek
      <3> QED
        BY <3>1
    <2>4. CASE Transactional(v)
      <3>1. b # NULL => out' = <<"transactional", x.state.transactional>>
        BY <1>4, <1>5, <2>4 DEF Transactional, Observe, line_sender_buffer_transactional
      <3>2. b = NULL => x = NewBuffer /\ out' = <<"transactional", FALSE>>
        BY <1>4, <1>6, <2>4 DEF Transactional, Observe
      <3> QED
        BY <3>1, <3>2
    <2> QED
      BY <2>1, <2>2, <2>3, <2>4
  <1> QED
    BY <1>3, <1>8 DEF Looked, x
-----------------------------------------------------------------------------
\* What v was worth is moved to it from w, which is empty then.
Moved(v, w) ==
    LET W == Worths(heap, bufs)
    IN  out' = Returned /\ Worths(heap', bufs')
                             = [W EXCEPT ![w].buf = NewBuffer, ![v] = W[w]]

\* A move, after what v owned was freed.
LEMMA MovedValues ==
    ASSUME NEW h, NEW bs, BuffersOk(h, bs), Limits(h, bs), NEW v \in Bufs, NEW w \in Bufs,
           v # w, bs[w] # Dead, NEW g, Spares(h, bs, v, g)
    PROVE  LET cs == [bs EXCEPT ![v] = bs[w], ![w].impl = NULL]
               W  == Worths(h, bs)
           IN  /\ Worths(g, cs) = [W EXCEPT ![w].buf = NewBuffer, ![v] = W[w]]
               /\ Limits(g, cs)
  <1> DEFINE cs == [bs EXCEPT ![v] = bs[w], ![w].impl = NULL]
             o == bs[w]
             n == o.max_name_len
             q == Object(NULL, n)
             W == Worths(h, bs)
             e == [buf |-> NewBuffer, max_name_len |-> n]
  <1>1. o = Object(o.impl, n) /\ bs = [x \in Bufs |-> bs[x]]
    BY DEF IsBuf, BuffersOk
  <1>2. [o EXCEPT !.impl = NULL] = q
    BY <1>1 DEF Object
  <1>3. \A x \in Bufs : cs[x] = IF x = w THEN [o EXCEPT !.impl = NULL]
                                 ELSE IF x = v THEN o ELSE bs[x]
    BY <1>1
  <1>4. Ptr(q) = NULL /\ q # Dead /\ q.impl = NULL /\ q.max_name_len = n
    BY ObjectFacts DEF Object
  <1>5. W[w] = [buf |-> Content(h, o), max_name_len |-> n] /\ W = [x \in Bufs |-> W[x]]
    BY LiveWorth DEF Worths
  <1>6. \A x \in Bufs : W[x] = WorthOf(h, bs[x])
    BY DEF Worths
  <1> HIDE DEF cs, q, W
  <1>7. \A x \in Bufs : cs[x] = IF x = w THEN q ELSE IF x = v THEN o ELSE bs[x]
    BY <1>2, <1>3
  <1>8. WorthOf(g, q) = e /\ Limit(g, q)
    BY <1>4 DEF WorthOf, Content, Limit
  <1>9. \A x \in Bufs : x # v => WorthOf(g, bs[x]) = W[x] /\ Limit(g, bs[x])
    BY <1>6, NotShared DEF Limits
  <1>10. \A x \in Bufs : WorthOf(g, cs[x]) = IF x = w THEN e ELSE IF x = v THEN W[w] ELSE W[x]
    BY <1>7, <1>8, <1>9
  <1>11. Limits(g, cs)
    BY <1>7, <1>8, <1>9 DEF Limits
  <1>12. [W[w] EXCEPT !.buf = NewBuffer] = e
    BY <1>5
  <1> HIDE DEF e
  <1>13. [W EXCEPT ![w].buf = NewBuffer, ![v] = W[w]]
           = [x \in Bufs |-> IF x = w THEN e ELSE IF x = v THEN W[w] ELSE W[x]]
    BY <1>5, <1>12
  <1>14. Worths(g, cs) = [x \in Bufs |-> IF x = w THEN e ELSE IF x = v THEN W[w] ELSE W[x]]
    BY <1>10 DEF Worths
  <1> QED
    BY <1>11, <1>13, <1>14 DEF cs, W

\* Freeing what v owns, or nothing, spares the rest.
LEMMA FreeSpares ==
    ASSUME NEW h, NEW bs, BuffersOk(h, bs), NEW v \in Bufs, bs[v] # Dead
    PROVE  Spares(h, bs, v, line_sender_buffer_free(h, bs[v].impl).heap)
  <1> DEFINE b == bs[v].impl
             f == line_sender_buffer_free(h, b)
  <1>1. Ptr(bs[v]) = b /\ (b = NULL \/ b \in Of(h, "buffer")) /\ IsHeap(h)
    BY LivePoints DEF BuffersOk
  <1>2. Frees(h, "buffer", b, f)
    BY <1>1, DropFacts DEF line_sender_buffer_free, Kinds
  <1> HIDE DEF f
  <1> QED
    BY <1>1, <1>2 DEF Frees, Spares, Of, f

\* v is given a clone of what w owns, in a heap where w still has it.
LEMMA ClonedValue ==
    ASSUME NEW h, NEW bs, BuffersOk(h, bs), Limits(h, bs), NEW v \in Bufs, NEW w \in Bufs,
           v # w, bs[w] # Dead, bs[w].impl # NULL,
           NEW g, Spares(h, bs, v, g), IsHeap(g), Room(g), bs[w].impl \in Of(g, "buffer")
    PROVE  LET r == line_sender_buffer_clone(g, bs[w].impl)
               o == Object(r.ret, bs[w].max_name_len)
           IN  /\ Limit(r.heap, o) /\ WorthOf(r.heap, o) = Worths(h, bs)[w]
               /\ \A a \in Of(g, "buffer") : r.heap[a] = g[a]
  <1> DEFINE b == bs[w].impl
             n == bs[w].max_name_len
             r == line_sender_buffer_clone(g, b)
             o == Object(r.ret, n)
             W == Worths(h, bs)
  <1>1. Gave(g, g[b], r)
    BY CloneFacts
  <1>2. Ptr(bs[w]) = b
    BY LivePoints
  <1>3. WorthOf(g, bs[w]) = W[w] /\ Limit(g, bs[w])
    BY NotShared DEF Limits, Worths
  <1> HIDE DEF r, W
  <1>4. r.ret # NULL /\ r.heap[r.ret] = g[b] /\ \A a \in Addr : g[a] # Freed => r.heap[a] = g[a]
    BY <1>1 DEF Gave
  <1>5. Ptr(o) = r.ret /\ o # Dead /\ o.impl = r.ret /\ o.max_name_len = n
    BY ObjectFacts DEF Object
  <1>6. WorthOf(g, bs[w]) = [buf |-> g[b].buf, max_name_len |-> n]
    BY DEF WorthOf, Content
  <1> HIDE DEF o
  <1>7. WorthOf(r.heap, o) = [buf |-> g[b].buf, max_name_len |-> n]
    BY <1>4, <1>5 DEF WorthOf, Content
  <1>8. Limit(r.heap, o)
    BY <1>2, <1>3, <1>4, <1>5 DEF Limit
  <1>9. \A a \in Of(g, "buffer") : r.heap[a] = g[a]
    BY <1>4 DEF Of, Freed
  <1> QED
    BY <1>3, <1>6, <1>7, <1>8, <1>9 DEF r, o, W

\* Constructors.
LEMMA ConstructsDo ==
    ASSUME BuffersOk(heap, bufs), Ample(heap, bufs), Limits(heap, bufs), ~CopiesNull,
           NEW v \in Bufs, NEW w \in Bufs, NEW n
    PROVE  LET W == Worths(heap, bufs)
           IN  /\ Construct(v, n) =>
                    /\ Limits(heap', bufs') /\ W[v] = Dead
                    /\ Became(v, [buf |-> NewBuffer, max_name_len |-> n])
               /\ CopyConstruct(v, w) =>
                    Limits(heap', bufs') /\ W[w] # Dead /\ Became(v, W[w])
               /\ MoveConstruct(v, w) =>
                    Limits(heap', bufs') /\ W[w] # Dead /\ v # w /\ Moved(v, w)
  <1> DEFINE W == Worths(heap, bufs)
  <1>1. IsHeap(heap) /\ Room(heap)
    BY DEF BuffersOk, Ample
  <1>2. ASSUME Construct(v, n)
        PROVE  /\ Limits(heap', bufs') /\ W[v] = Dead
               /\ Became(v, [buf |-> NewBuffer, max_name_len |-> n])
    <2> DEFINE o == Object(NULL, n)
    <2>1. bufs[v] = Dead /\ Ends(v, o, Done(heap))
      BY <1>2 DEF Construct, Live
    <2>2. Ptr(o) = NULL /\ o # Dead /\ o.impl = NULL /\ o.max_name_len = n
      BY ObjectFacts DEF Object
    <2>3. Done(heap).heap = heap /\ Done(heap).out = Returned
      BY DEF Done
    <2> HIDE DEF o
    <2>4. Limit(heap, o) /\ WorthOf(heap, o) = [buf |-> NewBuffer, max_name_len |-> n]
      BY <2>2 DEF Limit, WorthOf, Content
    <2>5. Spares(heap, bufs, v, heap)
      BY DEF Spares
    <2>6. /\ Limits(heap', bufs') /\ out' = Returned
          /\ Worths(heap', bufs') = [W EXCEPT ![v] = WorthOf(heap, o)]
      BY <2>1, <2>3, <2>4, <2>5, EndsDoes
    <2>7. W[v] = Dead
      BY <2>1, LiveNotDead
    <2> QED
      BY <2>4, <2>6, <2>7, Zenon DEF Became
  <1>3. ASSUME CopyConstruct(v, w)
        PROVE  Limits(heap', bufs') /\ W[w] # Dead /\ Became(v, W[w])
    <2> DEFINE b == bufs[w].impl
               r == line_sender_buffer_clone(heap, b)
               o == Object(r.ret, bufs[w].max_name_len)
    <2>1. bufs[v] = Dead /\ bufs[w] # Dead /\ b # NULL /\ Ends(v, o, After(r))
      BY <1>3 DEF CopyConstruct, CopiesNull, Live
    <2>2. v # w /\ b \in Of(heap, "buffer") /\ Spares(heap, bufs, v, heap)
      BY <2>1, LivePoints DEF Spares
    <2>3. /\ Limit(r.heap, o) /\ WorthOf(r.heap, o) = W[w]
          /\ \A a \in Of(heap, "buffer") : r.heap[a] = heap[a]
      BY <1>1, <2>1, <2>2, ClonedValue
    <2>4. After(r).heap = r.heap /\ After(r).out = Returned
      BY DEF After
    <2> HIDE DEF r, o
    <2>5. Spares(heap, bufs, v, r.heap)
      BY <2>3 DEF Spares
    <2>6. /\ Limits(heap', bufs') /\ out' = Returned
          /\ Worths(heap', bufs') = [W EXCEPT ![v] = WorthOf(r.heap, o)]
      BY <2>1, <2>3, <2>4, <2>5, EndsDoes
    <2>7. W[w] # Dead
      BY <2>1, LiveNotDead
    <2> QED
      BY <2>3, <2>6, <2>7, Zenon DEF Became
  <1>4. ASSUME MoveConstruct(v, w)
        PROVE  Limits(heap', bufs') /\ W[w] # Dead /\ v # w /\ Moved(v, w)
    <2>1. /\ bufs[v] = Dead /\ bufs[w] # Dead /\ heap' = heap /\ out' = Returned
          /\ bufs' = [bufs EXCEPT ![v] = bufs[w], ![w].impl = NULL]
      BY <1>4 DEF MoveConstruct, Live
    <2>2. v # w /\ Spares(heap, bufs, v, heap)
      BY <2>1 DEF Spares
    <2>3. /\ Worths(heap', bufs') = [W EXCEPT ![w].buf = NewBuffer, ![v] = W[w]]
          /\ Limits(heap', bufs')
      <3>1. LET cs == [bufs EXCEPT ![v] = bufs[w], ![w].impl = NULL]
            IN  /\ Worths(heap, cs) = [W EXCEPT ![w].buf = NewBuffer, ![v] = W[w]]
                /\ Limits(heap, cs)
        BY <2>1, <2>2, MovedValues
      <3> QED
        BY <2>1, <3>1, Zenon
    <2>4. W[w] # Dead
      BY <2>1, LiveNotDead
    <2> QED
      BY <2>1, <2>2, <2>3, <2>4, Zenon DEF Moved
  <1> QED
    BY <1>2, <1>3, <1>4

\* ~line_sender_buffer().
LEMMA DestroyDoes ==
    ASSUME BuffersOk(heap, bufs), Limits(heap, bufs), NEW v \in Bufs, Destroy(v)
    PROVE  Limits(heap', bufs') /\ Became(v, Dead)
  <1> DEFINE f == line_sender_buffer_free(heap, bufs[v].impl)
  <1>1. bufs[v] # Dead /\ Ends(v, Dead, After(f))
    BY DEF Destroy, Live
  <1>2. Spares(heap, bufs, v, f.heap)
    BY <1>1, FreeSpares
  <1>3. After(f).heap = f.heap /\ After(f).out = Returned
    BY DEF After
  <1> HIDE DEF f
  <1>4. Limit(f.heap, Dead) /\ WorthOf(f.heap, Dead) = Dead
    BY DEF Limit, WorthOf, Ptr
  <1>5. /\ Limits(heap', bufs') /\ out' = Returned
        /\ Worths(heap', bufs') = [Worths(heap, bufs) EXCEPT ![v] = WorthOf(f.heap, Dead)]
    BY <1>1, <1>2, <1>3, <1>4, EndsDoes
  <1> QED
    BY <1>4, <1>5, Zenon DEF Became

\* operator=: to the object itself, to one with a buffer and to one without.
LEMMA AssignsDo ==
    ASSUME BuffersOk(heap, bufs), Ample(heap, bufs), Limits(heap, bufs),
           NEW v \in Bufs, NEW w \in Bufs, CopyAssign(v, w) \/ MoveAssign(v, w)
    PROVE  LET W == Worths(heap, bufs)
           IN  /\ Limits(heap', bufs') /\ W[w] # Dead
               /\ Became(v, W[w]) \/ (v # w /\ Moved(v, w))
  <1> DEFINE b == bufs[w].impl
             n == bufs[w].max_name_len
             f == line_sender_buffer_free(heap, bufs[v].impl)
             W == Worths(heap, bufs)
  <1>1. bufs[v] # Dead /\ bufs[w] # Dead
    BY DEF CopyAssign, MoveAssign, Live
  <1>2. W[w] # Dead
    BY <1>1, LiveNotDead
  <1>3. IsHeap(f.heap) /\ Room(f.heap)
    BY <1>1, FreeOwned DEF Ample
  <1>4. Spares(heap, bufs, v, f.heap)
    BY <1>1, FreeSpares
  <1>5. W[w] = [buf |-> Content(heap, bufs[w]), max_name_len |-> n]
    BY <1>1, LiveWorth
  <1>6. /\ Ptr(bufs[w]) = b /\ BufPtrs(bufs)[w] = b
        /\ b = NULL \/ b \in Of(heap, "buffer")
        /\ Ptr(bufs[v]) = bufs[v].impl /\ BufPtrs(bufs)[v] = bufs[v].impl
    BY <1>1, LivePoints
  <1>7. v # w /\ b # NULL => b # Ptr(bufs[v])
    BY <1>6 DEF BuffersOk, Owns
  <1>8. [W EXCEPT ![v] = W[v]] = W
    BY SameWorth
  <1> HIDE DEF f, W
  <1>9. CASE CopyAssign(v, w) /\ v = w
    <2>1. Ends(v, bufs[v], Done(heap)) /\ Done(heap).heap = heap /\ Done(heap).out = Returned
      BY <1>9 DEF CopyAssign, Done
    <2>2. Limits(heap', bufs') /\ out' = Returned /\ Worths(heap', bufs') = W
      BY <2>1, EndsSame DEF W
    <2> QED
      BY <1>2, <1>8, <1>9, <2>2, Zenon DEF Became, W
  <1>10. CASE CopyAssign(v, w) /\ v # w
    <2> DEFINE r == IF b # NULL THEN line_sender_buffer_clone(f.heap, b)
                                ELSE Return(f.heap, NULL)
               o == Object(r.ret, n)
               s == After(Then(f, r))
    <2>1. Ends(v, o, s)
      BY <1>10 DEF CopyAssign, f
    <2>2. /\ Limit(r.heap, o) /\ WorthOf(r.heap, o) = W[w]
          /\ \A a \in Of(f.heap, "buffer") : r.heap[a] = f.heap[a]
      <3>1. CASE b # NULL
        <4> DEFINE c == line_sender_buffer_clone(f.heap, b)
                   q == Object(c.ret, n)
        <4>1. b \in Of(f.heap, "buffer")
          BY <1>4, <1>6, <1>7, <1>10, <3>1 DEF Spares, Of
        <4>2. /\ Limit(c.heap, q) /\ WorthOf(c.heap, q) = W[w]
              /\ \A a \in Of(f.heap, "buffer") : c.heap[a] = f.heap[a]
          BY <1>1, <1>3, <1>4, <1>10, <3>1, <4>1, ClonedValue DEF W
        <4>3. r = c
          BY <3>1
        <4> HIDE DEF r, c
        <4> QED
          BY <4>2, <4>3, Zenon
      <3>2. CASE b = NULL
        <4>1. r.heap = f.heap /\ r.ret = NULL
          BY <3>2 DEF Return
        <4>2. Ptr(o) = r.ret /\ o # Dead /\ o.impl = r.ret /\ o.max_name_len = n
          BY ObjectFacts DEF Object
        <4> HIDE DEF r, o
        <4>3. WorthOf(r.heap, o) = [buf |-> NewBuffer, max_name_len |-> n]
          BY <4>1, <4>2 DEF WorthOf, Content
        <4>4. W[w] = [buf |-> NewBuffer, max_name_len |-> n]
          BY <1>5, <3>2 DEF Content
        <4>5. Limit(r.heap, o)
          BY <4>1, <4>2 DEF Limit
        <4> QED
          BY <4>1, <4>3, <4>4, <4>5
      <3> QED
        BY <3>1, <3>2
    <2>3. r = [heap |-> r.heap, ret |-> r.ret, err |-> r.err, ub |-> r.ub]
      BY DEF Return, line_sender_buffer_clone, Give, Undefined
    <2> HIDE DEF r
    <2>4. s.heap = r.heap /\ s.out = Returned
      BY <2>3 DEF After, Then
    <2> HIDE DEF s, o
    <2>5. Spares(heap, bufs, v, r.heap)
      BY <1>4, <2>2 DEF Spares, Of
    <2>6. /\ Limits(heap', bufs') /\ out' = Returned
          /\ Worths(heap', bufs') = [W EXCEPT ![v] = WorthOf(r.heap, o)]
      BY <2>1, <2>2, <2>4, <2>5, EndsDoes DEF W
    <2> QED
      BY <1>2, <2>2, <2>6, Zenon DEF Became, W
  <1>11. CASE MoveAssign(v, w) /\ v = w
    <2>1. heap' = heap /\ bufs' = bufs /\ out' = Returned
      BY <1>11 DEF MoveAssign
    <2>2. Limits(heap', bufs') /\ Worths(heap', bufs') = W
      BY <2>1 DEF W
    <2> QED
      BY <1>2, <1>8, <1>11, <2>1, <2>2, Zenon DEF Became, W
  <1>12. CASE MoveAssign(v, w) /\ v # w
    <2>1. /\ heap' = f.heap /\ out' = Returned
          /\ bufs' = [bufs EXCEPT ![v] = bufs[w], ![w].impl = NULL]
      BY <1>12 DEF MoveAssign, f
    <2>2. LET cs == [bufs EXCEPT ![v] = bufs[w], ![w].impl = NULL]
          IN  /\ Worths(f.heap, cs) = [W EXCEPT ![w].buf = NewBuffer, ![v] = W[w]]
              /\ Limits(f.heap, cs)
      BY <1>1, <1>4, <1>12, MovedValues DEF W
    <2>3. /\ Worths(heap', bufs') = [W EXCEPT ![w].buf = NewBuffer, ![v] = W[w]]
          /\ Limits(heap', bufs')
      BY <2>1, <2>2, Zenon
    <2> QED
      BY <1>2, <1>12, <2>1, <2>3, Zenon DEF Moved, W
  <1> QED
    BY <1>9, <1>10, <1>11, <1>12

\* What a statement on variable v may do to the values.
ValueStep(v) ==
    LET W == Worths(heap, bufs)
    IN  \/ W[v] = Dead /\ \E n \in MaxNameLens :
                            Became(v, [buf |-> NewBuffer, max_name_len |-> n])
        \/ \E w \in Bufs : W[w] # Dead /\ (Became(v, W[w]) \/ (v # w /\ Moved(v, w)))
        \/ W[v] # Dead /\ (BadlyViewed \/ Looked(v) \/ Became(v, Dead) \/ OpDone(v))

\* Every statement on a buffer does one of these, and keeps the limits.
LEMMA StatementsDo ==
    ASSUME BuffersOk(heap, bufs), Ample(heap, bufs), Limits(heap, bufs), ~CopiesNull,
           NEW v \in Bufs
    PROVE  LET Fine == Limits(heap', bufs') /\ ValueStep(v)
           IN  /\ \A n \in MaxNameLens : Construct(v, n) => Fine
               /\ \A w \in Bufs : /\ CopyConstruct(v, w) => Fine
                                  /\ MoveConstruct(v, w) => Fine
                                  /\ CopyAssign(v, w) => Fine
                                  /\ MoveAssign(v, w) => Fine
               /\ Destroy(v) => Fine
               /\ \A n \in Names :
                    /\ Table(v, n) => Fine
                    /\ ColumnBool(v, n) \/ ColumnI64(v, n) \/ ColumnF64(v, n) => Fine
                    /\ \A s \in Texts : Symbol(v, n, s) \/ ColumnStr(v, n, s) => Fine
                    /\ \A t \in Times : ColumnTime(v, n, t) => Fine
               /\ \A t \in Times : AtNanos(v, t) \/ AtMicros(v, t) => Fine
               /\ AtNow(v) => Fine
               /\ SetMarker(v) \/ RewindToMarker(v) \/ ClearMarker(v) => Fine
               /\ Reserve(v) \/ Clear(v) => Fine
               /\ Size(v) \/ RowCount(v) \/ Peek(v) \/ Transactional(v) => Fine
  <1> DEFINE W == Worths(heap, bufs)
             Fine == Limits(heap', bufs') /\ ValueStep(v)
  <1>1. ASSUME NEW n \in MaxNameLens, Construct(v, n) PROVE Fine
    <2>1. /\ Limits(heap', bufs') /\ W[v] = Dead
          /\ Became(v, [buf |-> NewBuffer, max_name_len |-> n])
      BY <1>1, ConstructsDo
    <2> QED
      BY <2>1, Zenon DEF ValueStep
  <1>2. ASSUME NEW w \in Bufs, CopyConstruct(v, w) PROVE Fine
    <2>1. Limits(heap', bufs') /\ W[w] # Dead /\ Became(v, W[w])
      BY <1>2, ConstructsDo
    <2> QED
      BY <2>1, Zenon DEF ValueStep
  <1>3. ASSUME NEW w \in Bufs, MoveConstruct(v, w) PROVE Fine
    <2>1. Limits(heap', bufs') /\ W[w] # Dead /\ v # w /\ Moved(v, w)
      BY <1>3, ConstructsDo
    <2> QED
      BY <2>1, Zenon DEF ValueStep
  <1>4. ASSUME NEW w \in Bufs, CopyAssign(v, w) \/ MoveAssign(v, w) PROVE Fine
    <2>1. /\ Limits(heap', bufs') /\ W[w] # Dead
          /\ Became(v, W[w]) \/ (v # w /\ Moved(v, w))
      BY <1>4, AssignsDo
    <2> QED
      BY <2>1, Zenon DEF ValueStep
  <1>5. ASSUME bufs[v] # Dead, Limits(heap', bufs'),
               BadlyViewed \/ Looked(v) \/ Became(v, Dead) \/ OpDone(v)
        PROVE  Fine
    <2>1. W[v] # Dead
      BY <1>5, LiveNotDead
    <2> QED
      BY <1>5, <2>1, Zenon DEF ValueStep
  <1>6. ASSUME Destroy(v) PROVE Fine
    <2>1. bufs[v] # Dead
      BY <1>6 DEF Destroy, Live
    <2> QED
      BY <1>5, <1>6, <2>1, DestroyDoes
  <1>7. ASSUME NEW n \in Names,
               \/ Table(v, n) \/ ColumnBool(v, n) \/ ColumnI64(v, n) \/ ColumnF64(v, n)
               \/ \E t \in Times : ColumnTime(v, n, t)
        PROVE  Fine
    <2>1. bufs[v] # Dead
      BY <1>7 DEF Table, ColumnBool, ColumnI64, ColumnF64, ColumnTime, Method, Live
    <2> QED
      BY <1>5, <1>7, <2>1, NameMethodsDo
  <1>8. ASSUME NEW n \in Names, NEW s \in Texts, Symbol(v, n, s) \/ ColumnStr(v, n, s)
        PROVE  Fine
    <2>1. bufs[v] # Dead
      BY <1>8 DEF Symbol, ColumnStr, Method, Live
    <2> QED
      BY <1>5, <1>8, <2>1, TextMethodsDo
  <1>9. ASSUME \/ \E t \in Times : AtNanos(v, t) \/ AtMicros(v, t)
               \/ AtNow(v) \/ SetMarker(v) \/ RewindToMarker(v)
        PROVE  Fine
    <2>1. bufs[v] # Dead
      BY <1>9 DEF AtNanos, AtMicros, AtNow, SetMarker, RewindToMarker, Method, Live
    <2> QED
      BY <1>5, <1>9, <2>1, PlainMethodsDo
  <1>10. ASSUME ClearMarker(v) \/ Clear(v) PROVE Fine
    <2>1. bufs[v] # Dead
      BY <1>10 DEF ClearMarker, Clear, Live
    <2> QED
      BY <1>5, <1>10, <2>1, ClearsDo
  <1>11. ASSUME Reserve(v) PROVE Fine
    <2>1. bufs[v] # Dead
      BY <1>11 DEF Reserve, Live
    <2>2. W[v] # Dead
      BY <2>1, LiveNotDead
    <2>3. Limits(heap', bufs') /\ Became(v, W[v])
      BY <1>11, ReserveDoes
    <2> QED
      BY <2>2, <2>3, Zenon DEF ValueStep
  <1>12. ASSUME Size(v) \/ RowCount(v) \/ Peek(v) \/ Transactional(v) PROVE Fine
    <2>1. bufs[v] # Dead
      BY <1>12 DEF Size, RowCount, Peek, Transactional, Observe, Live
    <2> QED
      BY <1>5, <1>12, <2>1, ReadsDo
  <1> HIDE DEF Fine
  <1>13. \A n \in Names : /\ Table(v, n) => Fine
                          /\ ColumnBool(v, n) \/ ColumnI64(v, n) \/ ColumnF64(v, n) => Fine
                          /\ \A s \in Texts : Symbol(v, n, s) \/ ColumnStr(v, n, s) => Fine
                          /\ \A t \in Times : ColumnTime(v, n, t) => Fine
    BY <1>7, <1>8, Zenon
  <1> QED
    BY <1>1, <1>2, <1>3, <1>4, <1>6, <1>9, <1>10, <1>11, <1>12, <1>13, Zenon DEF Fine
-----------------------------------------------------------------------------
(***************************************************************************)
(* The objects behave as values.                                           *)
(***************************************************************************)
\* The abstract specification has the operations of Buffer for its own.
LEMMA SameOps ==
    /\ Values!Dead = Dead /\ Values!NewBuffer = NewBuffer
    /\ \A b, n : Values!table(b, n) = table(b, n)
    /\ \A b, named : Values!symbol(b, named) = symbol(b, named)
    /\ \A b, named : Values!column(b, named) = column(b, named)
    /\ \A b, named, ts : Values!column_ts(b, named, ts) = column_ts(b, named, ts)
    /\ \A b, ts : Values!at(b, ts) = at(b, ts)
    /\ \A t : Values!as_micros(t) = as_micros(t)
    /\ \A b : Values!at_now(b) = at_now(b)
    /\ \A b : Values!set_marker(b) = set_marker(b)
    /\ \A b : Values!rewind_to_marker(b) = rewind_to_marker(b)
    /\ \A b : Values!clear_marker(b) = clear_marker(b)
    /\ \A b : Values!clear(b) = clear(b)
  <1>1. Values!Dead = Dead /\ Values!NewBuffer = NewBuffer
    BY Zenon DEF Values!Dead, Dead, Values!NewBuffer, NewBuffer, Values!NewState, NewState
  <1>2. /\ \A b : Values!Ok(b) = Ok(b)
        /\ \A b, e : Values!Err(b, e) = Err(b, e)
        /\ \A b, op : Values!check_op(b, op) = check_op(b, op)
        /\ \A b, tok : Values!Push(b, tok) = Push(b, tok)
        /\ \A b, tok, c : Values!Written(b, tok, c) = Written(b, tok, c)
    BY Zenon DEF Values!Ok, Ok, Values!Err, Err, Values!check_op, check_op, Values!OpCase,
               OpCase, Values!OpCases, OpCases, Values!Push, Push, Values!Written, Written
  <1>3. /\ \A t : Values!as_micros(t) = as_micros(t)
        /\ \A t : Values!as_nanos(t) = as_nanos(t)
    BY Zenon DEF Values!as_micros, as_micros, Values!as_nanos, as_nanos,
               Values!micros_to_nanos, micros_to_nanos, Values!nanos_to_micros,
               nanos_to_micros, Values!I64, I64
  <1>4. \A b, named, op : Values!Verdict(b, named, op) = Verdict(b, named, op)
    BY Zenon DEF Values!Verdict, Verdict, Values!check_op, check_op, Values!OpCase, OpCase,
               Values!OpCases, OpCases
  <1>5. \A b, n : Values!table(b, n) = table(b, n)
    BY Zenon DEF Values!table, table, Values!Verdict, Verdict, Values!Ok, Ok, Values!Err,
               Err, Values!check_op, check_op, Values!OpCase, OpCase, Values!OpCases,
               OpCases, Values!Push, Push, Values!Written, Written
  <1>6. \A b, named : Values!symbol(b, named) = symbol(b, named)
    BY Zenon DEF Values!symbol, symbol, Values!Verdict, Verdict, Values!Ok, Ok, Values!Err,
               Err, Values!check_op, check_op, Values!OpCase, OpCase, Values!OpCases,
               OpCases, Values!Push, Push, Values!Written, Written
  <1>7. \A b, named : Values!column(b, named) = column(b, named)
    BY Zenon DEF Values!column, column, Values!WithValue, WithValue,
               Values!write_column_key, write_column_key, Values!Verdict, Verdict,
               Values!Ok, Ok, Values!Err, Err, Values!check_op, check_op, Values!OpCase,
               OpCase, Values!OpCases, OpCases, Values!Push, Push, Values!Written, Written
  <1>8. ASSUME NEW b, NEW named, NEW ts
        PROVE  Values!column_ts(b, named, ts) = column_ts(b, named, ts)
    BY Zenon DEF Values!column_ts, column_ts, Values!WithValue, WithValue,
               Values!write_column_key, write_column_key, Values!Verdict, Verdict,
               Values!as_micros, as_micros, Values!nanos_to_micros, nanos_to_micros,
               Values!Ok, Ok, Values!Err, Err, Values!check_op, check_op, Values!OpCase,
               OpCase, Values!OpCases, OpCases, Values!Push, Push, Values!Written, Written
  <1>9. ASSUME NEW b, NEW ts PROVE Values!at(b, ts) = at(b, ts)
    BY Zenon DEF Values!at, at, Values!EndRow, EndRow, Values!as_nanos, as_nanos,
               Values!micros_to_nanos, micros_to_nanos, Values!I64, I64, Values!Ok, Ok,
               Values!Err, Err, Values!check_op, check_op, Values!OpCase, OpCase,
               Values!OpCases, OpCases, Values!Push, Push, Values!Written, Written
  <1>10. \A b : Values!at_now(b) = at_now(b)
    BY Zenon DEF Values!at_now, at_now, Values!EndRow, EndRow, Values!Ok, Ok, Values!Err,
               Err, Values!check_op, check_op, Values!OpCase, OpCase, Values!OpCases,
               OpCases, Values!Push, Push, Values!Written, Written
  <1>11. /\ \A b : Values!set_marker(b) = set_marker(b)
         /\ \A b : Values!rewind_to_marker(b) = rewind_to_marker(b)
    BY Zenon DEF Values!set_marker, set_marker, Values!rewind_to_marker, rewind_to_marker,
               Values!check_op, check_op, Values!OpCase, OpCase, Values!OpCases, OpCases,
               Values!Ok, Ok, Values!Err, Err
  <1>12. /\ \A b : Values!clear_marker(b) = clear_marker(b)
         /\ \A b : Values!clear(b) = clear(b)
    BY Zenon DEF Values!clear_marker, clear_marker, Values!clear, clear, Values!Ok, Ok,
               Values!NewBuffer, NewBuffer, Values!NewState, NewState
  <1> QED
    BY <1>1, <1>3, <1>5, <1>6, <1>7, <1>8, <1>9, <1>10, <1>11, <1>12, Zenon

\* An operation done on a value is a call of the abstract specification.
LEMMA DidCall ==
    ASSUME NEW v \in Bufs, NEW r, Did(v, r)
    PROVE  Values!Call(v, r)
  <1>1. /\ out' = IF r.res = "Ok" THEN <<"returned">> ELSE <<"threw", r.res>>
        /\ Worths(heap', bufs') = [Worths(heap, bufs) EXCEPT ![v].buf = r.buf]
    BY DEF Did, Said, Returned, Threw
  <1> QED
    BY <1>1, WorthIsValue, Zenon DEF Values!Call

LEMMA OpDoneCalls ==
    ASSUME NEW v \in Bufs, OpDone(v)
    PROVE  Values!Calls(v)
  <1> DEFINE W == Worths(heap, bufs)
             b == W[v].buf
             fits(n) == NameLen[n] <= W[v].max_name_len
  <1>1. [x \in Bufs |-> Value(bufs[x])] = W
    BY WorthIsValue, Zenon
  <1>2. \/ \E n \in Tables :
             \/ Values!Call(v, table(b, IF fits(n) THEN n ELSE BadName))
             \/ Values!Call(v, symbol(b, fits(n)))
             \/ Values!Call(v, column(b, fits(n)))
             \/ \E t \in Times : Values!Call(v, column_ts(b, fits(n), {t}))
        \/ \E t \in Times :
             \/ Values!Call(v, at(b, {t}))
             \/ Values!Call(v, at(b, {[unit |-> "micros", v |-> as_micros(t)]}))
        \/ Values!Call(v, at_now(b))
        \/ Values!Call(v, set_marker(b)) \/ Values!Call(v, rewind_to_marker(b))
        \/ Values!Call(v, clear_marker(b)) \/ Values!Call(v, clear(b))
    BY DidCall, Zenon DEF OpDone
  <1> HIDE DEF W
  <1> QED
    BY <1>1, <1>2, SameOps, Zenon DEF Values!Calls

\* What a statement does to the values, the abstract specification allows.
LEMMA ValueStepAllowed ==
    ASSUME NEW v \in Bufs, ValueStep(v)
    PROVE  Values!Statement
  <1> DEFINE W == Worths(heap, bufs)
             X == Worths(heap', bufs')
  <1>1. [x \in Bufs |-> Value(bufs[x])] = W /\ [x \in Bufs |-> Value(bufs[x])]' = X
    BY WorthIsValue, Zenon
  <1>2. Values!Dead = Dead /\ Values!NewBuffer = NewBuffer
    BY SameOps
  <1>3. \A x : Became(v, x) => out' = <<"returned">> /\ X = [W EXCEPT ![v] = x]
    BY Zenon DEF Became, Returned
  <1>4. ASSUME W[v] = Dead, NEW n \in MaxNameLens,
               Became(v, [buf |-> NewBuffer, max_name_len |-> n])
        PROVE  Values!Statement
    <2>1. Values!Make(v, n)
      BY <1>1, <1>2, <1>3, <1>4, Zenon DEF Values!Make, Values!Quiet
    <2> QED
      BY <1>1, <1>2, <1>4, <2>1, Zenon DEF Values!Statement
  <1>5. ASSUME NEW w \in Bufs, W[w] # Dead, Became(v, W[w])
        PROVE  Values!Statement
    <2>1. Values!CopyTo(v, w)
      BY <1>1, <1>3, <1>5, Zenon DEF Values!CopyTo, Values!Quiet
    <2> QED
      BY <1>1, <1>2, <1>5, <2>1, Zenon DEF Values!Statement
  <1>6. ASSUME NEW w \in Bufs, W[w] # Dead, v # w, Moved(v, w)
        PROVE  Values!Statement
    <2>1. Values!MoveTo(v, w)
      BY <1>1, <1>2, <1>6, Zenon DEF Values!MoveTo, Values!Quiet, Moved, Returned
    <2> QED
      BY <1>1, <1>2, <1>6, <2>1, Zenon DEF Values!Statement
  <1>7. ASSUME W[v] # Dead, BadlyViewed PROVE Values!Statement
    <2>1. Values!BadArgument
      BY <1>1, <1>7, Zenon DEF Values!BadArgument, BadlyViewed, BadView, Threw
    <2> QED
      BY <1>1, <1>2, <1>7, <2>1, Zenon DEF Values!Statement
  <1>8. ASSUME W[v] # Dead, Looked(v) PROVE Values!Statement
    <2>1. Values!Looks(v)
      BY <1>1, <1>2, <1>8, Zenon DEF Values!Looks, Looked
    <2> QED
      BY <1>1, <1>2, <1>8, <2>1, Zenon DEF Values!Statement
  <1>9. ASSUME W[v] # Dead, Became(v, Dead) PROVE Values!Statement
    <2>1. Values!End(v)
      BY <1>1, <1>2, <1>3, <1>9, Zenon DEF Values!End, Values!Quiet
    <2> QED
      BY <1>1, <1>2, <1>9, <2>1, Zenon DEF Values!Statement
  <1>10. ASSUME W[v] # Dead, OpDone(v) PROVE Values!Statement
    <2>1. Values!Calls(v)
      BY <1>10, OpDoneCalls
    <2> QED
      BY <1>1, <1>2, <1>10, <2>1, Zenon DEF Values!Statement
  <1>11. \/ W[v] = Dead /\ \E n \in MaxNameLens :
                             Became(v, [buf |-> NewBuffer, max_name_len |-> n])
         \/ \E w \in Bufs : W[w] # Dead /\ (Became(v, W[w]) \/ (v # w /\ Moved(v, w)))
         \/ W[v] # Dead /\ (BadlyViewed \/ Looked(v) \/ Became(v, Dead) \/ OpDone(v))
    BY Zenon DEF ValueStep
  <1> HIDE DEF W
  <1> QED
    BY <1>4, <1>5, <1>6, <1>7, <1>8, <1>9, <1>10, <1>11, Zenon

\* The objects of a program that has only buffers, and their limits.
ValuesInv == BuffersInv /\ Limits(heap, bufs)

\* The copy of an object without a C buffer is one of an empty buffer.
LEMMA NullCopyAllowed ==
    ASSUME CopiesNull
    PROVE  Values!UndefinedCopy
  <1> DEFINE W == Worths(heap, bufs)
  <1>1. PICK v \in Bufs, w \in Bufs : bufs[v] = Dead /\ bufs[w] # Dead /\ bufs[w].impl = NULL
    BY NullCopied
  <1>2. W[v] = Dead /\ W[w] # Dead
    BY <1>1, LiveNotDead
  <1>3. W[w].buf = NewBuffer
    <2>1. W[w] = [buf |-> Content(heap, bufs[w]), max_name_len |-> bufs[w].max_name_len]
      BY <1>1, LiveWorth
    <2>2. Content(heap, bufs[w]) = NewBuffer
      BY <1>1 DEF Content
    <2> QED
      BY <2>1, <2>2
  <1>4. [x \in Bufs |-> Value(bufs[x])] = W
    BY WorthIsValue, Zenon
  <1>5. Values!Dead = Dead /\ Values!NewBuffer = NewBuffer
    BY SameOps
  <1> HIDE DEF W
  <1> QED
    BY <1>2, <1>3, <1>4, <1>5, Zenon DEF Values!UndefinedCopy, Values!EmptyOne

\* The objects of class line_sender_buffer are values: whatever the
\* statements, on any number of variables and through any addresses, what each
\* object holds and what each statement returns, reads or throws are what plain
\* Rust buffers would, and no statement on one object changes another.  Only an
\* empty buffer may say that it is not transactional, and only a copy of one
\* may be undefined.
THEOREM BuffersActAsValues == BufferSpec => ActsAsValue
  <1> DEFINE Inv == ub = TRUE \/ ValuesInv
  <1>1. Init => Inv
    <2> SUFFICES ASSUME Init PROVE ValuesInv
      OBVIOUS
    <2>1. \A v \in Bufs : Ptr(bufs[v]) = NULL
      BY DEF Init, Ptr
    <2> QED
      BY <2>1, BuffersStart DEF ValuesInv, Limits, Limit
  <1>2. Inv /\ [BufferNext]_cppvars => Inv' /\ [Values!Next]_Values!vvars
    <2> SUFFICES ASSUME Inv, [BufferNext]_cppvars
                 PROVE  Inv' /\ [Values!Next]_Values!vvars
      OBVIOUS
    <2>1. CASE ~ub /\ BufferStatement /\ ~CopiesNull
      <3>1. BuffersInv /\ Limits(heap, bufs) /\ BuffersOk(heap, bufs) /\ Ample(heap, bufs)
        BY <2>1, BuffersAmple DEF ValuesInv, BuffersInv
      <3>2. BuffersInv'
        BY <2>1, <3>1, BufferStatements DEF Fares, BuffersInv, OthersStay
      <3>3. PICK v \in Bufs : Limits(heap', bufs') /\ ValueStep(v)
        BY <2>1, <3>1, StatementsDo, Zenon DEF BufferStatement
      <3>4. Values!Statement
        BY <3>3, ValueStepAllowed
      <3>5. ~ub'
        BY <3>2 DEF BuffersInv
      <3>6. Values!Next
        BY <2>1, <3>4, <3>5, Zenon DEF Values!Next
      <3> QED
        BY <3>2, <3>3, <3>6 DEF ValuesInv
    <2>2. CASE ~ub /\ CopiesNull
      <3>1. ub' = TRUE /\ Values!UndefinedCopy
        BY <2>2, NullCopied, NullCopyAllowed
      <3>2. Values!Next
        BY <2>2, <3>1, Zenon DEF Values!Next
      <3> QED
        BY <3>1, <3>2
    <2>3. CASE UNCHANGED cppvars
      <3>1. heap' = heap /\ bufs' = bufs /\ out' = out /\ ub' = ub
        BY <2>3 DEF cppvars
      <3>2. Inv'
        BY <3>1 DEF ValuesInv, BuffersInv
      <3>3. [v \in Bufs |-> Value(bufs[v])]' = [v \in Bufs |-> Value(bufs[v])]
        BY <3>1, WorthIsValue, Zenon
      <3>4. UNCHANGED Values!vvars
        BY <3>1, <3>3, Zenon DEF Values!vvars
      <3> QED
        BY <3>2, <3>4
    <2> QED
      BY <2>1, <2>2, <2>3 DEF BufferNext
  <1>3. Init => Values!Init
    <2> SUFFICES ASSUME Init PROVE Values!Init
      OBVIOUS
    <2>1. bufs = [v \in Bufs |-> Dead] /\ out = <<"returned">> /\ ub = FALSE
      BY DEF Init, Returned
    <2>2. [v \in Bufs |-> Value(bufs[v])] = [v \in Bufs |-> Dead]
      BY <2>1 DEF Value
    <2>3. Values!Dead = Dead
      BY SameOps
    <2> QED
      BY <2>1, <2>2, <2>3, Zenon DEF Values!Init
  <1> HIDE DEF Inv
  <1> QED
    BY <1>1, <1>2, <1>3, PTL DEF BufferSpec, ActsAsValue, Values!Spec

-----------------------------------------------------------------------------
(***************************************************************************)
(* Handles: objects of class opts and line_sender, in variables V, which   *)
(* own C objects of a kind.                                                *)
(***************************************************************************)
Ptrs(V, hs) == [v \in V |-> Ptr(hs[v])]

IsHandle(o) == o = Dead \/ o = Handle(o.impl)

HandlesOk(h, kind, V, hs) ==
    /\ hs = [v \in V |-> hs[v]] /\ \A v \in V : IsHandle(hs[v])
    /\ Owns(Of(h, kind), Ptrs(V, hs), V)

\* Objects of other kinds stay where they are.
OthersOf(h, kind, g) == \A k \in Kinds \ {kind} : Of(g, k) = Of(h, k)

\* A handle is not a dead variable.
LEMMA HandleFacts ==
    ASSUME NEW p
    PROVE  /\ Handle(p) # Dead /\ Ptr(Handle(p)) = p /\ IsHandle(Handle(p))
           /\ Handle(p).impl = p
           /\ Ptr(Dead) = NULL /\ IsHandle(Dead)
  <1>1. DOMAIN Handle(p) = {"impl"} /\ DOMAIN Dead = {"dead"}
    BY DEF Handle, Dead
  <1>2. Handle(p) # Dead
    BY <1>1
  <1>3. Handle(p).impl = p
    BY DEF Handle
  <1> QED
    BY <1>2, <1>3 DEF Ptr, IsHandle

\* cs is hs but for the handle of v, which is o.
HandleSet(V, hs, v, o, cs) ==
    /\ cs = [w \in V |-> cs[w]] /\ \A w \in V : IsHandle(cs[w])
    /\ Ptrs(V, cs) = [Ptrs(V, hs) EXCEPT ![v] = Ptr(o)]

\* One variable is given another handle.
LEMMA HandleChanges ==
    ASSUME NEW V, NEW hs, hs = [v \in V |-> hs[v]], \A v \in V : IsHandle(hs[v]),
           NEW v \in V, NEW o, IsHandle(o)
    PROVE  HandleSet(V, hs, v, o, [hs EXCEPT ![v] = o])
  <1> DEFINE cs == [hs EXCEPT ![v] = o]
  <1>1. cs = [w \in V |-> IF w = v THEN o ELSE hs[w]]
    OBVIOUS
  <1> HIDE DEF cs
  <1>2. cs = [w \in V |-> cs[w]] /\ \A w \in V : IsHandle(cs[w])
    BY <1>1
  <1>3. Ptrs(V, cs) = [Ptrs(V, hs) EXCEPT ![v] = Ptr(o)]
    BY <1>1 DEF Ptrs
  <1> QED
    BY <1>2, <1>3 DEF cs, HandleSet

\* The handles of a kind, when its objects stay.
LEMMA HandlesStay ==
    ASSUME NEW h, NEW g, NEW kind, NEW V, NEW hs, HandlesOk(h, kind, V, hs),
           Of(g, kind) = Of(h, kind)
    PROVE  HandlesOk(g, kind, V, hs)
  BY DEF HandlesOk

\* And the buffers.
LEMMA BuffersStay ==
    ASSUME NEW h, NEW g, NEW bs, BuffersOk(h, bs), IsHeap(g),
           Of(g, "error") = Of(h, "error"), Of(g, "buffer") = Of(h, "buffer")
    PROVE  BuffersOk(g, bs)
  BY DEF BuffersOk

\* A live handle is NULL or points to an object.
LEMMA HandlePoints ==
    ASSUME NEW h, NEW kind, NEW V, NEW hs, HandlesOk(h, kind, V, hs),
           NEW v \in V, hs[v] # Dead
    PROVE  /\ hs[v] = Handle(hs[v].impl) /\ Ptrs(V, hs)[v] = hs[v].impl
           /\ hs[v].impl = NULL \/ hs[v].impl \in Of(h, kind)
  <1>1. Ptrs(V, hs)[v] = hs[v].impl
    BY DEF Ptrs, Ptr
  <1>2. Ptrs(V, hs)[v] \in Of(h, kind) \cup {NULL}
    BY DEF HandlesOk, Owns
  <1> QED
    BY <1>1, <1>2 DEF HandlesOk, IsHandle

\* A new object of the kind, at address a, is given to a handle.
LEMMA HandleTakes ==
    ASSUME NEW h, NEW g, NEW kind, NEW V, NEW hs, HandlesOk(h, kind, V, hs),
           NEW v \in V, Ptr(hs[v]) = NULL, NEW a \in Addr, a \notin Of(h, kind),
           Of(g, kind) = Of(h, kind) \cup {a}
    PROVE  HandlesOk(g, kind, V, [hs EXCEPT ![v] = Handle(a)])
  <1> DEFINE p == Ptrs(V, hs)
             cs == [hs EXCEPT ![v] = Handle(a)]
  <1>1. p[v] = NULL /\ Owns(Of(h, kind), p, V) /\ Of(h, kind) \subseteq Addr
    BY BufferAddresses DEF HandlesOk, Ptrs
  <1> HIDE DEF p
  <1>2. Owns(Of(h, kind) \cup {a}, [p EXCEPT ![v] = a], V)
    BY <1>1, Takes
  <1>3. IsHandle(Handle(a)) /\ Ptr(Handle(a)) = a
    BY HandleFacts
  <1>4. /\ cs = [w \in V |-> cs[w]] /\ \A w \in V : IsHandle(cs[w])
        /\ Ptrs(V, cs) = [Ptrs(V, hs) EXCEPT ![v] = Ptr(Handle(a))]
    <2>1. hs = [w \in V |-> hs[w]] /\ \A w \in V : IsHandle(hs[w])
      BY DEF HandlesOk
    <2>2. HandleSet(V, hs, v, Handle(a), cs)
      BY <1>3, <2>1, HandleChanges
    <2> QED
      BY <2>2 DEF HandleSet
  <1>5. Ptrs(V, cs) = [p EXCEPT ![v] = a]
    BY <1>3, <1>4 DEF p
  <1> HIDE DEF cs
  <1> QED
    BY <1>2, <1>4, <1>5 DEF HandlesOk, cs

\* What a handle owns is freed, and the handle is left with nothing.
LEMMA HandleFrees ==
    ASSUME NEW h, IsHeap(h), NEW kind \in Kinds, NEW V, NEW hs, HandlesOk(h, kind, V, hs),
           NEW v \in V, hs[v] # Dead, NEW o, o = Dead \/ o = Handle(NULL)
    PROVE  LET f == Drop(h, hs[v].impl, kind)
           IN  /\ f.ub = FALSE /\ IsHeap(f.heap) /\ OthersOf(h, kind, f.heap)
               /\ HandlesOk(f.heap, kind, V, [hs EXCEPT ![v] = o])
  <1> DEFINE b == hs[v].impl
             f == Drop(h, b, kind)
             p == Ptrs(V, hs)
             cs == [hs EXCEPT ![v] = o]
  <1>1. p[v] = b /\ (b = NULL \/ b \in Of(h, kind))
    BY HandlePoints
  <1>2. Owns(Of(h, kind), p, V) /\ Of(h, kind) \subseteq Addr
    BY BufferAddresses DEF HandlesOk
  <1>3. Frees(h, kind, b, f)
    BY <1>1, DropFacts
  <1> HIDE DEF p, f
  <1>4. Owns(Of(f.heap, kind), [p EXCEPT ![v] = NULL], V)
    <2>1. Owns(Of(h, kind) \ {p[v]}, [p EXCEPT ![v] = NULL], V)
      BY <1>2, Releases
    <2> QED
      BY <1>1, <1>3, <2>1 DEF Frees
  <1>5. IsHandle(o) /\ Ptr(o) = NULL
    BY HandleFacts
  <1>6. /\ cs = [w \in V |-> cs[w]] /\ \A w \in V : IsHandle(cs[w])
        /\ Ptrs(V, cs) = [Ptrs(V, hs) EXCEPT ![v] = Ptr(o)]
    <2>1. hs = [w \in V |-> hs[w]] /\ \A w \in V : IsHandle(hs[w])
      BY DEF HandlesOk
    <2>2. HandleSet(V, hs, v, o, cs)
      BY <1>5, <2>1, HandleChanges
    <2> QED
      BY <2>2 DEF HandleSet
  <1>7. Ptrs(V, cs) = [p EXCEPT ![v] = NULL]
    BY <1>5, <1>6 DEF p
  <1> HIDE DEF cs
  <1>8. HandlesOk(f.heap, kind, V, cs)
    BY <1>4, <1>6, <1>7 DEF HandlesOk
  <1> QED
    BY <1>3, <1>8 DEF Frees, OthersOf, f, cs

\* A handle that owns nothing is given what another owns.
LEMMA HandleMoves ==
    ASSUME NEW h, NEW kind, NEW V, NEW hs, HandlesOk(h, kind, V, hs),
           NEW v \in V, NEW w \in V, v # w, Ptr(hs[v]) = NULL, hs[w] # Dead
    PROVE  HandlesOk(h, kind, V, [hs EXCEPT ![v] = hs[w], ![w] = Handle(NULL)])
  <1> DEFINE p == Ptrs(V, hs)
             cs == [hs EXCEPT ![v] = hs[w], ![w] = Handle(NULL)]
  <1>1. /\ p[v] = NULL /\ Owns(Of(h, kind), p, V) /\ NULL \notin Of(h, kind)
        /\ hs = [x \in V |-> hs[x]] /\ \A x \in V : IsHandle(hs[x])
    BY BufferAddresses DEF HandlesOk, Ptrs
  <1>2. cs = [x \in V |-> IF x = w THEN Handle(NULL) ELSE IF x = v THEN hs[w] ELSE hs[x]]
    BY <1>1
  <1>3. IsHandle(Handle(NULL)) /\ Ptr(Handle(NULL)) = NULL
    BY HandleFacts
  <1> HIDE DEF cs
  <1>4. cs = [x \in V |-> cs[x]] /\ \A x \in V : IsHandle(cs[x])
    BY <1>1, <1>2, <1>3
  <1>5. Ptrs(V, cs) = [x \in V |-> IF x = w THEN NULL ELSE IF x = v THEN p[w] ELSE p[x]]
    BY <1>2, <1>3 DEF Ptrs
  <1>6. [p EXCEPT ![v] = p[w], ![w] = NULL]
           = [x \in V |-> IF x = w THEN NULL ELSE IF x = v THEN p[w] ELSE p[x]]
    BY DEF Ptrs
  <1> HIDE DEF p
  <1>7. Owns(Of(h, kind), [p EXCEPT ![v] = p[w], ![w] = NULL], V)
    BY <1>1, Moves
  <1>8. Owns(Of(h, kind), Ptrs(V, cs), V)
    BY <1>5, <1>6, <1>7, Zenon
  <1> QED
    BY <1>4, <1>8 DEF HandlesOk, cs

-----------------------------------------------------------------------------
(***************************************************************************)
(* Statements about options.                                               *)
(***************************************************************************)
\* r returned a new object of the kind, which nothing owns yet.
Makes(h, kind, r) ==
    /\ r.out = Returned /\ r.ub = FALSE /\ IsHeap(r.heap)
    /\ r.ret \in Addr /\ r.ret # NULL /\ h[r.ret] = Freed
    /\ Of(r.heap, kind) = Of(h, kind) \cup {r.ret}
    /\ OthersOf(h, kind, r.heap)

\* r threw and left the objects as they were.
Throws(h, r) == r.out # Returned /\ Keeps(h, r)

\* What is given out by C is returned by C++.
LEMMA GiveMakes ==
    ASSUME NEW h, IsHeap(h), Room(h), NEW x, Shaped(x), x # Freed
    PROVE  Makes(h, x.kind, wrapped_call(Give(h, x)))
  <1> DEFINE r == Give(h, x)
             w == wrapped_call(r)
  <1>1. Gave(h, x, r)
    BY GiveFacts
  <1> HIDE DEF r
  <1>2. w = [heap |-> r.heap, ret |-> r.ret, out |-> Returned, ub |-> r.ub]
    BY <1>1 DEF wrapped_call, Gave
  <1> QED
    BY <1>1, <1>2 DEF Makes, Gave, OthersOf, r

\* An error that C gives out is thrown by C++.
LEMMA FailThrows ==
    ASSUME NEW h, IsHeap(h), Room(h), NEW code
    PROVE  Throws(h, wrapped_call(Fail(h, code, NULL)))
  <1>1. wrapped_call(Fail(h, code, NULL))
          = [heap |-> h, ret |-> NULL, out |-> Threw(code), ub |-> FALSE]
    BY FailCaught
  <1>2. Threw(code) # Returned
    BY DEF Threw, Returned
  <1> QED
    BY <1>1, <1>2 DEF Throws, Keeps, SameObjects

\* Where there is room for two there is room after one more object.
LEMMA RoomLeft ==
    ASSUME NEW h, NEW kind \in Kinds, NEW r, IsHeap(h), RoomForTwo(h), Makes(h, kind, r)
    PROVE  Room(r.heap)
  <1>1. PICK a \in Addr : h[a] = Freed /\ a # r.ret
    BY DEF RoomForTwo
  <1>2. \A k \in Kinds : a \notin Of(h, k)
    BY <1>1 DEF Of, Kinds, Freed
  <1>3. \A k \in Kinds : a \notin Of(r.heap, k)
    BY <1>1, <1>2 DEF Makes, OthersOf
  <1>4. r.heap[a].kind \notin Kinds /\ Shaped(r.heap[a])
    BY <1>3 DEF Of, Makes, IsHeap
  <1> QED
    BY <1>4, ShapeFacts DEF Room

\* Setting the user agent of options that were just made cannot fail.
LEMMA UserAgentSet ==
    ASSUME NEW h, IsHeap(h), Room(h), NEW r, r.heap = h, r.ret \in Of(h, "opts")
    PROVE  LET a == WithUserAgent(r) IN Keeps(h, a) /\ a.out = Returned
  <1> DEFINE u == user_agent(h[r.ret].builder, "questdb/c++")
             a == WithUserAgent(r)
  <1>1. a = wrapped_call(upd_opts(h, r.ret, u))
    BY DEF WithUserAgent, line_sender_opts_user_agent
  <1>2. Keeps(h, a)
    BY <1>1, OptsCalled
  <1>3. u.res = "Ok"
    BY DEF user_agent, Builder
  <1>4. Points(h, r.ret, "opts")
    BY DEF Points, Of, NULL
  <1> HIDE DEF u
  <1>5. upd_opts(h, r.ret, u) = Return([h EXCEPT ![r.ret].builder = u.builder], true)
    BY <1>3, <1>4 DEF upd_opts
  <1>6. a.out = Returned
    BY <1>1, <1>5 DEF wrapped_call, Return, true, NULL
  <1> QED
    BY <1>2, <1>6 DEF a

\* The same objects after what was made.
LEMMA MadeThenKept ==
    ASSUME NEW h, NEW kind \in Kinds, NEW r, Makes(h, kind, r), NEW a, Keeps(r.heap, a),
           NEW m, m.heap = a.heap, m.ret = r.ret, m.out = Returned, m.ub = FALSE
    PROVE  Makes(h, kind, m)
  BY DEF Makes, Keeps, SameObjects, OthersOf, Kinds

\* opts(protocol, host, port) makes options.
LEMMA NewMakes ==
    ASSUME NEW h, IsHeap(h), RoomForTwo(h), NEW p
    PROVE  Makes(h, "opts", Made(h, p)) /\ Makes(h, "opts", MadeService(h, p))
  <1> DEFINE x == line_sender_opts(user_agent(new(p, "server"), "questdb/c").builder)
             r == Give(h, x)
             w == wrapped_call(r)
             a == WithUserAgent(r)
  <1>1. Shaped(x) /\ x # Freed /\ x.kind = "opts" /\ Room(h)
    BY DEF Shaped, line_sender_opts, Freed, Room, RoomForTwo
  <1>2. /\ line_sender_opts_new(h, p, "server") = r
        /\ line_sender_opts_new_service(h, p, "server") = r
    BY DEF line_sender_opts_new, line_sender_opts_new_service, x
  <1> HIDE DEF x
  <1>3. Makes(h, "opts", w)
    BY <1>1, GiveMakes
  <1>4. w.heap = r.heap /\ w.ret = r.ret
    <2>1. Gave(h, x, r)
      BY <1>1, GiveFacts
    <2> HIDE DEF r
    <2> QED
      BY <2>1 DEF wrapped_call, Gave
  <1> HIDE DEF r, w
  <1>5. Room(w.heap)
    BY <1>3, RoomLeft DEF Kinds
  <1>6. Keeps(w.heap, a) /\ a.out = Returned
    <2>1. r.ret \in Of(w.heap, "opts") /\ IsHeap(w.heap)
      BY <1>3, <1>4 DEF Makes
    <2> QED
      BY <1>4, <1>5, <2>1, UserAgentSet
  <1> HIDE DEF a
  <1>7. \A m : m = [heap |-> a.heap, ret |-> r.ret, out |-> Returned,
                    ub |-> a.ub \/ a.out # Returned]
                => Makes(h, "opts", m)
    <2> SUFFICES ASSUME NEW m, m = [heap |-> a.heap, ret |-> r.ret, out |-> Returned,
                                    ub |-> a.ub \/ a.out # Returned]
                 PROVE  Makes(h, "opts", m)
      OBVIOUS
    <2>1. m.heap = a.heap /\ m.ret = w.ret /\ m.out = Returned
      BY <1>4
    <2>2. m.ub = FALSE
      <3>1. m.ub = (a.ub \/ a.out # Returned)
        OBVIOUS
      <3>2. a.ub = FALSE
        BY <1>6 DEF Keeps
      <3> QED
        BY <1>6, <3>1, <3>2, Zenon
    <2> QED
      BY <1>3, <1>6, <2>1, <2>2, MadeThenKept DEF Kinds
  <1>8. /\ Made(h, p) = [heap |-> a.heap, ret |-> r.ret, out |-> Returned,
                         ub |-> a.ub \/ a.out # Returned]
        /\ MadeService(h, p) = [heap |-> a.heap, ret |-> r.ret, out |-> Returned,
                                ub |-> a.ub \/ a.out # Returned]
    BY <1>2 DEF Made, MadeService, a
  <1> QED
    BY <1>7, <1>8

\* opts::from_conf and opts::from_env make options or throw.
LEMMA ConfMakes ==
    ASSUME NEW h, IsHeap(h), RoomForTwo(h), NEW c
    PROVE  /\ Makes(h, "opts", MadeFromConf(h, c)) \/ Throws(h, MadeFromConf(h, c))
           /\ Makes(h, "opts", MadeFromEnv(h, c)) \/ Throws(h, MadeFromEnv(h, c))
  <1> DEFINE x == line_sender_opts(c.builder)
             r == MadeFromConf(h, c)
             a == WithUserAgent(r)
  <1>1. Shaped(x) /\ x # Freed /\ x.kind = "opts" /\ Room(h)
    BY DEF Shaped, line_sender_opts, Freed, Room, RoomForTwo
  <1>2. Makes(h, "opts", r) \/ Throws(h, r)
    <2>1. CASE c.res = "Ok"
      <3>1. r = wrapped_call(Give(h, x))
        BY <2>1 DEF MadeFromConf, line_sender_opts_from_conf
      <3> QED
        BY <1>1, <3>1, GiveMakes
    <2>2. CASE c.res # "Ok"
      <3>1. r = wrapped_call(Fail(h, c.res, NULL))
        BY <2>2 DEF MadeFromConf, line_sender_opts_from_conf
      <3> QED
        BY <1>1, <3>1, FailThrows
    <2> QED
      BY <2>1, <2>2
  <1>3. wrapped_call(line_sender_opts_from_env(h, c)) = r
    BY DEF MadeFromConf, line_sender_opts_from_env
  <1> HIDE DEF r
  <1>4. CASE Throws(h, r)
    <2>1. MadeFromEnv(h, c) = r
      BY <1>3, <1>4 DEF MadeFromEnv, Throws
    <2> QED
      BY <1>2, <1>4, <2>1 DEF r
  <1>5. CASE Makes(h, "opts", r)
    <2>1. Room(r.heap)
      BY <1>5, RoomLeft DEF Kinds
    <2>2. Keeps(r.heap, a) /\ a.out = Returned
      BY <1>5, <2>1, UserAgentSet DEF Makes
    <2> HIDE DEF a
    <2> DEFINE m == [a EXCEPT !.ret = r.ret]
    <2>3. MadeFromEnv(h, c) = m
      BY <1>3, <1>5, <2>2 DEF MadeFromEnv, Makes, a
    <2>4. a = [heap |-> a.heap, ret |-> a.ret, out |-> a.out, ub |-> a.ub]
      BY DEF a, WithUserAgent, wrapped_call, from_c
    <2>5. m.heap = a.heap /\ m.ret = r.ret /\ m.out = Returned /\ m.ub = a.ub
      BY <2>2, <2>4
    <2>6. a.ub = FALSE
      BY <2>2 DEF Keeps
    <2> HIDE DEF m
    <2>7. Makes(h, "opts", m)
      BY <1>5, <2>2, <2>5, <2>6, MadeThenKept DEF Kinds
    <2> QED
      BY <1>2, <2>3, <2>7 DEF r
  <1> QED
    BY <1>2, <1>4, <1>5

\* Everything has its owner.
AllOk(h, bs, os, ss) ==
    /\ BuffersOk(h, bs)
    /\ HandlesOk(h, "opts", Opts, os)
    /\ HandlesOk(h, "sender", Senders, ss)

\* What every statement comes to.
AllFares == AllOk(heap', bufs', opts', snds') /\ ub' = FALSE

\* A statement about options, once their owners are known.
LEMMA OptsSettle ==
    ASSUME AllOk(heap, bufs, opts, snds), NEW r, Leaves(r), snds' = snds,
           r.ub = FALSE, IsHeap(r.heap), OthersOf(heap, "opts", r.heap),
           HandlesOk(r.heap, "opts", Opts, opts')
    PROVE  AllFares
  <1>1. heap' = r.heap /\ ub' = r.ub /\ bufs' = bufs
    BY DEF Leaves
  <1>2. \A k \in {"error", "buffer", "sender"} : Of(r.heap, k) = Of(heap, k)
    BY DEF OthersOf, Kinds
  <1>3. BuffersOk(r.heap, bufs)
    BY <1>2, BuffersStay DEF AllOk
  <1>4. HandlesOk(r.heap, "sender", Senders, snds)
    BY <1>2, HandlesStay DEF AllOk
  <1> QED
    BY <1>1, <1>3, <1>4 DEF AllFares, AllOk

\* A statement about senders, likewise.
LEMMA SendersSettle ==
    ASSUME AllOk(heap, bufs, opts, snds), NEW r, Leaves(r), opts' = opts,
           r.ub = FALSE, IsHeap(r.heap), OthersOf(heap, "sender", r.heap),
           HandlesOk(r.heap, "sender", Senders, snds')
    PROVE  AllFares
  <1>1. heap' = r.heap /\ ub' = r.ub /\ bufs' = bufs
    BY DEF Leaves
  <1>2. \A k \in {"error", "buffer", "opts"} : Of(r.heap, k) = Of(heap, k)
    BY DEF OthersOf, Kinds
  <1>3. BuffersOk(r.heap, bufs)
    BY <1>2, BuffersStay DEF AllOk
  <1>4. HandlesOk(r.heap, "opts", Opts, opts)
    BY <1>2, HandlesStay DEF AllOk
  <1> QED
    BY <1>1, <1>3, <1>4 DEF AllFares, AllOk

\* A statement that leaves every object and every variable.
LEMMA AllSettle ==
    ASSUME AllOk(heap, bufs, opts, snds), NEW r, Leaves(r), snds' = snds, opts' = opts,
           Keeps(heap, r)
    PROVE  AllFares
  <1>1. /\ r.ub = FALSE /\ IsHeap(r.heap) /\ OthersOf(heap, "opts", r.heap)
        /\ Of(r.heap, "opts") = Of(heap, "opts")
    BY DEF Keeps, SameObjects, OthersOf, Kinds
  <1>2. HandlesOk(r.heap, "opts", Opts, opts)
    BY <1>1, HandlesStay DEF AllOk
  <1> QED
    BY <1>1, <1>2, OptsSettle

\* A heap keeps itself.
LEMMA DoneKeeps ==
    ASSUME NEW h, IsHeap(h)
    PROVE  Keeps(h, Done(h)) /\ Done(h).heap = h /\ Done(h).ub = FALSE
  BY DEF Keeps, Done, SameObjects

\* A constructor gives its variable what was made, or throws.
LEMMA OptsMadeFares ==
    ASSUME AllOk(heap, bufs, opts, snds), NEW o \in Opts, NEW r, OptsMade(o, r),
           Makes(heap, "opts", r) \/ Throws(heap, r)
    PROVE  AllFares
  <1>1. /\ Leaves(r) /\ snds' = snds /\ Ptr(opts[o]) = NULL
        /\ opts' = IF r.out = Returned THEN [opts EXCEPT ![o] = Handle(r.ret)] ELSE opts
    BY DEF OptsMade, Alive, Ptr
  <1>2. CASE Makes(heap, "opts", r)
    <2>1. r.ret \notin Of(heap, "opts")
      BY <1>2 DEF Makes, Of, Freed
    <2>2. HandlesOk(r.heap, "opts", Opts, [opts EXCEPT ![o] = Handle(r.ret)])
      BY <1>1, <1>2, <2>1, HandleTakes DEF AllOk, Makes
    <2> QED
      BY <1>1, <1>2, <2>2, OptsSettle DEF Makes
  <1>3. CASE Throws(heap, r)
    BY <1>1, <1>3, AllSettle DEF Throws
  <1> QED
    BY <1>2, <1>3

\* The constructors of opts.
LEMMA OptsConstructed ==
    ASSUME AllOk(heap, bufs, opts, snds), RoomForTwo(heap), NEW o \in Opts,
           \/ \E p \in Ps : OptsNew(o, p) \/ OptsNewService(o, p)
           \/ \E c \in Confs : OptsFromConf(o, c) \/ OptsFromEnv(o, c)
    PROVE  AllFares
  <1>1. IsHeap(heap)
    BY DEF AllOk, BuffersOk
  <1>2. ASSUME NEW p, OptsNew(o, p) \/ OptsNewService(o, p) PROVE AllFares
    BY <1>1, <1>2, NewMakes, OptsMadeFares DEF OptsNew, OptsNewService
  <1>3. ASSUME NEW c, OptsFromConf(o, c) \/ OptsFromEnv(o, c) PROVE AllFares
    BY <1>1, <1>3, ConfMakes, OptsMadeFares DEF OptsFromConf, OptsFromEnv
  <1> QED
    BY <1>2, <1>3

\* A clone of options.
LEMMA OptsCloned ==
    ASSUME NEW h, IsHeap(h), Room(h), NEW p \in Of(h, "opts"), NEW m,
           m.heap = line_sender_opts_clone(h, p).heap, m.ret = line_sender_opts_clone(h, p).ret,
           m.out = Returned, m.ub = line_sender_opts_clone(h, p).ub
    PROVE  Makes(h, "opts", m)
  <1> DEFINE r == line_sender_opts_clone(h, p)
  <1>1. p # NULL /\ h[p].kind = "opts" /\ Shaped(h[p]) /\ h[p] # Freed
    BY DEF Of, NULL, IsHeap, Freed
  <1>2. r = Give(h, h[p])
    BY <1>1 DEF line_sender_opts_clone, Points
  <1>3. Gave(h, h[p], r)
    BY <1>1, <1>2, GiveFacts
  <1> HIDE DEF r
  <1> QED
    BY <1>1, <1>3 DEF Makes, Gave, OthersOf, r

\* The copy constructor and the move constructor.
LEMMA OptsCopied ==
    ASSUME AllOk(heap, bufs, opts, snds), Room(heap), NEW o \in Opts, NEW p \in Opts,
           (OptsCopy(o, p) /\ opts[p].impl # NULL) \/ OptsMove(o, p)
    PROVE  AllFares
  <1>1. IsHeap(heap) /\ HandlesOk(heap, "opts", Opts, opts)
    BY DEF AllOk, BuffersOk
  <1>2. CASE OptsCopy(o, p) /\ opts[p].impl # NULL
    <2> DEFINE r == line_sender_opts_clone(heap, opts[p].impl)
               m == [heap |-> r.heap, ret |-> r.ret, out |-> Returned, ub |-> r.ub]
    <2>1. opts[p] # Dead /\ opts[p].impl # NULL /\ OptsMade(o, m)
      BY <1>2 DEF OptsCopy, Alive
    <2>2. opts[p].impl \in Of(heap, "opts")
      BY <1>1, <2>1, HandlePoints
    <2>3. m.heap = r.heap /\ m.ret = r.ret /\ m.out = Returned /\ m.ub = r.ub
      OBVIOUS
    <2> HIDE DEF m
    <2>4. Makes(heap, "opts", m)
      BY <1>1, <2>2, <2>3, OptsCloned
    <2> QED
      BY <2>1, <2>4, OptsMadeFares
  <1>3. CASE OptsMove(o, p)
    <2>1. /\ opts[o] = Dead /\ opts[p] # Dead /\ o # p /\ snds' = snds
          /\ opts' = [opts EXCEPT ![o] = opts[p], ![p] = Handle(NULL)]
          /\ Leaves(Done(heap))
      BY <1>3 DEF OptsMove, Alive
    <2>2. HandlesOk(heap, "opts", Opts, [opts EXCEPT ![o] = opts[p], ![p] = Handle(NULL)])
      BY <1>1, <2>1, HandleMoves DEF Ptr
    <2>3. HandlesOk(heap, "opts", Opts, opts')
      BY <2>1, <2>2
    <2>4. /\ Done(heap).heap = heap /\ Done(heap).ub = FALSE
          /\ OthersOf(heap, "opts", heap)
      BY <1>1, DoneKeeps DEF OthersOf
    <2> QED
      BY <1>1, <2>1, <2>3, <2>4, OptsSettle
  <1> QED
    BY <1>2, <1>3

\* reset() frees what the object owns.
LEMMA ResetFacts ==
    ASSUME NEW h, NEW o
    PROVE  /\ reset(h, o) = Drop(h, o.impl, "opts")
           /\ Closed(h, o) = Drop(h, o.impl, "sender")
  BY DEF reset, Closed, line_sender_opts_free, line_sender_close, Drop

\* Room is still there after an object was freed.
LEMMA RoomAfterDrop ==
    ASSUME NEW h, IsHeap(h), Room(h), NEW kind \in Kinds, NEW p, p = NULL \/ p \in Of(h, kind)
    PROVE  Room(Drop(h, p, kind).heap)
  <1> DEFINE f == Drop(h, p, kind)
  <1>1. Frees(h, kind, p, f)
    BY DropFacts
  <1>2. PICK a \in Addr : h[a] = Freed
    BY DEF Room
  <1>3. a # p
    BY <1>2 DEF Of, Freed, Kinds, NULL
  <1> HIDE DEF f
  <1> QED
    BY <1>1, <1>2, <1>3 DEF Frees, Room, f

\* The destructor, and the assignments.
LEMMA OptsAssigned ==
    ASSUME AllOk(heap, bufs, opts, snds), Room(heap),
           NEW o \in Opts, NEW p \in Opts,
           \/ OptsCopyAssign(o, p) /\ (o = p \/ opts[p].impl # NULL)
           \/ OptsMoveAssign(o, p) \/ OptsDestroy(o)
    PROVE  AllFares
  <1> DEFINE f == Drop(heap, opts[o].impl, "opts")
             cs == [opts EXCEPT ![o] = Handle(NULL)]
  <1>1. IsHeap(heap) /\ HandlesOk(heap, "opts", Opts, opts) /\ opts[o] # Dead
    BY DEF AllOk, BuffersOk, OptsCopyAssign, OptsMoveAssign, OptsDestroy, Alive
  <1>2. /\ f.ub = FALSE /\ IsHeap(f.heap) /\ OthersOf(heap, "opts", f.heap)
        /\ HandlesOk(f.heap, "opts", Opts, cs)
    BY <1>1, HandleFrees DEF Kinds
  <1>3. HandlesOk(f.heap, "opts", Opts, [opts EXCEPT ![o] = Dead])
    BY <1>1, HandleFrees DEF Kinds
  <1>4. reset(heap, opts[o]) = f
    BY ResetFacts
  <1>5. Room(f.heap)
    <2>1. opts[o].impl = NULL \/ opts[o].impl \in Of(heap, "opts")
      BY <1>1, HandlePoints
    <2> QED
      BY <1>1, <2>1, RoomAfterDrop DEF Kinds
  <1>6. After(f).heap = f.heap /\ After(f).ub = f.ub
    BY DEF After
  <1>7. opts = [x \in Opts |-> opts[x]]
    BY <1>1 DEF HandlesOk
  <1> HIDE DEF f
  <1>8. ASSUME Leaves(Done(heap)), UNCHANGED opts, UNCHANGED snds PROVE AllFares
    BY <1>1, <1>8, DoneKeeps, AllSettle
  <1>9. CASE OptsDestroy(o)
    <2>1. Leaves(After(f)) /\ opts' = [opts EXCEPT ![o] = Dead] /\ snds' = snds
      BY <1>4, <1>9 DEF OptsDestroy
    <2>2. HandlesOk(f.heap, "opts", Opts, opts')
      BY <1>3, <2>1
    <2> QED
      BY <1>2, <1>6, <2>1, <2>2, OptsSettle
  <1>10. CASE OptsMoveAssign(o, p)
    <2>1. CASE o = p
      BY <1>8, <1>10, <2>1 DEF OptsMoveAssign
    <2>2. CASE o # p
      <3>1. /\ Leaves(After(f)) /\ opts[p] # Dead /\ snds' = snds
            /\ opts' = [opts EXCEPT ![o] = opts[p], ![p] = Handle(NULL)]
        BY <1>4, <1>10, <2>2 DEF OptsMoveAssign, Alive
      <3>2. cs[o] = Handle(NULL) /\ cs[p] = opts[p]
        BY <1>7, <2>2
      <3>3. [cs EXCEPT ![o] = cs[p], ![p] = Handle(NULL)]
              = [opts EXCEPT ![o] = opts[p], ![p] = Handle(NULL)]
        BY <1>7, <2>2
      <3> HIDE DEF cs
      <3>4. HandlesOk(f.heap, "opts", Opts, [cs EXCEPT ![o] = cs[p], ![p] = Handle(NULL)])
        <4>1. Ptr(cs[o]) = NULL /\ cs[p] # Dead
          BY <3>1, <3>2, HandleFacts
        <4> QED
          BY <1>2, <2>2, <4>1, HandleMoves
      <3>5. HandlesOk(f.heap, "opts", Opts, opts')
        BY <3>1, <3>3, <3>4, Zenon
      <3> QED
        BY <1>2, <1>6, <3>1, <3>5, OptsSettle
    <2> QED
      BY <2>1, <2>2
  <1>11. CASE OptsCopyAssign(o, p) /\ (o = p \/ opts[p].impl # NULL)
    <2>1. CASE o = p
      BY <1>8, <1>11, <2>1 DEF OptsCopyAssign
    <2>2. CASE o # p
      <3> DEFINE r == line_sender_opts_clone(f.heap, opts[p].impl)
                 m == [heap |-> r.heap, ret |-> r.ret, out |-> Returned, ub |-> r.ub]
      <3>1. /\ Leaves(After(Then(f, r))) /\ opts[p] # Dead /\ opts[p].impl # NULL
            /\ snds' = snds /\ opts' = [opts EXCEPT ![o] = Handle(r.ret)]
        BY <1>4, <1>11, <2>2 DEF OptsCopyAssign, Alive
      <3>2. cs[o] = Handle(NULL) /\ cs[p] = opts[p]
        BY <1>7, <2>2
      <3>3. opts[p].impl \in Of(f.heap, "opts")
        <4>1. cs[p] # Dead /\ cs[p].impl # NULL
          BY <3>1, <3>2
        <4> HIDE DEF cs
        <4> QED
          BY <1>2, <3>2, <4>1, HandlePoints
      <3>4. m.heap = r.heap /\ m.ret = r.ret /\ m.out = Returned /\ m.ub = r.ub
        OBVIOUS
      <3>5. r = [heap |-> r.heap, ret |-> r.ret, err |-> r.err, ub |-> r.ub]
        BY DEF line_sender_opts_clone, Give, Return, Undefined
      <3> HIDE DEF m, r
      <3>6. Makes(f.heap, "opts", m)
        BY <1>2, <1>5, <3>3, <3>4, OptsCloned DEF r
      <3>7. After(Then(f, r)).heap = r.heap /\ After(Then(f, r)).ub = FALSE
        <4>1. r.ub = FALSE
          BY <3>4, <3>6 DEF Makes
        <4>2. Then(f, r).heap = r.heap /\ Then(f, r).ub = (r.ub \/ f.ub)
          BY <3>5 DEF Then
        <4>3. Then(f, r).ub = FALSE
          BY <1>2, <4>1, <4>2, Zenon
        <4> QED
          BY <4>2, <4>3 DEF After
      <3>8. r.ret \notin Of(f.heap, "opts") /\ r.ret \in Addr
        BY <3>4, <3>6 DEF Makes, Of, Freed
      <3>9. [cs EXCEPT ![o] = Handle(r.ret)] = [opts EXCEPT ![o] = Handle(r.ret)]
        BY <1>7
      <3>10. HandlesOk(r.heap, "opts", Opts, [cs EXCEPT ![o] = Handle(r.ret)])
        <4>1. Ptr(cs[o]) = NULL
          BY <3>2, HandleFacts
        <4>2. Of(r.heap, "opts") = Of(f.heap, "opts") \cup {r.ret}
          BY <3>4, <3>6 DEF Makes
        <4> HIDE DEF cs
        <4> QED
          BY <1>2, <3>8, <4>1, <4>2, HandleTakes
      <3>11. HandlesOk(r.heap, "opts", Opts, opts')
        BY <3>1, <3>9, <3>10, Zenon
      <3>12. IsHeap(r.heap) /\ OthersOf(heap, "opts", r.heap)
        BY <1>2, <3>4, <3>6 DEF Makes, OthersOf
      <3> QED
        BY <3>1, <3>7, <3>11, <3>12, OptsSettle
    <2> QED
      BY <2>1, <2>2
  <1> QED
    BY <1>9, <1>10, <1>11

\* A setter is called: its view threw, or the C function was called.
IsSet(o) ==
    /\ Alive(opts[o]) /\ opts' = opts /\ snds' = snds
    /\ \E v, r : \/ Leaves(utf8_view(heap, v))
                 \/ Leaves(wrapped_call(upd_opts(heap, opts[o].impl, r)))

\* Whatever it is, everything keeps its owner.
LEMMA SetFares ==
    ASSUME AllOk(heap, bufs, opts, snds), Room(heap), NEW o \in Opts,
           IsSet(o), opts[o].impl # NULL \/ ub' # TRUE
    PROVE  AllFares
  <1>1. IsHeap(heap) /\ HandlesOk(heap, "opts", Opts, opts)
    BY DEF AllOk, BuffersOk
  <1>2. PICK v, r : \/ Leaves(utf8_view(heap, v))
                    \/ Leaves(wrapped_call(upd_opts(heap, opts[o].impl, r)))
    BY DEF IsSet
  <1>3. opts' = opts /\ snds' = snds
    BY DEF IsSet
  <1>4. CASE Leaves(utf8_view(heap, v))
    <2>1. Keeps(heap, utf8_view(heap, v))
      BY <1>1, ViewFacts DEF Keeps, SameObjects
    <2> QED
      BY <1>3, <1>4, <2>1, AllSettle
  <1>5. CASE Leaves(wrapped_call(upd_opts(heap, opts[o].impl, r)))
    <2>1. opts[o].impl # NULL
      <3>1. wrapped_call(upd_opts(heap, NULL, r)).ub = TRUE
        BY DEF wrapped_call, upd_opts, Points, Undefined
      <3> QED
        BY <1>5, <3>1 DEF Leaves
    <2>2. opts[o].impl \in Of(heap, "opts")
      BY <1>1, <2>1, HandlePoints DEF IsSet, Alive
    <2>3. Keeps(heap, wrapped_call(upd_opts(heap, opts[o].impl, r)))
      BY <1>1, <2>2, OptsCalled
    <2> QED
      BY <1>3, <1>5, <2>3, AllSettle
  <1> QED
    BY <1>2, <1>4, <1>5

\* The setter of class opts through OptsCall.
LEMMA SetWithIs ==
    ASSUME NEW o \in Opts, NEW v, NEW s, NEW r,
           Alive(opts[o]), UNCHANGED <<opts, snds>>,
           \/ Leaves(utf8_view(heap, v))
           \/ r = OptsCall(heap, opts[o].impl, s, v) /\ Leaves(wrapped_call(r))
    PROVE  IsSet(o)
  BY DEF IsSet, OptsCall

\* The setters.
LEMMA SettersSet ==
    ASSUME NEW o \in Opts, OptsSet(o)
    PROVE  IsSet(o)
  <1>1. CASE bind_interface(o)
    BY <1>1, SetWithIs DEF bind_interface, SetWith, line_sender_opts_bind_interface
  <1>2. CASE username(o)
    BY <1>2, SetWithIs DEF username, SetWith, line_sender_opts_username
  <1>3. CASE password(o)
    BY <1>3, SetWithIs DEF password, SetWith, line_sender_opts_password
  <1>4. CASE token(o)
    BY <1>4, SetWithIs DEF token, SetWith, line_sender_opts_token
  <1>5. CASE token_x(o)
    BY <1>5, SetWithIs DEF token_x, SetWith, line_sender_opts_token_x
  <1>6. CASE token_y(o)
    BY <1>6, SetWithIs DEF token_y, SetWith, line_sender_opts_token_y
  <1>7. CASE auth_timeout(o)
    BY <1>7, SetWithIs DEF auth_timeout, SetWith, line_sender_opts_auth_timeout
  <1>8. CASE tls_verify(o)
    BY <1>8, SetWithIs DEF tls_verify, SetWith, line_sender_opts_tls_verify
  <1>9. CASE tls_ca(o)
    BY <1>9, SetWithIs DEF tls_ca, SetWith, line_sender_opts_tls_ca
  <1>10. CASE opts_tls_roots(o)
    BY <1>10, SetWithIs DEF opts_tls_roots, SetWith, line_sender_opts_tls_roots
  <1>11. CASE max_buf_size(o)
    BY <1>11, SetWithIs DEF max_buf_size, SetWith, line_sender_opts_max_buf_size
  <1>12. CASE retry_timeout(o)
    BY <1>12, SetWithIs DEF retry_timeout, SetWith, line_sender_opts_retry_timeout
  <1>13. CASE request_min_throughput(o)
    BY <1>13, SetWithIs
       DEF request_min_throughput, SetWith, line_sender_opts_request_min_throughput
  <1>14. CASE request_timeout(o)
    BY <1>14, SetWithIs DEF request_timeout, SetWith, line_sender_opts_request_timeout
  <1> QED
    BY <1>1, <1>2, <1>3, <1>4, <1>5, <1>6, <1>7,
       <1>8, <1>9, <1>10, <1>11, <1>12, <1>13, <1>14 DEF OptsSet

-----------------------------------------------------------------------------
(***************************************************************************)
(* Statements about senders.                                               *)
(***************************************************************************)
\* line_sender_build gives a sender or an error.
LEMMA BuildMakes ==
    ASSUME NEW h, IsHeap(h), Room(h), NEW o \in Of(h, "opts"), NEW net
    PROVE  LET b == wrapped_call(line_sender_build(h, o, net))
           IN  Makes(h, "sender", b) \/ Throws(h, b)
  <1> DEFINE c == h[o].builder
             x == line_sender(NewSender(c))
             b == wrapped_call(line_sender_build(h, o, net))
  <1>1. line_sender_build(h, o, net) = GiveSender(h, c, net)
    BY DEF line_sender_build, Points, Of, NULL
  <1>2. CASE build(c, net) = "Ok"
    <2>1. Shaped(x) /\ x # Freed /\ x.kind = "sender"
      BY DEF Shaped, line_sender, Freed
    <2>2. b = wrapped_call(Give(h, x))
      BY <1>1, <1>2 DEF GiveSender
    <2> HIDE DEF x
    <2> QED
      BY <2>1, <2>2, GiveMakes
  <1>3. CASE build(c, net) # "Ok"
    <2>1. b = wrapped_call(Fail(h, build(c, net), NULL))
      BY <1>1, <1>3 DEF GiveSender
    <2> QED
      BY <2>1, FailThrows
  <1> QED
    BY <1>2, <1>3

\* A heap in which the objects are those of h, and a sender that v takes.
LEMMA SenderTaken ==
    ASSUME AllOk(heap, bufs, opts, snds), NEW s \in Senders, snds[s] = Dead,
           NEW b, NEW r, Leaves(r), opts' = opts, r.ub = FALSE, IsHeap(r.heap),
           OthersOf(heap, "sender", r.heap),
           snds' = IF b.out = Returned THEN [snds EXCEPT ![s] = Handle(b.ret)] ELSE snds,
           \/ b.out = Returned /\ b.ret \in Addr /\ b.ret \notin Of(heap, "sender")
                /\ Of(r.heap, "sender") = Of(heap, "sender") \cup {b.ret}
           \/ b.out # Returned /\ Of(r.heap, "sender") = Of(heap, "sender")
    PROVE  AllFares
  <1>1. HandlesOk(heap, "sender", Senders, snds) /\ Ptr(snds[s]) = NULL
    BY DEF AllOk, Ptr
  <1>2. HandlesOk(r.heap, "sender", Senders, snds')
    <2>1. CASE b.out = Returned
      BY <1>1, <2>1, HandleTakes
    <2>2. CASE b.out # Returned
      BY <1>1, <2>2, HandlesStay
    <2> QED
      BY <2>1, <2>2
  <1> QED
    BY <1>2, SendersSettle

\* A sender built from a temporary opts, which is freed in both cases.
LEMMA BuiltFromTemporary ==
    ASSUME AllOk(heap, bufs, opts, snds), RoomForTwo(heap), NEW s \in Senders,
           NEW r, Makes(heap, "opts", r) \/ Throws(heap, r), NEW net,
           Built(s, r, TRUE, net)
    PROVE  AllFares
  <1> DEFINE b == wrapped_call(line_sender_build(r.heap, r.ret, net))
             f == Drop(b.heap, r.ret, "opts")
             m == [heap |-> f.heap, out |-> b.out, ub |-> r.ub \/ b.ub \/ f.ub]
  <1>1. IsHeap(heap) /\ snds[s] = Dead /\ opts' = opts
    BY DEF AllOk, BuffersOk, Built, Alive
  <1>2. CASE Throws(heap, r)
    <2>1. Leaves(r) /\ snds' = snds
      BY <1>2 DEF Built, Throws
    <2> QED
      BY <1>1, <1>2, <2>1, AllSettle DEF Throws
  <1>3. CASE Makes(heap, "opts", r)
    <2>1. /\ Leaves(m)
          /\ snds' = IF b.out = Returned THEN [snds EXCEPT ![s] = Handle(b.ret)] ELSE snds
      BY <1>3 DEF Built, Makes, line_sender_opts_free
    <2>2. Room(r.heap)
      BY <1>1, <1>3, RoomLeft DEF Kinds
    <2>3. IsHeap(r.heap) /\ r.ret \in Of(r.heap, "opts")
      BY <1>3 DEF Makes
    <2>4. Makes(r.heap, "sender", b) \/ Throws(r.heap, b)
      BY <2>2, <2>3, BuildMakes
    <2>5. /\ m.heap = f.heap /\ m.ub = (r.ub \/ b.ub \/ f.ub)
      OBVIOUS
    <2> HIDE DEF b, m
    <2>6. b.ub = FALSE /\ IsHeap(b.heap) /\ OthersOf(r.heap, "sender", b.heap)
      BY <2>4 DEF Makes, Throws, Keeps, SameObjects, OthersOf
    <2>7. r.ret \in Of(b.heap, "opts")
      BY <2>3, <2>6 DEF OthersOf, Kinds
    <2>8. Frees(b.heap, "opts", r.ret, f)
      BY <2>6, <2>7, DropFacts DEF Kinds
    <2> HIDE DEF f
    <2>9. /\ f.ub = FALSE /\ IsHeap(f.heap)
          /\ Of(f.heap, "opts") = Of(b.heap, "opts") \ {r.ret}
          /\ \A k \in {"error", "buffer", "sender"} : Of(f.heap, k) = Of(b.heap, k)
      BY <2>8 DEF Frees, Kinds
    <2>10. m.ub = FALSE
      <3>1. r.ub = FALSE
        BY <1>3 DEF Makes
      <3> QED
        BY <2>5, <2>6, <2>9, <3>1, Zenon
    <2>11. /\ Of(r.heap, "opts") = Of(heap, "opts") \cup {r.ret}
           /\ r.ret \notin Of(heap, "opts")
           /\ \A k \in {"error", "buffer", "sender"} : Of(r.heap, k) = Of(heap, k)
      BY <1>3 DEF Makes, OthersOf, Kinds, Of, Freed
    <2>12. OthersOf(heap, "sender", f.heap)
      <3>1. \A k \in {"error", "buffer", "opts"} : Of(b.heap, k) = Of(r.heap, k)
        BY <2>6 DEF OthersOf, Kinds
      <3>2. Of(f.heap, "opts") = Of(heap, "opts")
        BY <2>9, <2>11, <3>1
      <3> QED
        BY <2>9, <2>11, <3>1, <3>2 DEF OthersOf, Kinds
    <2>13. \/ b.out = Returned /\ b.ret \in Addr /\ b.ret \notin Of(heap, "sender")
                /\ Of(f.heap, "sender") = Of(heap, "sender") \cup {b.ret}
           \/ b.out # Returned /\ Of(f.heap, "sender") = Of(heap, "sender")
      <3>1. CASE Makes(r.heap, "sender", b)
        <4>1. b.ret \notin Of(r.heap, "sender")
          BY <3>1 DEF Makes, Of, Freed
        <4> QED
          BY <2>9, <2>11, <3>1, <4>1 DEF Makes
      <3>2. CASE Throws(r.heap, b)
        BY <2>9, <2>11, <3>2 DEF Throws, Keeps, SameObjects, Kinds
      <3> QED
        BY <2>4, <3>1, <3>2
    <2> QED
      BY <1>1, <2>1, <2>5, <2>9, <2>10, <2>12, <2>13, SenderTaken
  <1> QED
    BY <1>2, <1>3

\* A sender built from options that stay.
LEMMA BuiltFromOpts ==
    ASSUME AllOk(heap, bufs, opts, snds), Room(heap), NEW s \in Senders, NEW o \in Opts,
           NEW net, SenderFromOpts(s, o, net), opts[o].impl # NULL
    PROVE  AllFares
  <1> DEFINE b == wrapped_call(line_sender_build(heap, opts[o].impl, net))
             r == [heap |-> heap, ret |-> opts[o].impl, out |-> Returned, ub |-> FALSE]
             m == [heap |-> Void(b.heap).heap, out |-> b.out,
                   ub |-> r.ub \/ b.ub \/ Void(b.heap).ub]
  <1>1. IsHeap(heap) /\ snds[s] = Dead /\ opts' = opts /\ Alive(opts[o])
    BY DEF AllOk, BuffersOk, SenderFromOpts, Built, Alive
  <1>2. opts[o].impl \in Of(heap, "opts")
    BY <1>1, HandlePoints DEF Alive, AllOk
  <1>3. Makes(heap, "sender", b) \/ Throws(heap, b)
    BY <1>1, <1>2, BuildMakes
  <1>4. r.heap = heap /\ r.ret = opts[o].impl /\ r.out = Returned /\ r.ub = FALSE
    OBVIOUS
  <1>5. Built(s, r, FALSE, net)
    BY DEF SenderFromOpts
  <1> HIDE DEF r
  <1>6. /\ Leaves(m)
        /\ snds' = IF b.out = Returned THEN [snds EXCEPT ![s] = Handle(b.ret)] ELSE snds
    BY <1>4, <1>5 DEF Built
  <1>7. m.heap = b.heap /\ m.ub = FALSE
    <2>1. Void(b.heap).heap = b.heap /\ Void(b.heap).ub = FALSE
      BY DEF Void, Return
    <2>2. b.ub = FALSE
      BY <1>3 DEF Makes, Throws, Keeps
    <2>3. m.heap = Void(b.heap).heap /\ m.ub = (r.ub \/ b.ub \/ Void(b.heap).ub)
      OBVIOUS
    <2> QED
      BY <1>4, <2>1, <2>2, <2>3, Zenon
  <1> HIDE DEF b, m
  <1>8. IsHeap(b.heap) /\ OthersOf(heap, "sender", b.heap)
    BY <1>3 DEF Makes, Throws, Keeps, SameObjects, OthersOf
  <1>9. \/ b.out = Returned /\ b.ret \in Addr /\ b.ret \notin Of(heap, "sender")
             /\ Of(b.heap, "sender") = Of(heap, "sender") \cup {b.ret}
        \/ b.out # Returned /\ Of(b.heap, "sender") = Of(heap, "sender")
    <2>1. CASE Makes(heap, "sender", b)
      <3>1. b.ret \notin Of(heap, "sender")
        BY <2>1 DEF Makes, Of, Freed
      <3> QED
        BY <2>1, <3>1 DEF Makes
    <2>2. CASE Throws(heap, b)
      BY <2>2 DEF Throws, Keeps, SameObjects, Kinds
    <2> QED
      BY <1>3, <2>1, <2>2
  <1> QED
    BY <1>1, <1>6, <1>7, <1>8, <1>9, SenderTaken

\* The constructors of line_sender.
LEMMA SendersBuilt ==
    ASSUME AllOk(heap, bufs, opts, snds), RoomForTwo(heap), NEW s \in Senders, NEW net,
           \/ \E p \in Ps : SenderNew(s, p, net) \/ SenderNewService(s, p, net)
           \/ \E c \in Confs : SenderFromConf(s, c, net) \/ SenderFromEnv(s, c, net)
           \/ \E o \in Opts : SenderFromOpts(s, o, net) /\ opts[o].impl # NULL
    PROVE  AllFares
  <1>1. IsHeap(heap) /\ Room(heap)
    BY DEF AllOk, BuffersOk, Room, RoomForTwo
  <1>2. ASSUME NEW p, SenderNew(s, p, net) \/ SenderNewService(s, p, net) PROVE AllFares
    BY <1>1, <1>2, NewMakes, BuiltFromTemporary DEF SenderNew, SenderNewService
  <1>3. ASSUME NEW c, SenderFromConf(s, c, net) \/ SenderFromEnv(s, c, net) PROVE AllFares
    BY <1>1, <1>3, ConfMakes, BuiltFromTemporary DEF SenderFromConf, SenderFromEnv
  <1>4. ASSUME NEW o \in Opts, SenderFromOpts(s, o, net), opts[o].impl # NULL
        PROVE  AllFares
    BY <1>1, <1>4, BuiltFromOpts
  <1> QED
    BY <1>2, <1>3, <1>4

\* Moving, closing, destroying and asking a sender.
LEMMA SendersMoved ==
    ASSUME AllOk(heap, bufs, opts, snds), NEW s \in Senders, NEW t \in Senders,
           \/ SenderMove(s, t) \/ SenderMoveAssign(s, t)
           \/ Close(s) \/ SenderDestroy(s) \/ MustClose(s)
    PROVE  AllFares
  <1> DEFINE f == Drop(heap, snds[s].impl, "sender")
             cs == [snds EXCEPT ![s] = Handle(NULL)]
  <1>1. IsHeap(heap) /\ HandlesOk(heap, "sender", Senders, snds) /\ opts' = opts
    BY DEF AllOk, BuffersOk, SenderMove, SenderMoveAssign, Close, SenderDestroy, MustClose
  <1>2. snds = [x \in Senders |-> snds[x]]
    BY <1>1 DEF HandlesOk
  <1>3. ASSUME snds[s] # Dead
        PROVE  /\ f.ub = FALSE /\ IsHeap(f.heap) /\ OthersOf(heap, "sender", f.heap)
               /\ HandlesOk(f.heap, "sender", Senders, cs)
               /\ HandlesOk(f.heap, "sender", Senders, [snds EXCEPT ![s] = Dead])
    <2>1. \A o \in {Dead, Handle(NULL)} :
             /\ f.ub = FALSE /\ IsHeap(f.heap) /\ OthersOf(heap, "sender", f.heap)
             /\ HandlesOk(f.heap, "sender", Senders, [snds EXCEPT ![s] = o])
      <3> SUFFICES ASSUME NEW o, o = Dead \/ o = Handle(NULL)
                   PROVE  /\ f.ub = FALSE /\ IsHeap(f.heap)
                          /\ OthersOf(heap, "sender", f.heap)
                          /\ HandlesOk(f.heap, "sender", Senders, [snds EXCEPT ![s] = o])
        OBVIOUS
      <3> QED
        BY <1>1, <1>3, HandleFrees DEF Kinds
    <2> HIDE DEF f
    <2> QED
      BY <2>1
  <1>4. Closed(heap, snds[s]) = f
    BY ResetFacts
  <1>5. After(f).heap = f.heap /\ After(f).ub = f.ub
    BY DEF After
  <1> HIDE DEF f
  <1>6. CASE SenderMove(s, t)
    <2>1. /\ snds[s] = Dead /\ snds[t] # Dead /\ s # t /\ Leaves(Done(heap))
          /\ snds' = [snds EXCEPT ![s] = snds[t], ![t] = Handle(NULL)]
      BY <1>6 DEF SenderMove, Alive
    <2>2. HandlesOk(heap, "sender", Senders,
                    [snds EXCEPT ![s] = snds[t], ![t] = Handle(NULL)])
      BY <1>1, <2>1, HandleMoves DEF Ptr
    <2>3. HandlesOk(heap, "sender", Senders, snds')
      BY <2>1, <2>2
    <2>4. /\ Done(heap).heap = heap /\ Done(heap).ub = FALSE
          /\ OthersOf(heap, "sender", heap)
      BY <1>1, DoneKeeps DEF OthersOf
    <2> QED
      BY <1>1, <2>1, <2>3, <2>4, SendersSettle
  <1>7. CASE SenderMoveAssign(s, t)
    <2>1. snds[s] # Dead /\ snds[t] # Dead
      BY <1>7 DEF SenderMoveAssign, Alive
    <2>2. CASE s = t
      <3>1. Leaves(Done(heap)) /\ snds' = snds
        BY <1>7, <2>2 DEF SenderMoveAssign
      <3> QED
        BY <1>1, <3>1, DoneKeeps, AllSettle
    <2>3. CASE s # t
      <3>1. /\ Leaves(After(f))
            /\ snds' = [snds EXCEPT ![s] = snds[t], ![t] = Handle(NULL)]
        BY <1>4, <1>7, <2>3 DEF SenderMoveAssign
      <3>2. cs[s] = Handle(NULL) /\ cs[t] = snds[t]
        BY <1>2, <2>3
      <3>3. [cs EXCEPT ![s] = cs[t], ![t] = Handle(NULL)]
              = [snds EXCEPT ![s] = snds[t], ![t] = Handle(NULL)]
        BY <1>2, <2>3
      <3> HIDE DEF cs
      <3>4. HandlesOk(f.heap, "sender", Senders,
                      [cs EXCEPT ![s] = cs[t], ![t] = Handle(NULL)])
        <4>1. Ptr(cs[s]) = NULL /\ cs[t] # Dead
          BY <2>1, <3>2, HandleFacts
        <4> QED
          BY <1>3, <2>1, <2>3, <4>1, HandleMoves
      <3>5. HandlesOk(f.heap, "sender", Senders, snds')
        BY <3>1, <3>3, <3>4, Zenon
      <3> QED
        BY <1>1, <1>3, <1>5, <2>1, <3>1, <3>5, SendersSettle
    <2> QED
      BY <2>2, <2>3
  <1>8. CASE Close(s)
    <2>1. Leaves(After(f)) /\ snds' = cs /\ snds[s] # Dead
      BY <1>4, <1>8 DEF Close, Alive
    <2>2. HandlesOk(f.heap, "sender", Senders, snds')
      BY <1>3, <2>1
    <2> QED
      BY <1>1, <1>3, <1>5, <2>1, <2>2, SendersSettle
  <1>9. CASE SenderDestroy(s)
    <2>1. Leaves(After(f)) /\ snds' = [snds EXCEPT ![s] = Dead] /\ snds[s] # Dead
      BY <1>4, <1>9 DEF SenderDestroy, Alive
    <2>2. HandlesOk(f.heap, "sender", Senders, snds')
      BY <1>3, <2>1
    <2> QED
      BY <1>1, <1>3, <1>5, <2>1, <2>2, SendersSettle
  <1>10. CASE MustClose(s)
    <2> DEFINE r == IF snds[s].impl = NULL THEN Return(heap, FALSE)
                    ELSE line_sender_must_close(heap, snds[s].impl)
               m == [heap |-> r.heap, out |-> <<"must_close", r.ret>>, ub |-> r.ub]
    <2>1. Leaves(m) /\ snds' = snds /\ snds[s] # Dead
      BY <1>10 DEF MustClose, Alive
    <2>2. snds[s].impl = NULL \/ snds[s].impl \in Of(heap, "sender")
      BY <1>1, <2>1, HandlePoints
    <2>3. r.heap = heap /\ r.ub = FALSE
      BY <2>2 DEF Return, line_sender_must_close, Points, Of
    <2>4. m.heap = r.heap /\ m.ub = r.ub
      OBVIOUS
    <2> HIDE DEF m, r
    <2>5. Keeps(heap, m)
      BY <1>1, <2>3, <2>4 DEF Keeps, SameObjects
    <2> QED
      BY <1>1, <2>1, <2>5, AllSettle
  <1> QED
    BY <1>6, <1>7, <1>8, <1>9, <1>10

\* A flush through C and C++ changes the sender and the buffer, and may fail.
LEMMA FlushCalled ==
    ASSUME NEW h, IsHeap(h), Room(h), NEW s \in Of(h, "sender"), NEW b \in Of(h, "buffer"),
           NEW keep, NEW net
    PROVE  Keeps(h, wrapped_call(Flush(h, s, b, keep, net)))
  <1> DEFINE r == flush_impl(h[s].sender, h[b].buf, keep, FALSE, net, MaxBufSize)
             x == line_sender(r.sender)
             y == line_sender_buffer(r.buf, h[b].max_name_len)
             g == [h EXCEPT ![s] = x]
             w == [g EXCEPT ![b] = y]
  <1> HIDE DEF r
  <1>1. /\ s \in Addr /\ h[s].kind = "sender" /\ s # NULL /\ Shaped(h[s])
        /\ b \in Addr /\ h[b].kind = "buffer" /\ b # NULL /\ Shaped(h[b]) /\ s # b
        /\ h = [a \in Addr |-> h[a]]
    BY DEF Of, NULL, IsHeap
  <1>2. /\ h[s] = line_sender(h[s].sender)
        /\ h[b] = line_sender_buffer(h[b].buf, h[b].max_name_len)
    BY <1>1, ShapeFacts
  <1>3. [h[s] EXCEPT !.sender = r.sender] = x /\ [h[b] EXCEPT !.buf = r.buf] = y
    BY <1>2 DEF line_sender, line_sender_buffer
  <1>4. [h EXCEPT ![s].sender = r.sender, ![b].buf = r.buf] = w
    <2>1. [h EXCEPT ![s].sender = r.sender, ![b].buf = r.buf]
            = [a \in Addr |-> IF a = b THEN [h[b] EXCEPT !.buf = r.buf]
                              ELSE IF a = s THEN [h[s] EXCEPT !.sender = r.sender] ELSE h[a]]
      BY <1>1
    <2> HIDE DEF x, y
    <2>2. w = [a \in Addr |-> IF a = b THEN y ELSE IF a = s THEN x ELSE h[a]]
      BY <1>1
    <2> HIDE DEF w
    <2> QED
      BY <1>3, <2>1, <2>2
  <1>5. Shaped(x) /\ x.kind = h[s].kind
    BY <1>1 DEF Shaped, line_sender
  <1>6. Shaped(y) /\ y.kind = "buffer"
    BY DEF Shaped, line_sender_buffer
  <1>7. wrapped_call(Flush(h, s, b, keep, net))
          = wrapped_call(IF r.res = "Ok" THEN Return(w, true) ELSE Fail(w, r.res, false))
    BY <1>1, <1>4 DEF Flush, Points, r
  <1> HIDE DEF x, y
  <1>8. IsHeap(g) /\ SameObjects(h, g)
    BY <1>1, <1>5, Replaced
  <1>9. g[b].kind = "buffer"
    BY <1>1
  <1> HIDE DEF g
  <1>10. IsHeap(w) /\ SameObjects(g, w)
    BY <1>1, <1>6, <1>8, <1>9, Replaced
  <1> HIDE DEF w
  <1>11. IsHeap(w) /\ SameObjects(h, w)
    BY <1>8, <1>10 DEF SameObjects
  <1> QED
    BY <1>7, <1>11, CallKeeps

\* The end of a statement about a buffer: the handles stay.
LEMMA FaresWell ==
    ASSUME AllOk(heap, bufs, opts, snds), Fares, opts' = opts, snds' = snds
    PROVE  AllFares
  <1>1. /\ BuffersOk(heap', bufs') /\ ub' = FALSE
        /\ Of(heap', "opts") = Of(heap, "opts") /\ Of(heap', "sender") = Of(heap, "sender")
    BY DEF Fares, OthersStay
  <1>2. HandlesOk(heap', "opts", Opts, opts)
    BY <1>1, HandlesStay DEF AllOk
  <1>3. HandlesOk(heap', "sender", Senders, snds)
    BY <1>1, HandlesStay DEF AllOk
  <1> QED
    BY <1>1, <1>2, <1>3 DEF AllFares, AllOk

\* Room for two objects is room for what a buffer needs.
LEMMA TwoAmple ==
    ASSUME NEW h, NEW bs, RoomForTwo(h)
    PROVE  Room(h) /\ Ample(h, bs)
  BY DEF Room, RoomForTwo, Ample

\* flush().
LEMMA FlushFares ==
    ASSUME AllOk(heap, bufs, opts, snds), RoomForTwo(heap),
           NEW s \in Senders, NEW v \in Bufs, NEW net, SenderFlush(s, v, net)
    PROVE  AllFares
  <1> DEFINE i == may_init(heap, bufs[v])
             c == snds[s].impl
             w == wrapped_call(line_sender_flush(i.heap, c, i.obj.impl, net))
             r == IF c = NULL THEN SenderClosed(i.heap) ELSE w
  <1>1. /\ snds[s] # Dead /\ bufs[v] # Dead /\ Ends(v, i.obj, r)
        /\ opts' = opts /\ snds' = snds
    BY DEF SenderFlush, Alive, Live
  <1>2. BuffersOk(heap, bufs) /\ Ample(heap, bufs)
    BY TwoAmple DEF AllOk
  <1>3. /\ IsHeap(i.heap) /\ Of(i.heap, "error") = {} /\ Room(i.heap)
        /\ IsBuf(i.obj) /\ Ptr(i.obj) = i.obj.impl
        /\ i.obj.impl \in Of(i.heap, "buffer")
        /\ OthersStay(heap, i.heap)
        /\ Owns(Of(i.heap, "buffer"), [BufPtrs(bufs) EXCEPT ![v] = Ptr(i.obj)], Bufs)
    BY <1>1, <1>2, InitFacts
  <1> HIDE DEF i
  <1>4. Keeps(i.heap, r)
    <2>1. CASE c = NULL
      BY <1>3, <2>1 DEF SenderClosed, Keeps, SameObjects
    <2>2. CASE c # NULL
      <3>1. c \in Of(heap, "sender")
        BY <1>1, <2>2, HandlePoints DEF AllOk
      <3>2. c \in Of(i.heap, "sender")
        BY <1>3, <3>1 DEF OthersStay
      <3>3. Keeps(i.heap, w)
        BY <1>3, <3>2, FlushCalled DEF line_sender_flush
      <3> HIDE DEF w
      <3> QED
        BY <2>2, <3>3
    <2> QED
      BY <2>1, <2>2
  <1> HIDE DEF r
  <1>5. /\ r.ub = FALSE /\ IsHeap(r.heap) /\ Of(r.heap, "error") = {}
        /\ OthersStay(heap, r.heap) /\ Of(r.heap, "buffer") = Of(i.heap, "buffer")
    BY <1>3, <1>4 DEF Keeps, SameObjects, Kinds, OthersStay
  <1>6. Fares
    BY <1>1, <1>2, <1>3, <1>5, EndsFares
  <1> QED
    BY <1>1, <1>6, FaresWell

\* A buffer for a flush: a new one, which nothing owns.
LEMMA StandIn ==
    ASSUME NEW h, IsHeap(h), Room(h), NEW n
    PROVE  LET i == may_init(h, Object(NULL, n))
           IN  Makes(h, "buffer", [heap |-> i.heap, ret |-> i.obj.impl,
                                   out |-> Returned, ub |-> FALSE])
  <1> DEFINE o == Object(NULL, n)
             x == line_sender_buffer(NewBuffer, n)
             r == Give(h, x)
             i == may_init(h, o)
             m == [heap |-> i.heap, ret |-> i.obj.impl, out |-> Returned, ub |-> FALSE]
  <1>1. Shaped(x) /\ x # Freed /\ x.kind = "buffer"
    BY DEF Shaped, line_sender_buffer, Freed
  <1>2. o.impl = NULL /\ o.max_name_len = n
    BY DEF Object
  <1>3. line_sender_buffer_with_max_name_len(h, n) = r
    BY DEF line_sender_buffer_with_max_name_len, x
  <1> HIDE DEF x
  <1>4. Gave(h, x, r)
    BY <1>1, GiveFacts
  <1> HIDE DEF r
  <1>5. line_sender_buffer_reserve(r.heap, r.ret).heap = r.heap
    BY DEF line_sender_buffer_reserve, Read, Return, Undefined
  <1>6. [o EXCEPT !.impl = r.ret] = Object(r.ret, n)
    BY DEF Object
  <1> HIDE DEF o
  <1>7. i = [heap |-> r.heap, obj |-> Object(r.ret, n)]
    BY <1>2, <1>3, <1>5, <1>6 DEF may_init
  <1>8. i.heap = r.heap /\ i.obj.impl = r.ret
    BY <1>7 DEF Object
  <1> HIDE DEF i
  <1>9. m.heap = r.heap /\ m.ret = r.ret /\ m.out = Returned /\ m.ub = FALSE
    BY <1>8
  <1> HIDE DEF m
  <1>10. Makes(h, "buffer", m)
    BY <1>1, <1>4, <1>9 DEF Makes, Gave, OthersOf
  <1> QED
    BY <1>10 DEF m, i, o

\* flush_and_keep(): the stand-in for a null buffer is freed again.
LEMMA KeepFares ==
    ASSUME AllOk(heap, bufs, opts, snds), RoomForTwo(heap),
           NEW s \in Senders, NEW v \in Bufs, NEW net, SenderFlushAndKeep(s, v, net),
           bufs[v].impl # NULL \/ snds[s].impl # NULL
    PROVE  AllFares
  <1> DEFINE i == may_init(heap, Object(NULL, 127))
             b == bufs[v].impl
             c == snds[s].impl
             r == wrapped_call(line_sender_flush_and_keep(i.heap, c, i.obj.impl, net))
             f == line_sender_buffer_free(r.heap, i.obj.impl)
             m == [heap |-> f.heap, out |-> r.out, ub |-> r.ub \/ f.ub]
             w == wrapped_call(line_sender_flush_and_keep(heap, c, b, net))
             e == IF b = NULL THEN m ELSE IF c = NULL THEN SenderClosed(heap) ELSE w
  <1>1. /\ snds[s] # Dead /\ bufs[v] # Dead /\ Ends(v, bufs[v], e)
        /\ b # NULL \/ c # NULL
        /\ opts' = opts /\ snds' = snds
    BY DEF SenderFlushAndKeep, Alive, Live
  <1>2. BuffersOk(heap, bufs) /\ IsHeap(heap) /\ Room(heap)
    BY TwoAmple DEF AllOk, BuffersOk
  <1>3. c # NULL => c \in Of(heap, "sender")
    BY <1>1, HandlePoints DEF AllOk
  <1>4. b # NULL => b \in Of(heap, "buffer")
    BY <1>1, <1>2, LivePoints
  <1>5. Keeps(heap, e)
    <2>1. CASE b = NULL
      <3> DEFINE n == [heap |-> i.heap, ret |-> i.obj.impl, out |-> Returned, ub |-> FALSE]
      <3>1. Makes(heap, "buffer", n)
        BY <1>2, StandIn
      <3>2. n.heap = i.heap /\ n.ret = i.obj.impl
        OBVIOUS
      <3> HIDE DEF i, n
      <3>3. Room(i.heap)
        BY <1>2, <3>1, <3>2, RoomLeft DEF Kinds
      <3>4. /\ IsHeap(i.heap) /\ i.obj.impl \in Of(i.heap, "buffer")
            /\ Of(i.heap, "buffer") = Of(heap, "buffer") \cup {i.obj.impl}
            /\ i.obj.impl \notin Of(heap, "buffer")
            /\ \A k \in {"error", "opts", "sender"} : Of(i.heap, k) = Of(heap, k)
        BY <3>1, <3>2 DEF Makes, OthersOf, Kinds, Of, Freed
      <3>5. c \in Of(i.heap, "sender")
        BY <1>1, <1>3, <2>1, <3>4
      <3>6. Keeps(i.heap, r)
        BY <3>3, <3>4, <3>5, FlushCalled DEF line_sender_flush_and_keep
      <3> HIDE DEF r
      <3>7. /\ r.ub = FALSE /\ IsHeap(r.heap)
            /\ \A k \in Kinds : Of(r.heap, k) = Of(i.heap, k)
        BY <3>6 DEF Keeps, SameObjects
      <3>8. Frees(r.heap, "buffer", i.obj.impl, f)
        BY <3>4, <3>7, DropFacts DEF line_sender_buffer_free, Kinds
      <3>9. m.heap = f.heap /\ m.ub = (r.ub \/ f.ub) /\ e = m
        BY <2>1
      <3> HIDE DEF f, m
      <3>10. f.ub = FALSE /\ IsHeap(f.heap)
        BY <3>8 DEF Frees
      <3>11. m.ub = FALSE
        BY <3>7, <3>9, <3>10, Zenon
      <3>12. SameObjects(heap, f.heap)
        <4>1. /\ Of(f.heap, "buffer") = Of(r.heap, "buffer") \ {i.obj.impl}
              /\ \A k \in {"error", "opts", "sender"} : Of(f.heap, k) = Of(r.heap, k)
          BY <3>8 DEF Frees, Kinds
        <4>2. Of(f.heap, "buffer") = Of(heap, "buffer")
          BY <3>4, <3>7, <4>1 DEF Kinds
        <4>3. \A k \in {"error", "opts", "sender"} : Of(f.heap, k) = Of(heap, k)
          BY <3>4, <3>7, <4>1 DEF Kinds
        <4> QED
          BY <4>2, <4>3 DEF SameObjects, Kinds
      <3> QED
        BY <3>9, <3>10, <3>11, <3>12 DEF Keeps
    <2>2. CASE b # NULL /\ c = NULL
      BY <1>2, <2>2 DEF SenderClosed, Keeps, SameObjects
    <2>3. CASE b # NULL /\ c # NULL
      <3>1. Keeps(heap, w)
        BY <1>2, <1>3, <1>4, <2>3, FlushCalled DEF line_sender_flush_and_keep
      <3> HIDE DEF w, m
      <3> QED
        BY <2>3, <3>1
    <2> QED
      BY <2>1, <2>2, <2>3
  <1> HIDE DEF e
  <1>6. Fares
    BY <1>1, <1>2, <1>5, KeepsFares
  <1> QED
    BY <1>1, <1>6, FaresWell

-----------------------------------------------------------------------------
(***************************************************************************)
(* A program with buffers, options and senders.                            *)
(***************************************************************************)
AllInv ==
    /\ AllOk(heap, bufs, opts, snds)
    /\ ub = FALSE
    /\ Cardinality(Objects) <= MaxObjects

\* Owners of two classes together.
LEMMA OwnsBoth ==
    ASSUME NEW S, NEW p, NEW V, Owns(S, p, V), NEW T, NEW q, NEW W, Owns(T, q, W),
           V \cap W = {}, S \cap T = {}
    PROVE  Owns(S \cup T, [x \in V \cup W |-> IF x \in V THEN p[x] ELSE q[x]], V \cup W)
  <1> DEFINE m == [x \in V \cup W |-> IF x \in V THEN p[x] ELSE q[x]]
  <1>1. /\ \A x \in V : m[x] = p[x] /\ p[x] \in S \cup {NULL}
        /\ \A x \in W : m[x] = q[x] /\ q[x] \in T \cup {NULL}
        /\ m = [x \in V \cup W |-> m[x]]
    BY DEF Owns
  <1> HIDE DEF m
  <1>2. m \in [V \cup W -> (S \cup T) \cup {NULL}]
    BY <1>1
  <1>3. \A x, y \in V \cup W : m[x] = m[y] /\ m[x] # NULL => x = y
    BY <1>1 DEF Owns
  <1>4. \A a \in S \cup T : \E x \in V \cup W : m[x] = a
    BY <1>1 DEF Owns
  <1> QED
    BY <1>2, <1>3, <1>4 DEF Owns, m

\* Each object has a live variable, so that there is memory for two more.
LEMMA AllRoom ==
    ASSUME AllInv
    PROVE  RoomForTwo(heap)
  <1> DEFINE U1 == Of(heap, "buffer")
             U2 == Of(heap, "opts")
             U3 == Of(heap, "sender")
             p1 == BufPtrs(bufs)
             p2 == Ptrs(Opts, opts)
             p3 == Ptrs(Senders, snds)
             q == [x \in Bufs \cup Opts |-> IF x \in Bufs THEN p1[x] ELSE p2[x]]
             U == (U1 \cup U2) \cup U3
             V == (Bufs \cup Opts) \cup Senders
             p == [x \in V |-> IF x \in Bufs \cup Opts THEN q[x] ELSE p3[x]]
             T == {x \in V : p[x] # NULL}
  <1>1. /\ Owns(U1, p1, Bufs) /\ Owns(U2, p2, Opts) /\ Owns(U3, p3, Senders)
        /\ IsHeap(heap) /\ Of(heap, "error") = {}
    BY DEF AllInv, AllOk, BuffersOk, HandlesOk
  <1>2. /\ U1 \cap U2 = {} /\ (U1 \cup U2) \cap U3 = {} /\ U \subseteq Addr /\ NULL \notin U
    BY DEF Of, NULL
  <1>3. \A a \in Addr : a \notin U => heap[a] = Freed
    <2> SUFFICES ASSUME NEW a \in Addr, a \notin U PROVE heap[a] = Freed
      OBVIOUS
    <2>1. Shaped(heap[a]) /\ heap[a].kind \notin Kinds
      BY <1>1 DEF Of, Kinds, IsHeap
    <2> QED
      BY <2>1, ShapeFacts
  <1>4. /\ \A x \in Bufs : p[x] = Ptr(bufs[x])
        /\ \A x \in Opts \ Bufs : p[x] = Ptr(opts[x])
        /\ \A x \in Senders \ (Bufs \cup Opts) : p[x] = Ptr(snds[x])
    BY DEF BufPtrs, Ptrs
  <1>5. T \subseteq Objects /\ Objects \subseteq V
    <2>1. Ptr(Dead) = NULL
      BY DEF Ptr
    <2> HIDE DEF p
    <2>2. ASSUME NEW x \in T PROVE x \in Objects
      <3>1. CASE x \in Bufs
        BY <1>4, <2>1, <3>1 DEF Objects, Live
      <3>2. CASE x \in Opts \ Bufs
        BY <1>4, <2>1, <3>2 DEF Objects, Alive
      <3>3. CASE x \in Senders \ (Bufs \cup Opts)
        BY <1>4, <2>1, <3>3 DEF Objects, Alive
      <3> QED
        BY <3>1, <3>2, <3>3
    <2>3. Objects \subseteq V
      BY DEF Objects
    <2> QED
      BY <2>2, <2>3
  <1>6. IsFiniteSet(V)
    <2>1. IsFiniteSet(Bufs \cup Opts)
      BY FS_Union, AddrAssumption, VariablesAssumption
    <2> QED
      BY <2>1, FS_Union, VariablesAssumption
  <1> HIDE DEF U1, U2, U3, p1, p2, p3
  <1>7. Owns(U1 \cup U2, q, Bufs \cup Opts)
    BY <1>1, <1>2, OwnsBoth, VariablesAssumption
  <1> HIDE DEF q
  <1>8. Owns(U, p, V)
    <2>1. (Bufs \cup Opts) \cap Senders = {}
      BY VariablesAssumption
    <2> QED
      BY <1>1, <1>2, <1>7, <2>1, OwnsBoth
  <1> HIDE DEF p, U, V
  <1>9. PICK f : f \in Injection(U, T)
    BY <1>2, <1>8, OwnersInject
  <1> HIDE DEF T
  <1>10. IsFiniteSet(Objects)
    BY <1>5, <1>6, FS_Subset
  <1>11. IsFiniteSet(T) /\ Cardinality(T) <= Cardinality(Objects)
    BY <1>5, <1>10, FS_Subset
  <1>12. Cardinality(T) \in Nat /\ Cardinality(Objects) \in Nat /\ Cardinality(Addr) \in Nat
    BY <1>10, <1>11, FS_CardinalityType, AddrAssumption
  <1>13. Cardinality(Addr) > Cardinality(T) + 1
    <2>1. Cardinality(Objects) <= MaxObjects
      BY DEF AllInv
    <2> QED
      BY <1>11, <1>12, <2>1, VariablesAssumption
  <1>14. \E a, b \in Addr : a # b /\ a \notin U /\ b \notin U
    BY <1>2, <1>9, <1>11, <1>13, Counting
  <1> QED
    BY <1>3, <1>14 DEF RoomForTwo

\* At the start there is nothing.
LEMMA AllStart ==
    ASSUME SenderInit
    PROVE  AllInv
  <1>1. BuffersInv
    BY BuffersStart DEF SenderInit
  <1>2. /\ Ptrs(Opts, opts) = [v \in Opts |-> NULL]
        /\ Ptrs(Senders, snds) = [v \in Senders |-> NULL]
    BY DEF SenderInit, Ptrs, Ptr
  <1>3. Owns({}, Ptrs(Opts, opts), Opts) /\ Owns({}, Ptrs(Senders, snds), Senders)
    BY <1>2 DEF Owns
  <1>4. /\ opts = [v \in Opts |-> opts[v]] /\ \A v \in Opts : IsHandle(opts[v])
        /\ snds = [v \in Senders |-> snds[v]] /\ \A v \in Senders : IsHandle(snds[v])
    BY DEF SenderInit, IsHandle
  <1>5. Of(heap, "opts") = {} /\ Of(heap, "sender") = {} /\ BuffersOk(heap, bufs) /\ ub = FALSE
    BY <1>1 DEF BuffersInv
  <1>6. Objects = {}
    BY DEF SenderInit, Init, Objects, Alive, Live
  <1>7. Cardinality(Objects) <= MaxObjects
    BY <1>6, FS_EmptySet, VariablesAssumption
  <1> QED
    BY <1>3, <1>4, <1>5, <1>7 DEF AllInv, AllOk, HandlesOk

\* A statement that hands null to the C interface.
Astray == ub' = TRUE /\ UsesNull

\* The C functions that read what a null pointer points to are undefined.
LEMMA NullRead ==
    ASSUME NEW h, NEW net, NEW b
    PROVE  /\ line_sender_opts_clone(h, NULL) = Undefined(h)
           /\ line_sender_build(h, NULL, net) = Undefined(h)
           /\ line_sender_flush_and_keep(h, NULL, b, net) = Undefined(h)
           /\ Undefined(h).ub = TRUE
           /\ wrapped_call(Undefined(h)).ub = TRUE /\ wrapped_call(Undefined(h)).out = Returned
  <1>1. ~Points(h, NULL, "opts") /\ ~Points(h, NULL, "sender")
    BY DEF Points
  <1>2. /\ line_sender_opts_clone(h, NULL) = Undefined(h)
        /\ line_sender_build(h, NULL, net) = Undefined(h)
        /\ line_sender_flush_and_keep(h, NULL, b, net) = Undefined(h)
    BY <1>1 DEF line_sender_opts_clone, line_sender_build, line_sender_flush_and_keep, Flush
  <1>3. Undefined(h).ub = TRUE
    BY DEF Undefined
  <1>4. wrapped_call(Undefined(h)).ub = TRUE /\ wrapped_call(Undefined(h)).out = Returned
    BY <1>3 DEF wrapped_call
  <1> QED
    BY <1>2, <1>3, <1>4

\* What a statement that does not go astray has not read.
LEMMA NullSpared ==
    ASSUME AllOk(heap, bufs, opts, snds), ~Astray
    PROVE  /\ \A o, p \in Opts : OptsCopy(o, p) => opts[p].impl # NULL
           /\ \A o, p \in Opts : OptsCopyAssign(o, p) => o = p \/ opts[p].impl # NULL
           /\ \A o \in Opts : OptsSet(o) => opts[o].impl # NULL \/ ub' # TRUE
           /\ \A s \in Senders, o \in Opts, net \in BuildNet :
                SenderFromOpts(s, o, net) => opts[o].impl # NULL
           /\ \A s \in Senders, v \in Bufs, net \in FlushNet :
                SenderFlushAndKeep(s, v, net) => bufs[v].impl # NULL \/ snds[s].impl # NULL
  <1>1. ASSUME NEW o \in Opts, Alive(opts[o]), opts[o].impl = NULL
        PROVE  opts[o] = Handle(NULL)
    BY <1>1 DEF AllOk, HandlesOk, IsHandle, Alive
  <1>2. ASSUME NEW s \in Senders, Alive(snds[s]), snds[s].impl = NULL
        PROVE  snds[s] = Handle(NULL)
    BY <1>2 DEF AllOk, HandlesOk, IsHandle, Alive
  <1>3. ASSUME NEW o \in Opts, NEW p \in Opts, OptsCopy(o, p), opts[p].impl = NULL
        PROVE  FALSE
    <2>1. opts[p] = Handle(NULL)
      BY <1>1, <1>3 DEF OptsCopy
    <2>2. ub' = TRUE
      BY <1>3, NullRead DEF OptsCopy, OptsMade, Leaves
    <2> QED
      BY <1>3, <2>1, <2>2 DEF Astray, UsesNull
  <1>4. ASSUME NEW o \in Opts, NEW p \in Opts, OptsCopyAssign(o, p), o # p,
               opts[p].impl = NULL
        PROVE  FALSE
    <2> DEFINE f == reset(heap, opts[o])
               r == line_sender_opts_clone(f.heap, NULL)
    <2>1. opts[p] = Handle(NULL) /\ Leaves(After(Then(f, r)))
      BY <1>1, <1>4 DEF OptsCopyAssign
    <2>2. r.ub = TRUE /\ r = [heap |-> r.heap, ret |-> r.ret, err |-> r.err, ub |-> r.ub]
      BY DEF line_sender_opts_clone, Points, Undefined
    <2> HIDE DEF f, r
    <2>3. After(Then(f, r)).ub = TRUE
      <3>1. Then(f, r).ub = (r.ub \/ f.ub)
        BY <2>2 DEF Then
      <3>2. Then(f, r).ub = TRUE
        BY <2>2, <3>1, Zenon
      <3> QED
        BY <3>2 DEF After
    <2>4. ub' = TRUE
      BY <2>1, <2>3 DEF Leaves
    <2> QED
      BY <1>4, <2>1, <2>4 DEF Astray, UsesNull
  <1>5. ASSUME NEW o \in Opts, OptsSet(o), opts[o].impl = NULL
        PROVE  ub' # TRUE
    <2>1. opts[o] = Handle(NULL)
      BY <1>1, <1>5, SettersSet DEF IsSet
    <2> QED
      BY <1>5, <2>1 DEF Astray, UsesNull
  <1>6. ASSUME NEW s \in Senders, NEW o \in Opts, NEW net \in BuildNet,
               SenderFromOpts(s, o, net), opts[o].impl = NULL
        PROVE  FALSE
    <2> DEFINE r == [heap |-> heap, ret |-> opts[o].impl, out |-> Returned, ub |-> FALSE]
               b == wrapped_call(line_sender_build(r.heap, r.ret, net))
               m == [heap |-> Void(b.heap).heap, out |-> b.out,
                     ub |-> r.ub \/ b.ub \/ Void(b.heap).ub]
    <2>1. opts[o] = Handle(NULL) /\ Built(s, r, FALSE, net)
      BY <1>1, <1>6 DEF SenderFromOpts
    <2>2. r.heap = heap /\ r.ret = NULL /\ r.out = Returned
      BY <1>6
    <2>3. b.ub = TRUE
      BY <2>2, NullRead
    <2>4. m.ub = (r.ub \/ b.ub \/ Void(b.heap).ub)
      OBVIOUS
    <2> HIDE DEF r
    <2>5. Leaves(m)
      BY <2>1, <2>2 DEF Built
    <2> HIDE DEF b, m
    <2>6. m.ub = TRUE
      BY <2>3, <2>4, Zenon
    <2>7. ub' = TRUE
      BY <2>5, <2>6 DEF Leaves
    <2> QED
      BY <1>6, <2>1, <2>7 DEF Astray, UsesNull
  <1>7. ASSUME NEW s \in Senders, NEW v \in Bufs, NEW net \in FlushNet,
               SenderFlushAndKeep(s, v, net), bufs[v].impl = NULL, snds[s].impl = NULL
        PROVE  FALSE
    <2> DEFINE i == may_init(heap, Object(NULL, 127))
               r == wrapped_call(line_sender_flush_and_keep(i.heap, NULL, i.obj.impl, net))
               f == line_sender_buffer_free(r.heap, i.obj.impl)
               m == [heap |-> f.heap, out |-> r.out, ub |-> r.ub \/ f.ub]
    <2>1. snds[s] = Handle(NULL) /\ Ends(v, bufs[v], m)
      BY <1>2, <1>7 DEF SenderFlushAndKeep
    <2> HIDE DEF i
    <2>2. r.ub = TRUE
      BY NullRead
    <2>3. m.ub = (r.ub \/ f.ub)
      OBVIOUS
    <2> HIDE DEF r, f, m
    <2>4. m.ub = TRUE
      BY <2>2, <2>3, Zenon
    <2>5. ub' = TRUE
      BY <2>1, <2>4 DEF Ends
    <2> QED
      BY <1>7, <2>1, <2>5 DEF Astray, UsesNull
  <1> QED
    BY <1>3, <1>4, <1>5, <1>6, <1>7

\* Every statement that does not go astray keeps everything in order.
LEMMA AllStatements ==
    ASSUME AllInv, ~Astray, OptsNext \/ SendersNext \/ RowsNext
    PROVE  AllFares
  <1>1. AllOk(heap, bufs, opts, snds) /\ RoomForTwo(heap) /\ Room(heap) /\ ub = FALSE
    BY AllRoom, TwoAmple DEF AllInv
  <1>2. BuffersOk(heap, bufs) /\ Ample(heap, bufs)
    BY <1>1, TwoAmple DEF AllOk
  <1>3. CASE OptsNext
    <2>1. PICK o \in Opts :
            \/ \E p \in Ps : OptsNew(o, p) \/ OptsNewService(o, p)
            \/ \E c \in Confs : OptsFromConf(o, c) \/ OptsFromEnv(o, c)
            \/ \E p \in Opts : \/ OptsCopy(o, p) \/ OptsMove(o, p)
                               \/ OptsCopyAssign(o, p) \/ OptsMoveAssign(o, p)
            \/ OptsDestroy(o)
            \/ OptsSet(o)
      BY <1>3 DEF OptsNext
    <2>2. CASE \/ \E p \in Ps : OptsNew(o, p) \/ OptsNewService(o, p)
               \/ \E c \in Confs : OptsFromConf(o, c) \/ OptsFromEnv(o, c)
      BY <1>1, <2>2, OptsConstructed
    <2>3. CASE \E p \in Opts : OptsCopy(o, p) \/ OptsMove(o, p)
      BY <1>1, <2>3, NullSpared, OptsCopied
    <2>4. CASE \/ \E p \in Opts : OptsCopyAssign(o, p) \/ OptsMoveAssign(o, p)
               \/ OptsDestroy(o)
      BY <1>1, <2>4, NullSpared, OptsAssigned
    <2>5. CASE OptsSet(o)
      BY <1>1, <2>5, NullSpared, SettersSet, SetFares
    <2> QED
      BY <2>1, <2>2, <2>3, <2>4, <2>5
  <1>4. CASE SendersNext
    <2>1. PICK s \in Senders :
            \/ \E net \in BuildNet :
                 \/ \E p \in Ps : SenderNew(s, p, net) \/ SenderNewService(s, p, net)
                 \/ \E c \in Confs : SenderFromConf(s, c, net) \/ SenderFromEnv(s, c, net)
                 \/ \E o \in Opts : SenderFromOpts(s, o, net)
            \/ \E t \in Senders : SenderMove(s, t) \/ SenderMoveAssign(s, t)
            \/ Close(s) \/ SenderDestroy(s) \/ MustClose(s)
            \/ \E v \in Bufs, net \in FlushNet :
                 SenderFlush(s, v, net) \/ SenderFlushAndKeep(s, v, net)
      BY <1>4 DEF SendersNext
    <2>2. CASE \E net \in BuildNet :
                 \/ \E p \in Ps : SenderNew(s, p, net) \/ SenderNewService(s, p, net)
                 \/ \E c \in Confs : SenderFromConf(s, c, net) \/ SenderFromEnv(s, c, net)
                 \/ \E o \in Opts : SenderFromOpts(s, o, net)
      BY <1>1, <2>2, NullSpared, SendersBuilt
    <2>3. CASE \/ \E t \in Senders : SenderMove(s, t) \/ SenderMoveAssign(s, t)
               \/ Close(s) \/ SenderDestroy(s) \/ MustClose(s)
      BY <1>1, <2>3, SendersMoved
    <2>4. CASE \E v \in Bufs, net \in FlushNet :
                 SenderFlush(s, v, net) \/ SenderFlushAndKeep(s, v, net)
      BY <1>1, <2>4, NullSpared, FlushFares, KeepFares
    <2> QED
      BY <2>1, <2>2, <2>3, <2>4
  <1>5. CASE RowsNext
    <2>1. opts' = opts /\ snds' = snds
      BY <1>5 DEF RowsNext
    <2>2. PICK v \in Bufs :
            \/ \E n \in MaxNameLens : Construct(v, n)
            \/ \E w \in Bufs : MoveAssign(v, w)
            \/ Destroy(v)
            \/ \E n \in Tables : Table(v, n) \/ Symbol(v, n, "text")
            \/ AtNow(v)
      BY <1>5 DEF RowsNext
    <2>3. CASE \E n \in MaxNameLens : Construct(v, n)
      BY <1>1, <1>2, <2>1, <2>3, ConstructFares, FaresWell
    <2>4. CASE \E w \in Bufs : MoveAssign(v, w)
      BY <1>1, <1>2, <2>1, <2>4, AssignFares, FaresWell
    <2>5. CASE Destroy(v)
      BY <1>1, <1>2, <2>1, <2>5, DestroyFares, FaresWell
    <2>6. CASE \E n \in Tables : Table(v, n)
      BY <1>1, <1>2, <2>1, <2>6, NameMethods, MethodsFare, FaresWell
    <2>7. CASE \E n \in Tables : Symbol(v, n, "text")
      BY <1>1, <1>2, <2>1, <2>7, TextMethods, MethodsFare, FaresWell
    <2>8. CASE AtNow(v)
      BY <1>1, <1>2, <2>1, <2>8, PlainMethods, MethodsFare, FaresWell
    <2> QED
      BY <2>2, <2>3, <2>4, <2>5, <2>6, <2>7, <2>8
  <1> QED
    BY <1>3, <1>4, <1>5

\* The owners of an address among the handles.
LEMMA HandleOwners ==
    ASSUME NEW kind, NEW V, NEW hs, HandlesOk(heap, kind, V, hs), NEW a \in Addr
    PROVE  LET owners == {v \in V : hs[v] = Handle(a)}
           IN  /\ a \in Of(heap, kind) => Cardinality(owners) = 1
               /\ a \notin Of(heap, kind) => owners = {}
  <1> DEFINE S == Of(heap, kind)
             owners == {v \in V : Ptrs(V, hs)[v] = a}
  <1>1. Owns(S, Ptrs(V, hs), V) /\ a # NULL /\ NULL \notin S
    BY BufferAddresses DEF HandlesOk, NULL
  <1>2. {v \in V : hs[v] = Handle(a)} = owners
    <2> SUFFICES ASSUME NEW v \in V PROVE hs[v] = Handle(a) <=> Ptrs(V, hs)[v] = a
      OBVIOUS
    <2>1. Ptrs(V, hs)[v] = Ptr(hs[v]) /\ IsHandle(hs[v])
      BY DEF Ptrs, HandlesOk
    <2>2. hs[v] = Handle(a) => Ptr(hs[v]) = a
      BY HandleFacts
    <2>3. Ptr(hs[v]) = a => hs[v] = Handle(a)
      BY <1>1, <2>1 DEF Ptr, IsHandle
    <2> QED
      BY <2>1, <2>2, <2>3
  <1> HIDE DEF S
  <1>3. (a \in S => Cardinality(owners) = 1) /\ (a \notin S => owners = {})
    BY <1>1, OwnersAre
  <1> HIDE DEF owners
  <1> QED
    BY <1>2, <1>3 DEF S

\* Everything in order has one owner each.
LEMMA AllInvOwned ==
    ASSUME AllInv
    PROVE  OneOwnerOf
  <1> SUFFICES ASSUME NEW a \in Addr
               PROVE  /\ heap[a].kind # "error"
                      /\ heap[a] # Freed => Cardinality(OwnersOf(a, heap[a].kind)) = 1
                      /\ \A k \in {"buffer", "opts", "sender"} \ {heap[a].kind} :
                           OwnersOf(a, k) = {}
    BY DEF OneOwnerOf
  <1>1. /\ BuffersOk(heap, bufs) /\ HandlesOk(heap, "opts", Opts, opts)
        /\ HandlesOk(heap, "sender", Senders, snds)
    BY DEF AllInv, AllOk
  <1>2. /\ Shaped(heap[a]) /\ heap[a].kind # "error"
        /\ \A k \in Kinds : a \in Of(heap, k) <=> heap[a].kind = k
    BY <1>1 DEF BuffersOk, IsHeap, Of
  <1>3. heap[a] # Freed => heap[a].kind \in {"buffer", "opts", "sender"}
    BY <1>2, ShapeFacts DEF Kinds
  <1>4. \A k \in {"buffer", "opts", "sender"} :
          /\ a \in Of(heap, k) => Cardinality(OwnersOf(a, k)) = 1
          /\ a \notin Of(heap, k) => OwnersOf(a, k) = {}
    <2>1. /\ OwnersOf(a, "buffer") = Owners(a)
          /\ OwnersOf(a, "opts") = {o \in Opts : opts[o] = Handle(a)}
          /\ OwnersOf(a, "sender") = {s \in Senders : snds[s] = Handle(a)}
      BY DEF OwnersOf
    <2>2. /\ a \in Of(heap, "opts") => Cardinality(OwnersOf(a, "opts")) = 1
          /\ a \notin Of(heap, "opts") => OwnersOf(a, "opts") = {}
      BY <1>1, <2>1, HandleOwners
    <2>3. /\ a \in Of(heap, "sender") => Cardinality(OwnersOf(a, "sender")) = 1
          /\ a \notin Of(heap, "sender") => OwnersOf(a, "sender") = {}
      BY <1>1, <2>1, HandleOwners
    <2>4. /\ a \in Of(heap, "buffer") => Cardinality(OwnersOf(a, "buffer")) = 1
          /\ a \notin Of(heap, "buffer") => OwnersOf(a, "buffer") = {}
      BY <1>1, <2>1, BufferHolders
    <2> QED
      BY <2>2, <2>3, <2>4
  <1> QED
    BY <1>2, <1>3, <1>4 DEF Kinds

\* Every C object has exactly one owner, of its class, after any statements on
\* buffers, options and senders: whatever a constructor, a setter, a connection
\* or a flush threw, nothing leaks and nothing is freed twice.  A call into the
\* C interface follows NULL in the statements of UsesNull and in no other, and
\* none follows a freed pointer.
THEOREM EverythingOwned == Spec => AllOwned
  <1> DEFINE Inv == ub = TRUE \/ AllInv
  <1>1. SenderInit => Inv
    BY AllStart
  <1>2. Inv /\ [Next]_vars => Inv' /\ [ub' => ub \/ UsesNull]_vars
    <2> SUFFICES ASSUME Inv, [Next]_vars
                 PROVE  Inv' /\ [ub' => ub \/ UsesNull]_vars
      OBVIOUS
    <2>1. CASE ~ub /\ SenderStatement /\ ~Astray
      <3>1. AllInv
        BY <2>1
      <3>2. AllFares
        BY <2>1, <3>1, AllStatements DEF SenderStatement
      <3>3. Cardinality(Objects)' <= MaxObjects
        BY <2>1 DEF SenderStatement
      <3>4. AllInv' /\ ub' = FALSE
        BY <3>2, <3>3 DEF AllInv, AllFares
      <3> QED
        BY <3>4
    <2>2. CASE Astray
      BY <2>2 DEF Astray
    <2>3. CASE UNCHANGED vars
      <3>1. Inv'
        BY <2>3 DEF vars, AllInv, Objects, Alive, Live
      <3> QED
        BY <2>3, <3>1
    <2> QED
      BY <2>1, <2>2, <2>3 DEF Next
  <1>3. Inv => (~ub => OneOwnerOf)
    BY AllInvOwned
  <1> HIDE DEF Inv
  <1> QED
    BY <1>1, <1>2, <1>3, PTL DEF Spec, AllOwned

-----------------------------------------------------------------------------
(***************************************************************************)
(* The example programs in C++: the destructors are the last two           *)
(* statements of what is left, whether a statement threw or not.           *)
(***************************************************************************)
CppWords == {"from_conf", "from_literal", "from_env", "buffer", "table", "symbol",
             "column", "at", "flush", "~buffer", "~sender"}

Unwound(t) ==
    /\ t \in Seq(CppWords)
    /\ \A i \in 1..Len(t) : /\ t[i] = "~sender" <=> i = Len(t)
                            /\ t[i] = "~buffer" <=> i = Len(t) - 1

\* Only the variables of the program are used.
Lone(bs, os, ss) ==
    /\ \A o \in Opts : os[o] = Dead
    /\ \A v \in Bufs : v # buffer => bs[v] = Dead
    /\ \A s \in Senders : s # sender => ss[s] = Dead

\* Where a program is.
CppAt(t, st, bs, ss) ==
    /\ Unwound(t)
    /\ st = "running" <=> Len(t) > 0
    /\ Len(t) <= 1 => bs[buffer] = Dead
    /\ Len(t) = 0 => ss[sender] = Dead

CppInv ==
    /\ AllOk(heap, bufs, opts, snds) /\ ub = FALSE
    /\ Lone(bufs, opts, snds)
    /\ CppAt(todo, status, bufs, snds)

LEMMA TheVariables == buffer \in Bufs /\ sender \in Senders
  BY ExamplesAssumption DEF buffer, sender

\* Two variables leave memory for two more objects.
LEMMA ProgramRoom ==
    ASSUME CppInv
    PROVE  RoomForTwo(heap)
  <1>1. Objects \subseteq {buffer, sender}
    BY DEF CppInv, Lone, Objects, Alive, Live
  <1>2. IsFiniteSet({buffer, sender}) /\ Cardinality({buffer, sender}) <= 2
    <2>1. IsFiniteSet({buffer}) /\ Cardinality({buffer}) = 1
      BY FS_Singleton
    <2>2. {buffer, sender} = {buffer} \cup {sender}
      OBVIOUS
    <2>3. /\ IsFiniteSet({buffer} \cup {sender})
          /\ \/ Cardinality({buffer} \cup {sender}) = Cardinality({buffer})
             \/ Cardinality({buffer} \cup {sender}) = Cardinality({buffer}) + 1
      BY <2>1, FS_AddElement
    <2> QED
      BY <2>1, <2>2, <2>3
  <1>3. IsFiniteSet(Objects) /\ Cardinality(Objects) <= Cardinality({buffer, sender})
    BY <1>1, <1>2, FS_Subset
  <1>4. Cardinality(Objects) \in Nat /\ Cardinality({buffer, sender}) \in Nat
    BY <1>2, <1>3, FS_CardinalityType
  <1>5. Cardinality(Objects) <= MaxObjects
    BY <1>2, <1>3, <1>4, ExamplesAssumption, VariablesAssumption
  <1>6. AllInv
    BY <1>5 DEF AllInv, CppInv
  <1> QED
    BY <1>6, AllRoom

\* The next statement, or the destructors.
LEMMA UnwindFacts == Unwound(Unwind) /\ Len(Unwind) = 2
  BY DEF Unwound, Unwind, CppWords

LEMMA GoesOn ==
    ASSUME NEW name, Statement(name), Unwound(todo), status = "running" <=> Len(todo) > 0,
           NEW threw \in BOOLEAN, Goes(threw)
    PROVE  /\ Unwound(todo')
           /\ (status' = "running") <=> Len(todo') > 0
           /\ name \notin {"~buffer", "~sender"} => Len(todo') >= 2
           /\ name = "~buffer" /\ ~threw => Len(todo') = 1
           /\ name = "~sender" /\ ~threw => Len(todo') = 0
  <1>1. Len(todo) \in Nat /\ Len(todo) > 0 /\ todo[1] = name /\ todo \in Seq(CppWords)
    BY DEF Statement, Unwound
  <1>2. CASE threw
    <2>1. todo' = Unwind
      BY <1>2 DEF Goes
    <2>2. Unwind # <<>>
      BY DEF Unwind
    <2> QED
      BY <1>2, <2>1, <2>2, UnwindFacts DEF Goes
  <1>3. CASE ~threw
    <2> DEFINE t == Tail(todo)
    <2>1. todo' = t /\ status' \in {"running", "0", "1"} /\ (status' = "running" <=> t # <<>>)
      BY <1>3 DEF Goes
    <2>2. t \in Seq(CppWords) /\ Len(t) = Len(todo) - 1 /\ \A i \in 1..Len(t) : t[i] = todo[i + 1]
      BY <1>1
    <2> HIDE DEF t
    <2>3. Unwound(t)
      <3> SUFFICES ASSUME NEW i \in 1..Len(t)
                   PROVE  /\ t[i] = "~sender" <=> i = Len(t)
                          /\ t[i] = "~buffer" <=> i = Len(t) - 1
        BY <2>2 DEF Unwound
      <3>1. i + 1 \in 1..Len(todo) /\ t[i] = todo[i + 1]
        BY <1>1, <2>2
      <3>2. /\ todo[i + 1] = "~sender" <=> i + 1 = Len(todo)
            /\ todo[i + 1] = "~buffer" <=> i + 1 = Len(todo) - 1
        BY <3>1 DEF Unwound
      <3> QED
        BY <1>1, <2>2, <3>1, <3>2
    <2>4. /\ name = "~sender" <=> 1 = Len(todo)
          /\ name = "~buffer" <=> 1 = Len(todo) - 1
      <3> DEFINE n == Len(todo)
      <3>1. n \in Nat /\ n > 0 /\ todo[1] = name
        BY <1>1
      <3>2. \A i \in 1..n : /\ todo[i] = "~sender" <=> i = n
                            /\ todo[i] = "~buffer" <=> i = n - 1
        BY DEF Unwound
      <3> HIDE DEF n
      <3>3. 1 \in 1..n
        BY <3>1
      <3> QED
        BY <3>1, <3>2, <3>3 DEF n
    <2>5. t # <<>> <=> Len(t) > 0
      BY <2>2
    <2>6. /\ name \notin {"~buffer", "~sender"} => Len(t) >= 2
          /\ name = "~buffer" => Len(t) = 1
          /\ name = "~sender" => Len(t) = 0
      BY <1>1, <2>2, <2>4
    <2> QED
      BY <2>1, <2>3, <2>5, <2>6, Zenon
  <1> QED
    BY <1>2, <1>3

\* A statement that is not one of the last two.
LEMMA StatementKeeps ==
    ASSUME CppInv, NEW name, name \notin {"~buffer", "~sender"}, Statement(name),
           AllFares, Lone(bufs', opts', snds'), Goes(out' # Returned)
    PROVE  CppInv'
  <1> DEFINE threw == out' # Returned
  <1>1. threw \in BOOLEAN /\ Goes(threw)
    OBVIOUS
  <1> HIDE DEF threw
  <1>2. Unwound(todo) /\ (status = "running" <=> Len(todo) > 0)
    BY DEF CppInv, CppAt
  <1>3. Unwound(todo') /\ ((status' = "running") <=> Len(todo') > 0) /\ Len(todo') >= 2
    BY <1>1, <1>2, GoesOn
  <1>4. Len(todo') \in Nat
    BY <1>3 DEF Unwound
  <1>5. CppAt(todo', status', bufs', snds')
    BY <1>3, <1>4 DEF CppAt
  <1> QED
    BY <1>5 DEF CppInv, AllFares

\* A statement on the buffer touches no other variable.
LEMMA LoneBuffer ==
    ASSUME CppInv, NEW o, bufs' = [bufs EXCEPT ![buffer] = o], opts' = opts, snds' = snds
    PROVE  Lone(bufs', opts', snds')
  <1>1. bufs = [v \in Bufs |-> bufs[v]] /\ Lone(bufs, opts, snds)
    BY DEF CppInv, AllOk, BuffersOk
  <1>2. \A v \in Bufs : v # buffer => bufs'[v] = Dead
    BY <1>1 DEF Lone
  <1> QED
    BY <1>1, <1>2 DEF Lone

LEMMA LoneSender ==
    ASSUME CppInv, NEW o, snds' = snds \/ snds' = [snds EXCEPT ![sender] = o],
           opts' = opts, bufs' = bufs
    PROVE  Lone(bufs', opts', snds')
  <1>1. snds = [v \in Senders |-> snds[v]] /\ Lone(bufs, opts, snds)
    BY DEF CppInv, AllOk, HandlesOk
  <1>2. \A v \in Senders : v # sender => snds'[v] = Dead
    BY <1>1 DEF Lone
  <1> QED
    BY <1>1, <1>2 DEF Lone

LEMMA CalledFrame ==
    ASSUME NEW v, CalledOn(v)
    PROVE  \E o : bufs' = [bufs EXCEPT ![v] = o]
  BY DEF CalledOn, Follows, Ends

\* line_sender::from_conf and from_env.
LEMMA FromConfKeeps ==
    ASSUME CppInv, FromConf \/ FromLiteral \/ FromEnv
    PROVE  CppInv'
  <1>1. /\ AllOk(heap, bufs, opts, snds) /\ RoomForTwo(heap) /\ IsHeap(heap) /\ Room(heap)
        /\ sender \in Senders
    BY ProgramRoom, TheVariables, TwoAmple DEF CppInv, AllOk, BuffersOk
  <1>2. ASSUME NEW r, NEW net, Built(sender, r, TRUE, net)
        PROVE  Lone(bufs', opts', snds')
    <2>1. opts' = opts /\ bufs' = bufs
      BY <1>2 DEF Built, Leaves
    <2>2. \E o : snds' = snds \/ snds' = [snds EXCEPT ![sender] = o]
      BY <1>2 DEF Built
    <2> QED
      BY <2>1, <2>2, LoneSender
  <1>3. ASSUME NEW c, NEW net, SenderFromConf(sender, c, net) \/ SenderFromEnv(sender, c, net)
        PROVE  AllFares /\ Lone(bufs', opts', snds')
    BY <1>1, <1>2, <1>3, ConfMakes, BuiltFromTemporary DEF SenderFromConf, SenderFromEnv
  <1>4. ASSUME Leaves(utf8_view(heap, NotUtf8)), opts' = opts, snds' = snds
        PROVE  AllFares /\ Lone(bufs', opts', snds')
    <2> DEFINE r == utf8_view(heap, NotUtf8)
    <2>1. r.heap = heap /\ r.ub = FALSE
      BY <1>1, ViewFacts
    <2>2. heap' = heap /\ ub' = FALSE /\ bufs' = bufs
      BY <1>4, <2>1 DEF Leaves
    <2> QED
      BY <1>1, <1>4, <2>2, LoneSender DEF AllFares
  <1>5. CASE FromConf
    <2>1. Statement("from_conf") /\ Goes(out' # Returned)
      BY <1>5 DEF FromConf
    <2>2. AllFares /\ Lone(bufs', opts', snds')
      BY <1>3, <1>4, <1>5 DEF FromConf
    <2> QED
      BY <2>1, <2>2, StatementKeeps
  <1>6. CASE FromLiteral
    <2>1. Statement("from_literal") /\ Goes(out' # Returned)
      BY <1>6 DEF FromLiteral
    <2>2. AllFares /\ Lone(bufs', opts', snds')
      BY <1>3, <1>6 DEF FromLiteral
    <2> QED
      BY <2>1, <2>2, StatementKeeps
  <1>7. CASE FromEnv
    <2>1. Statement("from_env") /\ Goes(out' # Returned)
      BY <1>7 DEF FromEnv
    <2>2. AllFares /\ Lone(bufs', opts', snds')
      BY <1>3, <1>7 DEF FromEnv
    <2> QED
      BY <2>1, <2>2, StatementKeeps
  <1> QED
    BY <1>5, <1>6, <1>7

\* The row.
LEMMA FillKeeps ==
    ASSUME CppInv, FillRow
    PROVE  CppInv'
  <1>1. /\ BuffersOk(heap, bufs) /\ Ample(heap, bufs) /\ ub = FALSE /\ buffer \in Bufs
        /\ AllOk(heap, bufs, opts, snds)
    BY ProgramRoom, TheVariables, TwoAmple DEF CppInv, AllOk
  <1>2. opts' = opts /\ snds' = snds /\ Goes(out' # Returned)
    BY DEF FillRow
  <1>3. PICK name : /\ name \in {"buffer", "table", "symbol", "column", "at"}
                    /\ Statement(name)
                    /\ Construct(buffer, 127) \/ CalledOn(buffer)
    <2>1. CASE Statement("buffer") /\ Construct(buffer, 127)
      BY <2>1
    <2>2. CASE Statement("table") /\ Table(buffer, "trades")
      BY <1>1, <2>2, NameMethods
    <2>3. CASE Statement("symbol") /\ Symbol(buffer, "trades", "text")
      BY <1>1, <2>3, TextMethods
    <2>4. CASE Statement("column") /\ ColumnF64(buffer, "trades")
      BY <1>1, <2>4, NameMethods
    <2>5. CASE Statement("at") /\ \E t \in Times : AtNanos(buffer, t)
      BY <1>1, <2>5, PlainMethods
    <2> QED
      BY <2>1, <2>2, <2>3, <2>4, <2>5 DEF FillRow
  <1>4. Fares
    BY <1>1, <1>3, ConstructFares, MethodsFare
  <1>5. AllFares
    BY <1>1, <1>2, <1>4, FaresWell
  <1>6. \E o : bufs' = [bufs EXCEPT ![buffer] = o]
    BY <1>3, CalledFrame DEF Construct, Ends
  <1>7. Lone(bufs', opts', snds')
    BY <1>2, <1>6, LoneBuffer
  <1> QED
    BY <1>2, <1>3, <1>5, <1>7, StatementKeeps

\* flush().
LEMMA FlushRowKeeps ==
    ASSUME CppInv, FlushRow
    PROVE  CppInv'
  <1>1. /\ AllOk(heap, bufs, opts, snds) /\ RoomForTwo(heap)
        /\ sender \in Senders /\ buffer \in Bufs
    BY ProgramRoom, TheVariables DEF CppInv
  <1>2. PICK net : SenderFlush(sender, buffer, net)
    BY DEF FlushRow
  <1>3. AllFares
    BY <1>1, <1>2, FlushFares
  <1>4. \E o : bufs' = [bufs EXCEPT ![buffer] = o]
    BY <1>2 DEF SenderFlush, Ends
  <1>5. opts' = opts /\ snds' = snds
    BY <1>2 DEF SenderFlush
  <1>6. Lone(bufs', opts', snds')
    BY <1>4, <1>5, LoneBuffer
  <1>7. Statement("flush") /\ Goes(out' # Returned)
    BY DEF FlushRow
  <1> QED
    BY <1>3, <1>6, <1>7, StatementKeeps

\* The destructor of the buffer comes last but one, that of the sender last.
LEMMA DestroysKeep ==
    ASSUME CppInv, DestroyBuffer \/ DestroySender
    PROVE  CppInv'
  <1>1. /\ BuffersOk(heap, bufs) /\ Ample(heap, bufs) /\ ub = FALSE
        /\ buffer \in Bufs /\ sender \in Senders
        /\ AllOk(heap, bufs, opts, snds) /\ Lone(bufs, opts, snds)
    BY ProgramRoom, TheVariables, TwoAmple DEF CppInv, AllOk
  <1>2. Unwound(todo) /\ (status = "running" <=> Len(todo) > 0)
    BY DEF CppInv, CppAt
  <1>3. CASE DestroyBuffer
    <2>1. Statement("~buffer") /\ Goes(FALSE) /\ opts' = opts /\ snds' = snds
      BY <1>3 DEF DestroyBuffer
    <2>2. Unwound(todo') /\ ((status' = "running") <=> Len(todo') > 0) /\ Len(todo') = 1
      BY <1>2, <2>1, GoesOn
    <2>3. bufs = [v \in Bufs |-> bufs[v]]
      BY <1>1 DEF BuffersOk
    <2>4. AllFares /\ Lone(bufs', opts', snds') /\ bufs'[buffer] = Dead
      <3>1. CASE Live(buffer)
        <4>1. Destroy(buffer)
          BY <1>3, <3>1 DEF DestroyBuffer
        <4>2. bufs' = [bufs EXCEPT ![buffer] = Dead]
          BY <4>1 DEF Destroy, Ends
        <4>3. AllFares
          BY <1>1, <2>1, <4>1, DestroyFares, FaresWell
        <4>4. bufs'[buffer] = Dead
          BY <1>1, <2>3, <4>2
        <4> QED
          BY <2>1, <4>2, <4>3, <4>4, LoneBuffer
      <3>2. CASE ~Live(buffer)
        <4>1. UNCHANGED <<heap, bufs, out, ub>>
          BY <1>3, <3>2 DEF DestroyBuffer
        <4> QED
          BY <1>1, <2>1, <3>2, <4>1 DEF AllFares, Live
      <3> QED
        BY <3>1, <3>2
    <2>5. CppAt(todo', status', bufs', snds')
      BY <2>2, <2>4 DEF CppAt
    <2> QED
      BY <2>4, <2>5 DEF CppInv, AllFares
  <1>4. CASE DestroySender
    <2>1. Statement("~sender") /\ Goes(FALSE)
      BY <1>4 DEF DestroySender
    <2>2. Unwound(todo') /\ ((status' = "running") <=> Len(todo') > 0) /\ Len(todo') = 0
      BY <1>2, <2>1, GoesOn
    <2>3. bufs[buffer] = Dead
      <3>1. Len(todo) = 1
        <4>1. Len(todo) \in Nat /\ Len(todo) > 0 /\ todo[1] = "~sender"
          BY <1>2, <2>1 DEF Statement, Unwound
        <4>2. 1 \in 1..Len(todo)
          BY <4>1
        <4>3. 1 = Len(todo)
          BY <1>2, <4>1, <4>2, Zenon DEF Unwound
        <4> QED
          BY <4>3
      <3> QED
        BY <3>1 DEF CppInv, CppAt
    <2>4. snds = [s \in Senders |-> snds[s]]
      BY <1>1 DEF AllOk, HandlesOk
    <2>5. AllFares /\ Lone(bufs', opts', snds') /\ bufs' = bufs /\ snds'[sender] = Dead
      <3>1. CASE Alive(snds[sender])
        <4>1. SenderDestroy(sender)
          BY <1>4, <3>1 DEF DestroySender
        <4>2. snds' = [snds EXCEPT ![sender] = Dead] /\ opts' = opts /\ bufs' = bufs
          BY <4>1 DEF SenderDestroy, Leaves
        <4>3. AllFares
          BY <1>1, <4>1, SendersMoved
        <4>4. snds'[sender] = Dead
          BY <1>1, <2>4, <4>2
        <4> QED
          BY <4>2, <4>3, <4>4, LoneSender
      <3>2. CASE ~Alive(snds[sender])
        <4>1. UNCHANGED vars
          BY <1>4, <3>2 DEF DestroySender
        <4> QED
          BY <1>1, <3>2, <4>1 DEF AllFares, Alive, vars
      <3> QED
        BY <3>1, <3>2
    <2>6. CppAt(todo', status', bufs', snds')
      BY <2>2, <2>3, <2>5 DEF CppAt
    <2> QED
      BY <2>5, <2>6 DEF CppInv, AllFares
  <1> QED
    BY <1>3, <1>4

LEMMA CppStep ==
    ASSUME CppInv, ExNext
    PROVE  CppInv'
  <1>1. CASE Run
    BY <1>1, FromConfKeeps, FillKeeps, FlushRowKeeps, DestroysKeep DEF Run
  <1>2. CASE Ended
    BY <1>2 DEF Ended, exvars, vars, CppInv
  <1> QED
    BY <1>1, <1>2 DEF ExNext

\* Two sequences one after the other.
Follow(S, a, m, b, n, t) ==
    /\ t \in Seq(S) /\ Len(t) = m + n
    /\ \A i \in 1..m : t[i] = a[i]
    /\ \A i \in 1..n : t[m + i] = b[i]

LEMMA Joined ==
    ASSUME NEW S, NEW a \in Seq(S), NEW b \in Seq(S), NEW m \in Nat, NEW n \in Nat,
           Len(a) = m, Len(b) = n
    PROVE  Follow(S, a, m, b, n, a \o b)
  BY DEF Follow

\* The code of a program: its first statement, the row, and the destructors.
IsCppCode(t) ==
    /\ t \in Seq(CppWords) /\ Len(t) = 11
    /\ t[1] \in {"from_conf", "from_literal", "from_env"}
    /\ t[2] = "buffer" /\ t[3] = "table" /\ t[4] = "symbol" /\ t[5] = "symbol"
    /\ t[6] = "column" /\ t[7] = "column" /\ t[8] = "at" /\ t[9] = "flush"
    /\ t[10] = "~buffer" /\ t[11] = "~sender"

LEMMA CppCodes ==
    ASSUME NEW p \in Programs
    PROVE  IsCppCode(p.code)
  <1>1. PICK first \in {"from_conf", "from_literal", "from_env"} :
          p.code = <<first>> \o Body \o Unwind
    BY DEF Programs, Program, cpp_example, cpp_example_http, cpp_example_auth,
           cpp_example_auth_tls, cpp_example_tls_ca, cpp_example_from_conf,
           cpp_example_from_env
  <1> DEFINE a == <<first>>
             b == a \o Body
             t == b \o Unwind
  <1>2. a \in Seq(CppWords) /\ Len(a) = 1 /\ a[1] = first
    BY DEF CppWords
  <1>3. /\ Body \in Seq(CppWords) /\ Len(Body) = 8
        /\ Body[1] = "buffer" /\ Body[2] = "table" /\ Body[3] = "symbol"
        /\ Body[4] = "symbol" /\ Body[5] = "column" /\ Body[6] = "column"
        /\ Body[7] = "at" /\ Body[8] = "flush"
    BY DEF Body, CppWords
  <1>4. /\ Unwind \in Seq(CppWords) /\ Len(Unwind) = 2
        /\ Unwind[1] = "~buffer" /\ Unwind[2] = "~sender"
    BY DEF Unwind, CppWords
  <1> HIDE DEF a
  <1>5. Follow(CppWords, a, 1, Body, 8, b)
    <2>1. 1 \in Nat /\ 8 \in Nat
      OBVIOUS
    <2> QED
      BY <1>2, <1>3, <2>1, Joined, Zenon
  <1>6. /\ b \in Seq(CppWords) /\ Len(b) = 1 + 8
        /\ \A i \in 1..1 : b[i] = a[i]
        /\ \A i \in 1..8 : b[1 + i] = Body[i]
    BY <1>5 DEF Follow
  <1> HIDE DEF b
  <1>7. /\ b[1] = first /\ b[2] = "buffer" /\ b[3] = "table" /\ b[4] = "symbol"
        /\ b[5] = "symbol" /\ b[6] = "column" /\ b[7] = "column" /\ b[8] = "at"
        /\ b[9] = "flush" /\ Len(b) = 9
    <2>1. b[1] = a[1] /\ b[1 + 1] = Body[1] /\ b[1 + 2] = Body[2] /\ b[1 + 3] = Body[3]
      BY <1>6
    <2>2. b[1 + 4] = Body[4] /\ b[1 + 5] = Body[5] /\ b[1 + 6] = Body[6]
      BY <1>6
    <2>3. b[1 + 7] = Body[7] /\ b[1 + 8] = Body[8]
      BY <1>6
    <2> QED
      BY <1>2, <1>3, <1>6, <2>1, <2>2, <2>3
  <1>8. Follow(CppWords, b, 9, Unwind, 2, t)
    <2>1. 9 \in Nat /\ 2 \in Nat
      OBVIOUS
    <2> QED
      BY <1>4, <1>6, <1>7, <2>1, Joined, Zenon
  <1>9. /\ t \in Seq(CppWords) /\ Len(t) = 9 + 2
        /\ \A i \in 1..9 : t[i] = b[i]
        /\ \A i \in 1..2 : t[9 + i] = Unwind[i]
    BY <1>8 DEF Follow
  <1> HIDE DEF t
  <1>10. t[9 + 1] = Unwind[1] /\ t[9 + 2] = Unwind[2]
    BY <1>9
  <1>11. /\ t[1] = b[1] /\ t[2] = b[2] /\ t[3] = b[3] /\ t[4] = b[4] /\ t[5] = b[5]
        /\ t[6] = b[6] /\ t[7] = b[7] /\ t[8] = b[8] /\ t[9] = b[9]
    BY <1>9
  <1>12. IsCppCode(t)
    BY <1>4, <1>7, <1>9, <1>10, <1>11 DEF IsCppCode
  <1> QED
    BY <1>1, <1>12, Zenon DEF t, b, a

LEMMA CppStart ==
    ASSUME ExInit
    PROVE  CppInv
  <1>1. PICK p \in Programs, argv \in ArgLists : Start(p, argv)
    BY DEF ExInit
  <1>2. SenderInit
    BY <1>1 DEF Start
  <1>3. AllOk(heap, bufs, opts, snds) /\ ub = FALSE
    BY <1>2, AllStart DEF AllInv
  <1>4. Lone(bufs, opts, snds) /\ bufs[buffer] = Dead /\ snds[sender] = Dead
    BY <1>2, TheVariables DEF SenderInit, Init, Lone
  <1>5. Unwound(todo) /\ (status = "running" <=> Len(todo) > 0)
    <2>1. CASE todo = <<>> /\ status \in {"0", "1"}
      BY <2>1 DEF Unwound
    <2>2. CASE todo = p.code /\ status = "running"
      <3>1. IsCppCode(todo)
        BY <2>2, CppCodes
      <3>2. ASSUME NEW i \in 1..11
            PROVE  (todo[i] = "~sender" <=> i = 11) /\ (todo[i] = "~buffer" <=> i = 10)
        <4>1. i \in {1, 2, 3, 4, 5, 6, 7, 8, 9, 10, 11}
          OBVIOUS
        <4> QED
          BY <3>1, <4>1 DEF IsCppCode
      <3>3. Unwound(todo) /\ Len(todo) = 11
        BY <3>1, <3>2 DEF Unwound, IsCppCode
      <3> QED
        BY <2>2, <3>3
    <2> QED
      BY <1>1, <2>1, <2>2 DEF Start
  <1>6. CppAt(todo, status, bufs, snds)
    BY <1>4, <1>5 DEF CppAt
  <1> QED
    BY <1>3, <1>4, <1>6 DEF CppInv

\* A program that has ended has no live variables, so nothing is left.
LEMMA CppEnds ==
    ASSUME CppInv
    PROVE  CppGivesBack
  <1> SUFFICES ASSUME status # "running", NEW a \in Addr PROVE heap[a] = Freed
    BY DEF CppGivesBack, CppInv
  <1>1. Len(todo) = 0
    <2>1. Len(todo) \in Nat /\ ~(Len(todo) > 0)
      BY DEF CppInv, CppAt, Unwound
    <2> QED
      BY <2>1
  <1>2. bufs[buffer] = Dead /\ snds[sender] = Dead
    BY <1>1 DEF CppInv, CppAt
  <1>3. /\ \A v \in Bufs : Ptr(bufs[v]) = NULL
        /\ \A o \in Opts : Ptr(opts[o]) = NULL
        /\ \A s \in Senders : Ptr(snds[s]) = NULL
    BY <1>2 DEF CppInv, Lone, Ptr
  <1>4. /\ Owns(Of(heap, "buffer"), BufPtrs(bufs), Bufs) /\ Of(heap, "error") = {}
        /\ Owns(Of(heap, "opts"), Ptrs(Opts, opts), Opts)
        /\ Owns(Of(heap, "sender"), Ptrs(Senders, snds), Senders) /\ IsHeap(heap)
    BY DEF CppInv, AllOk, BuffersOk, HandlesOk
  <1>5. a # NULL
    BY DEF NULL
  <1>6. a \notin Of(heap, "buffer")
    BY <1>3, <1>4, <1>5 DEF Owns, BufPtrs
  <1>7. a \notin Of(heap, "opts") /\ a \notin Of(heap, "sender") /\ a \notin Of(heap, "error")
    BY <1>3, <1>4, <1>5 DEF Owns, Ptrs
  <1>8. Shaped(heap[a]) /\ heap[a].kind \notin Kinds
    BY <1>4, <1>6, <1>7 DEF IsHeap, Of, Kinds
  <1> QED
    BY <1>8, ShapeFacts
-----------------------------------------------------------------------------
(***************************************************************************)
(* The example programs in C: what their pointers hold.                    *)
(***************************************************************************)
LEMMA SameInterface ==
    /\ C!NULL = NULL /\ C!Freed = Freed /\ C!true = 1 /\ C!false = 0
    /\ \A h, x : C!Give(h, x) = Give(h, x)
    /\ \A h, code, s : C!Fail(h, code, s) = Fail(h, code, s)
    /\ \A h, p, kind : C!Drop(h, p, kind) = Drop(h, p, kind)
    /\ \A h, x : C!Return(h, x) = Return(h, x)
    /\ \A h, p, kind : C!Points(h, p, kind) = Points(h, p, kind)
    /\ \A h, b, r : C!BufferCall(h, b, r) = BufferCall(h, b, r)
  BY DEF C!NULL, NULL, C!Freed, Freed, C!true, C!false, C!Give, Give, C!Fail, Fail, C!Drop,
         Drop, C!Return, Return, C!Points, Points, C!BufferCall, BufferCall, C!Fresh, Fresh,
         C!Void, Void, C!Undefined, Undefined, C!line_sender_error, line_sender_error, true,
         false

\* The pointers of a program, and the kind of object that each is for.
CNames == {"conf_str", "err", "sender", "buffer"}

KindOf(n) == IF n = "conf_str" THEN "text" ELSE IF n = "err" THEN "error" ELSE n

CShaped(x) == Shaped(x) \/ x = [kind |-> "text"]

\* The pointers of A are to objects of their kinds, and there is nothing else.
Holds(h, l, A) ==
    /\ h = [a \in Addr |-> h[a]] /\ \A a \in Addr : CShaped(h[a])
    /\ l = [n \in CNames |-> l[n]] /\ A \subseteq CNames
    /\ \A n \in A : l[n] \in Addr /\ h[l[n]].kind = KindOf(n)
    /\ \A a \in Addr : h[a] # Freed => \E n \in A : l[n] = a

LEMMA OneMore ==
    ASSUME NEW S, IsFiniteSet(S), NEW n \in Nat, Cardinality(S) <= n, NEW x
    PROVE  IsFiniteSet(S \cup {x}) /\ Cardinality(S \cup {x}) <= n + 1
  <1>1. /\ IsFiniteSet(S \cup {x})
        /\ \/ Cardinality(S \cup {x}) = Cardinality(S)
           \/ Cardinality(S \cup {x}) = Cardinality(S) + 1
    BY FS_AddElement
  <1>2. Cardinality(S) \in Nat
    BY FS_CardinalityType
  <1> QED
    BY <1>1, <1>2

\* There are four addresses, so one of them is free unless all pointers are set.
LEMMA PointersRoom ==
    ASSUME NEW h, NEW l, NEW A, Holds(h, l, A), NEW n \in CNames, n \notin A
    PROVE  Room(h)
  <1> DEFINE U == {a \in Addr : h[a] # Freed}
             f == [a \in U |-> CHOOSE k \in A : l[k] = a]
             T == CNames \ {n}
  <1>1. \A a \in U : f[a] \in A /\ l[f[a]] = a
    BY DEF Holds
  <1>2. A \subseteq T
    BY DEF Holds
  <1>3. f \in [U -> T]
    BY <1>1, <1>2
  <1>4. \A a, b \in U : f[a] = f[b] => a = b
    BY <1>1
  <1> HIDE DEF f
  <1>5. f \in Injection(U, T)
    BY <1>3, <1>4 DEF Injection, IsInjective
  <1>6. IsFiniteSet(CNames) /\ Cardinality(CNames) <= 4
    <2> DEFINE S1 == {"conf_str"}
               S2 == S1 \cup {"err"}
               S3 == S2 \cup {"sender"}
               S4 == S3 \cup {"buffer"}
    <2>1. IsFiniteSet(S1) /\ Cardinality(S1) = 1
      BY FS_Singleton, Zenon DEF S1
    <2> HIDE DEF S1
    <2>2. IsFiniteSet(S1) /\ Cardinality(S1) <= 1
      BY <2>1
    <2>3. IsFiniteSet(S2) /\ Cardinality(S2) <= 1 + 1
      BY <2>2, OneMore
    <2> HIDE DEF S2
    <2>4. IsFiniteSet(S3) /\ Cardinality(S3) <= (1 + 1) + 1
      <3>1. 1 + 1 \in Nat
        OBVIOUS
      <3> QED
        BY <2>3, <3>1, OneMore, Zenon
    <2> HIDE DEF S3
    <2>5. IsFiniteSet(S4) /\ Cardinality(S4) <= ((1 + 1) + 1) + 1
      BY <2>4, OneMore
    <2>6. S4 = CNames
      BY DEF S1, S2, S3, CNames
    <2> HIDE DEF S4
    <2> QED
      BY <2>5, <2>6
  <1>7. IsFiniteSet(T) /\ Cardinality(T) = Cardinality(CNames) - 1
    BY <1>6, FS_RemoveElement
  <1>8. Cardinality(T) \in Nat /\ Cardinality(CNames) \in Nat /\ Cardinality(Addr) \in Nat
    BY <1>6, <1>7, FS_CardinalityType, AddrAssumption
  <1>9. Cardinality(Addr) > Cardinality(T)
    BY <1>6, <1>7, <1>8, VariablesAssumption, ExamplesAssumption
  <1>10. \E a \in Addr : a \notin U
    <2>1. U \in SUBSET Addr
      OBVIOUS
    <2> HIDE DEF U, T
    <2> QED
      BY <1>5, <1>7, <1>9, <2>1, Counting
  <1> QED
    BY <1>10 DEF Room

\* A new object behind a pointer that had none.
LEMMA PointerTakes ==
    ASSUME NEW h, NEW l, NEW A, Holds(h, l, A), NEW n \in CNames, n \notin A,
           NEW x, CShaped(x), x # Freed, x.kind = KindOf(n), NEW p, p = Fresh(h)
    PROVE  /\ p \in Addr /\ p # 0
           /\ Holds([h EXCEPT ![p] = x], [l EXCEPT ![n] = p], A \cup {n})
  <1> DEFINE g == [h EXCEPT ![p] = x]
             k == [l EXCEPT ![n] = p]
  <1>1. p \in Addr /\ h[p] = Freed /\ p # 0
    BY PointersRoom, FreshFacts DEF NULL
  <1>2. /\ h = [a \in Addr |-> h[a]] /\ \A a \in Addr : CShaped(h[a])
        /\ l = [m \in CNames |-> l[m]] /\ A \subseteq CNames
        /\ \A m \in A : l[m] \in Addr /\ h[l[m]].kind = KindOf(m)
        /\ \A a \in Addr : h[a] # Freed => \E m \in A : l[m] = a
    BY DEF Holds
  <1>3. g = [a \in Addr |-> g[a]] /\ \A a \in Addr : g[a] = IF a = p THEN x ELSE h[a]
    BY <1>1, <1>2
  <1>4. k = [m \in CNames |-> k[m]] /\ \A m \in CNames : k[m] = IF m = n THEN p ELSE l[m]
    BY <1>2
  <1> HIDE DEF g, k
  <1>5. \A m \in A : l[m] # p
    <2>1. \A m \in A : KindOf(m) # "freed"
      BY <1>2 DEF KindOf, CNames
    <2>2. h[p].kind = "freed"
      BY <1>1 DEF Freed
    <2> QED
      BY <1>2, <2>1, <2>2
  <1>6. \A m \in A \cup {n} : k[m] \in Addr /\ g[k[m]].kind = KindOf(m)
    <2> SUFFICES ASSUME NEW m \in A \cup {n} PROVE k[m] \in Addr /\ g[k[m]].kind = KindOf(m)
      OBVIOUS
    <2>1. CASE m = n
      BY <1>1, <1>3, <1>4, <2>1
    <2>2. CASE m # n
      <3>1. m \in A /\ k[m] = l[m] /\ l[m] # p /\ l[m] \in Addr /\ h[l[m]].kind = KindOf(m)
        BY <1>2, <1>4, <1>5, <2>2
      <3> QED
        BY <1>3, <3>1
    <2> QED
      BY <2>1, <2>2
  <1>7. \A a \in Addr : g[a] # Freed => \E m \in A \cup {n} : k[m] = a
    <2> SUFFICES ASSUME NEW a \in Addr, g[a] # Freed PROVE \E m \in A \cup {n} : k[m] = a
      OBVIOUS
    <2>1. CASE a = p
      BY <1>4, <2>1
    <2>2. CASE a # p
      <3>1. PICK m \in A : l[m] = a
        BY <1>2, <1>3, <2>2
      <3> QED
        BY <1>2, <1>4, <3>1
    <2> QED
      BY <2>1, <2>2
  <1>8. \A a \in Addr : CShaped(g[a])
    BY <1>2, <1>3
  <1>9. Holds(g, k, A \cup {n})
    BY <1>2, <1>3, <1>4, <1>6, <1>7, <1>8, Zenon DEF Holds
  <1> QED
    BY <1>1, <1>9, Zenon DEF g, k

\* Other contents behind the same pointers.
LEMMA PointersKeep ==
    ASSUME NEW h, NEW l, NEW A, Holds(h, l, A), NEW g, g = [a \in Addr |-> g[a]],
           \A a \in Addr : CShaped(g[a]) /\ g[a].kind = h[a].kind
    PROVE  Holds(g, l, A)
  <1>1. \A a \in Addr : g[a] # Freed => h[a] # Freed
    <2> SUFFICES ASSUME NEW a \in Addr, h[a] = Freed PROVE g[a] = Freed
      OBVIOUS
    <2>1. g[a].kind = "freed"
      BY DEF Freed
    <2> QED
      BY <2>1, ShapeFacts DEF CShaped
  <1> QED
    BY <1>1 DEF Holds

\* free: the pointer is NULL, or what it points to is gone.
LEMMA PointerDrops ==
    ASSUME NEW h, NEW l, NEW A, Holds(h, l, A), NEW n \in CNames, n \in A \/ l[n] = 0,
           NEW r, r = Drop(h, l[n], KindOf(n))
    PROVE  r.ub = FALSE /\ Holds(r.heap, l, A \ {n})
  <1>1. /\ h = [a \in Addr |-> h[a]] /\ \A a \in Addr : CShaped(h[a])
        /\ l = [m \in CNames |-> l[m]] /\ A \subseteq CNames
        /\ \A m \in A : l[m] \in Addr /\ h[l[m]].kind = KindOf(m)
        /\ \A a \in Addr : h[a] # Freed => \E m \in A : l[m] = a
    BY DEF Holds
  <1>2. CASE l[n] = 0
    <2>1. r.heap = h /\ r.ub = FALSE
      BY <1>2 DEF Drop, NULL, Void, Return
    <2>2. n \notin A
      BY <1>1, <1>2
    <2>3. A \ {n} = A
      BY <2>2
    <2> QED
      BY <2>1, <2>3
  <1>3. CASE l[n] # 0
    <2> DEFINE p == l[n]
               g == [h EXCEPT ![p] = Freed]
    <2>1. n \in A /\ p \in Addr /\ h[p].kind = KindOf(n)
      BY <1>1, <1>3
    <2>2. r.heap = g /\ r.ub = FALSE
      BY <1>3, <2>1 DEF Drop, NULL, Points, Void, Return
    <2>3. g = [a \in Addr |-> g[a]] /\ \A a \in Addr : g[a] = IF a = p THEN Freed ELSE h[a]
      BY <1>1, <2>1
    <2> HIDE DEF g
    <2>4. \A a \in Addr : CShaped(g[a])
      BY <1>1, <2>3 DEF CShaped, Shaped
    <2>5. \A m \in A \ {n} : l[m] # p
      <3>1. \A m \in A \ {n} : KindOf(m) # KindOf(n)
        BY <1>1 DEF KindOf, CNames
      <3> QED
        BY <1>1, <2>1, <3>1
    <2>6. \A m \in A \ {n} : l[m] \in Addr /\ g[l[m]].kind = KindOf(m)
      BY <1>1, <2>3, <2>5
    <2>7. \A a \in Addr : g[a] # Freed => \E m \in A \ {n} : l[m] = a
      BY <1>1, <2>3
    <2>8. Holds(g, l, A \ {n})
      BY <1>1, <2>3, <2>4, <2>6, <2>7 DEF Holds
    <2> QED
      BY <2>2, <2>8
  <1> QED
    BY <1>2, <1>3

\* What a call comes to: it did what it should, or it has set err.
Kept(l, A, r) == r.ub = FALSE /\ Holds(r.heap, l, A)

Failed(l, A, r) ==
    /\ r.ub = FALSE /\ r.ret = 0 /\ r.err \in Addr /\ r.err # 0
    /\ Holds(r.heap, [l EXCEPT !["err"] = r.err], A \cup {"err"})

LEMMA CallFails ==
    ASSUME NEW h, NEW l, NEW A, Holds(h, l, A), "err" \notin A, NEW code
    PROVE  Failed(l, A, Fail(h, code, 0))
  <1> DEFINE x == line_sender_error(code)
             p == Fresh(h)
  <1>1. CShaped(x) /\ x # Freed /\ x.kind = KindOf("err") /\ "err" \in CNames
    BY DEF CShaped, Shaped, line_sender_error, Freed, KindOf, CNames
  <1>2. /\ p \in Addr /\ p # 0
        /\ Holds([h EXCEPT ![p] = x], [l EXCEPT !["err"] = p], A \cup {"err"})
    BY <1>1, PointerTakes
  <1> DEFINE g == [h EXCEPT ![p] = x]
             r == Fail(h, code, 0)
  <1>3. r = [heap |-> g, ret |-> 0, err |-> p, ub |-> FALSE]
    BY DEF Fail
  <1>4. Holds(g, [l EXCEPT !["err"] = p], A \cup {"err"})
    BY <1>2
  <1> HIDE DEF x, p, g, r
  <1>5. r.heap = g /\ r.ret = 0 /\ r.err = p /\ r.ub = FALSE
    BY <1>3
  <1>6. Failed(l, A, r)
    BY <1>2, <1>4, <1>5, Zenon DEF Failed
  <1> QED
    BY <1>6 DEF r

\* What a call of a buffer's method comes to.
Called(l, A, r) == (r.ret = 1 /\ Kept(l, A, r)) \/ Failed(l, A, r)

LEMMA BufferCalls ==
    ASSUME NEW h, NEW l, NEW A, Holds(h, l, A), "err" \notin A, "buffer" \in A, NEW r
    PROVE  Called(l, A, BufferCall(h, l["buffer"], r))
  <1> DEFINE b == l["buffer"]
             w == [h EXCEPT ![b].buf = r.buf]
  <1>1. /\ h = [a \in Addr |-> h[a]] /\ \A a \in Addr : CShaped(h[a])
        /\ b \in Addr /\ h[b].kind = "buffer"
    BY DEF Holds, KindOf
  <1>2. h[b] = line_sender_buffer(h[b].buf, h[b].max_name_len)
    BY <1>1, ShapeFacts DEF CShaped
  <1>3. /\ w = [a \in Addr |-> w[a]] /\ \A a \in Addr : a # b => w[a] = h[a]
        /\ w[b] = line_sender_buffer(r.buf, h[b].max_name_len)
    BY <1>1, <1>2 DEF line_sender_buffer
  <1> HIDE DEF w
  <1>4. CShaped(w[b]) /\ w[b].kind = "buffer"
    BY <1>3 DEF CShaped, Shaped, line_sender_buffer
  <1>5. Holds(w, l, A)
    <2>1. \A a \in Addr : CShaped(w[a]) /\ w[a].kind = h[a].kind
      BY <1>1, <1>3, <1>4
    <2> QED
      BY <1>3, <2>1, PointersKeep
  <1>6. Points(h, b, "buffer")
    BY <1>1 DEF Points, NULL
  <1>7. CASE r.res = "Ok"
    <2>1. BufferCall(h, b, r) = Return(w, 1)
      BY <1>6, <1>7 DEF BufferCall, w, true
    <2> QED
      BY <1>5, <2>1 DEF Return, Called, Kept
  <1>8. CASE r.res # "Ok"
    <2>1. BufferCall(h, b, r) = Fail(w, r.res, 0)
      BY <1>6, <1>8 DEF BufferCall, w, false
    <2> QED
      BY <1>5, <2>1, CallFails DEF Called
  <1> QED
    BY <1>7, <1>8

\* flush, whatever flush_impl makes of the sender and the buffer.
LEMMA FlushCalls ==
    ASSUME NEW h, NEW l, NEW A, Holds(h, l, A), "err" \notin A, "buffer" \in A, "sender" \in A,
           NEW net
    PROVE  Called(l, A, C!line_sender_flush(h, l["sender"], l["buffer"], net))
  <1> DEFINE s == l["sender"]
             b == l["buffer"]
             r == C!flush_impl(h[s].sender, h[b].buf, FALSE, FALSE, net, MaxBufSize)
             w == [h EXCEPT ![s].sender = r.sender, ![b].buf = r.buf]
  <1>1. /\ h = [a \in Addr |-> h[a]] /\ \A a \in Addr : CShaped(h[a])
        /\ b \in Addr /\ h[b].kind = "buffer" /\ s \in Addr /\ h[s].kind = "sender"
    BY DEF Holds, KindOf
  <1>2. /\ h[b] = line_sender_buffer(h[b].buf, h[b].max_name_len)
        /\ h[s] = line_sender(h[s].sender) /\ s # b
    BY <1>1, ShapeFacts DEF CShaped
  <1>3. C!line_sender_flush(h, s, b, net)
          = IF r.res = "Ok" THEN Return(w, 1) ELSE Fail(w, r.res, 0)
    <2>1. C!Points(h, s, "sender") /\ C!Points(h, b, "buffer")
      BY <1>1 DEF C!Points, C!NULL
    <2>2. /\ C!Return(w, C!true) = Return(w, 1)
          /\ C!Fail(w, r.res, C!false) = Fail(w, r.res, 0)
      BY SameInterface, Zenon
    <2>3. C!line_sender_flush(h, s, b, net)
            = IF r.res = "Ok" THEN C!Return(w, C!true) ELSE C!Fail(w, r.res, C!false)
      BY <2>1, Zenon DEF C!line_sender_flush, C!Flush
    <2> QED
      BY <2>2, <2>3, Zenon
  <1> HIDE DEF r
  <1>4. /\ w = [a \in Addr |-> w[a]]
        /\ \A a \in Addr : a # b /\ a # s => w[a] = h[a]
        /\ w[b] = line_sender_buffer(r.buf, h[b].max_name_len)
        /\ w[s] = line_sender(r.sender)
    <2> DEFINE v == [h EXCEPT ![s].sender = r.sender]
    <2>1. /\ v = [a \in Addr |-> v[a]] /\ \A a \in Addr : a # s => v[a] = h[a]
          /\ v[s] = line_sender(r.sender)
      BY <1>1, <1>2 DEF line_sender
    <2>2. w = [v EXCEPT ![b].buf = r.buf]
      OBVIOUS
    <2> HIDE DEF v, w
    <2>3. /\ w = [a \in Addr |-> w[a]] /\ \A a \in Addr : a # b => w[a] = v[a]
          /\ w[b] = line_sender_buffer(r.buf, h[b].max_name_len)
      BY <1>1, <1>2, <2>1, <2>2 DEF line_sender_buffer
    <2> QED
      BY <1>1, <1>2, <2>1, <2>3
  <1> HIDE DEF w
  <1>5. /\ CShaped(w[b]) /\ w[b].kind = "buffer" /\ CShaped(w[s]) /\ w[s].kind = "sender"
    BY <1>4 DEF CShaped, Shaped, line_sender_buffer, line_sender
  <1>6. Holds(w, l, A)
    <2>1. \A a \in Addr : CShaped(w[a]) /\ w[a].kind = h[a].kind
      BY <1>1, <1>4, <1>5
    <2> QED
      BY <1>4, <2>1, PointersKeep
  <1>7. CASE r.res = "Ok"
    BY <1>3, <1>6, <1>7 DEF Return, Called, Kept
  <1>8. CASE r.res # "Ok"
    BY <1>3, <1>6, <1>8, CallFails DEF Called
  <1> QED
    BY <1>7, <1>8

\* A new sender, or an error.
GivenOrFailed(l, A, n, r) ==
    \/ /\ r.ub = FALSE /\ r.ret \in Addr /\ r.ret # 0
       /\ Holds(r.heap, [l EXCEPT ![n] = r.ret], A \cup {n})
    \/ Failed(l, A, r)

LEMMA GiveCalls ==
    ASSUME NEW h, NEW l, NEW A, Holds(h, l, A), NEW n \in CNames, n \notin A,
           NEW x, CShaped(x), x # Freed, x.kind = KindOf(n)
    PROVE  LET r == Give(h, x)
           IN  /\ r.ub = FALSE /\ r.ret \in Addr /\ r.ret # 0
               /\ Holds(r.heap, [l EXCEPT ![n] = r.ret], A \cup {n})
  <1> DEFINE p == Fresh(h)
  <1>1. /\ p \in Addr /\ p # 0 /\ Holds([h EXCEPT ![p] = x], [l EXCEPT ![n] = p], A \cup {n})
    BY PointerTakes
  <1>2. Give(h, x) = [heap |-> [h EXCEPT ![p] = x], ret |-> p, err |-> NULL, ub |-> FALSE]
    BY DEF Give, Return
  <1> HIDE DEF p
  <1> QED
    BY <1>1, <1>2

LEMMA ConfCalls ==
    ASSUME NEW h, NEW l, NEW A, Holds(h, l, A), "err" \notin A, "sender" \notin A,
           NEW c, NEW net
    PROVE  /\ GivenOrFailed(l, A, "sender", C!line_sender_from_conf(h, c, net))
           /\ GivenOrFailed(l, A, "sender", C!line_sender_from_env(h, c, net))
  <1> DEFINE r == C!line_sender_from_conf(h, c, net)
  <1>1. PICK x, code : /\ x = [kind |-> "sender", sender |-> x.sender]
                       /\ r = Give(h, x) \/ r = Fail(h, code, 0)
    <2> DEFINE b == C!user_agent(c.builder, "questdb/c").builder
               x == C!line_sender(C!NewSender(b))
    <2>1. x = [kind |-> "sender", sender |-> x.sender]
      BY DEF C!line_sender
    <2>2. \/ r = Give(h, x) \/ r = Fail(h, C!build(b, net), 0) \/ r = Fail(h, c.res, 0)
      <3> HIDE DEF b, x
      <3>1. c.res # "Ok" => r = Fail(h, c.res, 0)
        BY SameInterface DEF C!line_sender_from_conf, NULL
      <3>2. c.res = "Ok" => r = C!GiveSender(h, b, net)
        BY DEF C!line_sender_from_conf, b
      <3>3. C!GiveSender(h, b, net) = IF C!build(b, net) = "Ok" THEN Give(h, x)
                                      ELSE Fail(h, C!build(b, net), 0)
        BY SameInterface DEF C!GiveSender, x, NULL
      <3> HIDE DEF r
      <3> QED
        BY <3>1, <3>2, <3>3
    <2> HIDE DEF x, b, r
    <2> QED
      BY <2>1, <2>2
  <1>2. CShaped(x) /\ x # Freed /\ x.kind = KindOf("sender") /\ "sender" \in CNames
    BY <1>1 DEF CShaped, Shaped, line_sender, Freed, KindOf, CNames
  <1> HIDE DEF r
  <1>3. GivenOrFailed(l, A, "sender", r)
    <2>1. CASE r = Give(h, x)
      BY <1>2, <2>1, GiveCalls DEF GivenOrFailed
    <2>2. CASE r = Fail(h, code, 0)
      BY <2>2, CallFails DEF GivenOrFailed
    <2> QED
      BY <1>1, <2>1, <2>2
  <1>4. C!line_sender_from_env(h, c, net) = r
    BY DEF C!line_sender_from_env, r
  <1> QED
    BY <1>3, <1>4 DEF r

-----------------------------------------------------------------------------
(***************************************************************************)
(* Where a program in C is: by the number of calls that are left.          *)
(***************************************************************************)
CWords == {"concat", "utf8_init", "utf8_literal", "from_conf", "from_env", "free_conf",
           "buffer_new", "reserve", "table", "symbol", "column_f64", "at_nanos", "flush",
           "close", "error_msg", "error_free", "buffer_free"}

\* The call of c when m are left.
When(c, m) == c[Len(c) + 1 - m]

\* The rest of c is to be done.
Left(t, c) ==
    /\ t \in Seq(CWords) /\ Len(t) <= Len(c)
    /\ \A m \in 1..Len(t) : When(t, m) = When(c, m)

IsRow(c) ==
    /\ When(c, 1) = "close" /\ When(c, 2) = "flush" /\ When(c, 3) = "at_nanos"
    /\ When(c, 4) = "column_f64" /\ When(c, 5) = "column_f64" /\ When(c, 6) = "symbol"
    /\ When(c, 7) = "symbol" /\ When(c, 8) = "table" /\ When(c, 9) = "reserve"
    /\ When(c, 10) = "buffer_new"

\* The three shapes of programs.
IsCCode(c) ==
    /\ c \in Seq(CWords) /\ IsRow(c)
    /\ \/ /\ Len(c) = 14 /\ When(c, 11) = "free_conf" /\ When(c, 12) = "from_conf"
          /\ When(c, 13) = "utf8_init" /\ When(c, 14) = "concat"
       \/ Len(c) = 12 /\ When(c, 11) = "from_conf" /\ When(c, 12) = "utf8_literal"
       \/ Len(c) = 11 /\ When(c, 11) = "from_env"

LEMMA CRow ==
    /\ C!Row \in Seq(CWords) /\ Len(C!Row) = 10
    /\ C!Row[1] = "buffer_new" /\ C!Row[2] = "reserve" /\ C!Row[3] = "table"
    /\ C!Row[4] = "symbol" /\ C!Row[5] = "symbol" /\ C!Row[6] = "column_f64"
    /\ C!Row[7] = "column_f64" /\ C!Row[8] = "at_nanos" /\ C!Row[9] = "flush"
    /\ C!Row[10] = "close"
  BY DEF C!Row, CWords

RowAfter(a, k, c) ==
    /\ c \in Seq(CWords) /\ Len(c) = k + 10 /\ IsRow(c)
    /\ \A i \in 1..k : When(c, 10 + i) = a[k + 1 - i]

LEMMA RowLast ==
    ASSUME NEW a \in Seq(CWords), NEW k \in Nat, Len(a) = k, NEW c, c = a \o C!Row
    PROVE  RowAfter(a, k, c)
  <1>1. Follow(CWords, a, k, C!Row, 10, c)
    <2>1. 10 \in Nat
      OBVIOUS
    <2> QED
      BY <2>1, CRow, Joined, Zenon
  <1>2. /\ c \in Seq(CWords) /\ Len(c) = k + 10
        /\ \A i \in 1..k : c[i] = a[i]
        /\ \A i \in 1..10 : c[k + i] = C!Row[i]
    BY <1>1 DEF Follow
  <1>3. \A m \in 1..10 : When(c, m) = C!Row[11 - m]
    <2> SUFFICES ASSUME NEW m \in 1..10 PROVE When(c, m) = C!Row[11 - m]
      OBVIOUS
    <2>1. 11 - m \in 1..10 /\ Len(c) + 1 - m = k + (11 - m)
      BY <1>2
    <2> QED
      BY <1>2, <2>1 DEF When
  <1>4. \A i \in 1..k : When(c, 10 + i) = a[k + 1 - i]
    <2> SUFFICES ASSUME NEW i \in 1..k PROVE When(c, 10 + i) = a[k + 1 - i]
      OBVIOUS
    <2>1. k + 1 - i \in 1..k /\ Len(c) + 1 - (10 + i) = k + 1 - i
      BY <1>2
    <2> QED
      BY <1>2, <2>1 DEF When
  <1>5. IsRow(c)
    <2>1. /\ When(c, 1) = C!Row[11 - 1] /\ When(c, 2) = C!Row[11 - 2]
          /\ When(c, 3) = C!Row[11 - 3] /\ When(c, 4) = C!Row[11 - 4]
          /\ When(c, 5) = C!Row[11 - 5]
      BY <1>3
    <2>2. /\ When(c, 6) = C!Row[11 - 6] /\ When(c, 7) = C!Row[11 - 7]
          /\ When(c, 8) = C!Row[11 - 8] /\ When(c, 9) = C!Row[11 - 9]
          /\ When(c, 10) = C!Row[11 - 10]
      BY <1>3
    <2> QED
      BY <2>1, <2>2, CRow DEF IsRow
  <1> QED
    BY <1>2, <1>4, <1>5 DEF RowAfter

LEMMA CCodes ==
    ASSUME NEW p \in C!Programs
    PROVE  IsCCode(p.code)
  <1>1. \/ p.code = <<"concat", "utf8_init", "from_conf", "free_conf">> \o C!Row
        \/ p.code = <<"utf8_literal", "from_conf">> \o C!Row
        \/ p.code = <<"from_env">> \o C!Row
    BY DEF C!Programs, C!Program, C!c_example, C!c_example_http, C!c_example_auth,
           C!c_example_auth_tls, C!c_example_tls_ca, C!c_example_from_conf,
           C!c_example_from_env, C!WithConcat
  <1>2. CASE p.code = <<"concat", "utf8_init", "from_conf", "free_conf">> \o C!Row
    <2> DEFINE a == <<"concat", "utf8_init", "from_conf", "free_conf">>
               c == p.code
    <2>1. /\ a \in Seq(CWords) /\ Len(a) = 4 /\ a[1] = "concat" /\ a[2] = "utf8_init"
          /\ a[3] = "from_conf" /\ a[4] = "free_conf"
      BY DEF CWords
    <2>2. c = a \o C!Row
      BY <1>2
    <2> HIDE DEF a, c
    <2>3. /\ c \in Seq(CWords) /\ Len(c) = 4 + 10 /\ IsRow(c)
          /\ \A i \in 1..4 : When(c, 10 + i) = a[4 + 1 - i]
      <3>1. 4 \in Nat
        OBVIOUS
      <3>2. RowAfter(a, 4, c)
        BY <2>1, <2>2, <3>1, RowLast, Zenon
      <3> QED
        BY <3>2 DEF RowAfter
    <2>4. /\ When(c, 10 + 1) = a[4 + 1 - 1] /\ When(c, 10 + 2) = a[4 + 1 - 2]
          /\ When(c, 10 + 3) = a[4 + 1 - 3] /\ When(c, 10 + 4) = a[4 + 1 - 4]
      BY <2>3
    <2>5. IsCCode(c)
      BY <2>1, <2>3, <2>4 DEF IsCCode
    <2> QED
      BY <2>5 DEF c
  <1>3. CASE p.code = <<"utf8_literal", "from_conf">> \o C!Row
    <2> DEFINE a == <<"utf8_literal", "from_conf">>
               c == p.code
    <2>1. a \in Seq(CWords) /\ Len(a) = 2 /\ a[1] = "utf8_literal" /\ a[2] = "from_conf"
      BY DEF CWords
    <2>2. c = a \o C!Row
      BY <1>3
    <2> HIDE DEF a, c
    <2>3. /\ c \in Seq(CWords) /\ Len(c) = 2 + 10 /\ IsRow(c)
          /\ \A i \in 1..2 : When(c, 10 + i) = a[2 + 1 - i]
      <3>1. 2 \in Nat
        OBVIOUS
      <3>2. RowAfter(a, 2, c)
        BY <2>1, <2>2, <3>1, RowLast, Zenon
      <3> QED
        BY <3>2 DEF RowAfter
    <2>4. When(c, 10 + 1) = a[2 + 1 - 1] /\ When(c, 10 + 2) = a[2 + 1 - 2]
      BY <2>3
    <2>5. IsCCode(c)
      BY <2>1, <2>3, <2>4 DEF IsCCode
    <2> QED
      BY <2>5 DEF c
  <1>4. CASE p.code = <<"from_env">> \o C!Row
    <2> DEFINE a == <<"from_env">>
               c == p.code
    <2>1. a \in Seq(CWords) /\ Len(a) = 1 /\ a[1] = "from_env"
      BY DEF CWords
    <2>2. c = a \o C!Row
      BY <1>4
    <2> HIDE DEF a, c
    <2>3. /\ c \in Seq(CWords) /\ Len(c) = 1 + 10 /\ IsRow(c)
          /\ \A i \in 1..1 : When(c, 10 + i) = a[1 + 1 - i]
      <3>1. 1 \in Nat
        OBVIOUS
      <3>2. RowAfter(a, 1, c)
        BY <2>1, <2>2, <3>1, RowLast, Zenon
      <3> QED
        BY <3>2 DEF RowAfter
    <2>4. When(c, 10 + 1) = a[1 + 1 - 1]
      BY <2>3
    <2>5. IsCCode(c)
      BY <2>1, <2>3, <2>4 DEF IsCCode
    <2> QED
      BY <2>5 DEF c
  <1> QED
    BY <1>1, <1>2, <1>3, <1>4

\* on_error.
LEMMA OnErrorFacts ==
    /\ C!OnError \in Seq(CWords) /\ Len(C!OnError) = 5
    /\ When(C!OnError, 5) = "error_msg" /\ When(C!OnError, 4) = "free_conf"
    /\ When(C!OnError, 3) = "error_free" /\ When(C!OnError, 2) = "buffer_free"
    /\ When(C!OnError, 1) = "close"
  BY DEF C!OnError, CWords, When

\* One call less is left.
LEMMA LeftTail ==
    ASSUME NEW t, NEW c, Len(c) \in Nat, Left(t, c), Len(t) > 0
    PROVE  /\ Head(t) = When(c, Len(t)) /\ Len(t) \in Nat
           /\ Left(Tail(t), c) /\ Len(Tail(t)) = Len(t) - 1
           /\ (Tail(t) = <<>> <=> Len(t) = 1)
  <1> DEFINE n == Len(t)
             u == Tail(t)
             k == Len(c)
  <1>1. /\ t \in Seq(CWords) /\ n \in Nat /\ n > 0 /\ n <= k /\ k \in Nat
        /\ \A m \in 1..n : t[n + 1 - m] = When(c, m)
    BY DEF Left, When
  <1>2. u \in Seq(CWords) /\ Len(u) = n - 1 /\ \A i \in 1..(n - 1) : u[i] = t[i + 1]
    BY <1>1
  <1>3. Head(t) = t[1]
    BY <1>1
  <1> HIDE DEF n, u, k
  <1>4. Head(t) = When(c, n)
    <2>1. n \in 1..n /\ n + 1 - n = 1
      BY <1>1
    <2> QED
      BY <1>1, <1>3, <2>1
  <1>5. ASSUME NEW m \in 1..(n - 1) PROVE When(u, m) = When(c, m)
    <2>1. /\ Len(u) + 1 - m = n - m /\ n - m \in 1..(n - 1) /\ m \in 1..n
          /\ (n - m) + 1 = n + 1 - m
      BY <1>1, <1>2
    <2>2. When(u, m) = u[n - m]
      BY <2>1 DEF When
    <2> QED
      BY <1>1, <1>2, <2>1, <2>2
  <1>6. Left(u, c)
    <2>1. Len(u) <= k
      BY <1>1, <1>2
    <2> QED
      BY <1>2, <1>5, <2>1, Zenon DEF Left, k
  <1>7. u = <<>> <=> n = 1
    BY <1>1, <1>2
  <1> QED
    BY <1>1, <1>2, <1>4, <1>6, <1>7 DEF n, u

\* How many calls make a sender's pointer set.
Opens(c) == IF Len(c) = 14 THEN 12 ELSE 11

RowWords == {"reserve", "table", "symbol", "column_f64", "at_nanos", "flush"}

\* Which call it is tells how many are left.
CallAt(c, m, w) ==
    /\ w = "concat" => m = 14 /\ Len(c) = 14
    /\ w = "utf8_init" => m = 13 /\ Len(c) = 14
    /\ w = "utf8_literal" => m = 12 /\ Len(c) = 12
    /\ w \in {"from_conf", "from_env"} => m = Opens(c)
    /\ w = "free_conf" => m = 11 /\ Len(c) = 14
    /\ w = "buffer_new" => m = 10
    /\ w \in RowWords => m \in 2..9
    /\ w = "close" => m = 1
    /\ w \notin {"error_msg", "error_free", "buffer_free"}

LEMMA WhichCall ==
    ASSUME NEW c, IsCCode(c), NEW m \in 1..Len(c)
    PROVE  CallAt(c, m, When(c, m))
  <1> DEFINE k == Len(c)
  <1>1. k \in {11, 12, 14} /\ m \in 1..k
    BY DEF IsCCode
  <1>2. CASE m \in {1, 2, 3, 4, 5}
    BY <1>2 DEF IsCCode, IsRow, CallAt, RowWords
  <1>3. CASE m \in {6, 7, 8, 9, 10}
    BY <1>3 DEF IsCCode, IsRow, CallAt, RowWords
  <1>4. CASE m \in {11, 12, 13, 14}
    <2>1. CASE k = 14
      <3>1. /\ When(c, 11) = "free_conf" /\ When(c, 12) = "from_conf"
            /\ When(c, 13) = "utf8_init" /\ When(c, 14) = "concat"
        BY <2>1 DEF IsCCode
      <3> QED
        BY <1>4, <2>1, <3>1 DEF CallAt, RowWords, Opens
    <2>2. CASE k = 12
      <3>1. When(c, 11) = "from_conf" /\ When(c, 12) = "utf8_literal"
        BY <2>2 DEF IsCCode
      <3>2. m \in {11, 12}
        BY <1>1, <1>4, <2>2
      <3> QED
        BY <2>2, <3>1, <3>2 DEF CallAt, RowWords, Opens
    <2>3. CASE k = 11
      <3>1. When(c, 11) = "from_env"
        BY <2>3 DEF IsCCode
      <3>2. m = 11
        BY <1>1, <1>4, <2>3
      <3> QED
        BY <2>3, <3>1, <3>2 DEF CallAt, RowWords, Opens
    <2> QED
      BY <1>1, <2>1, <2>2, <2>3
  <1>5. m \in 1..14
    <2> HIDE DEF k
    <2> QED
      BY <1>1
  <1>6. m \in {1, 2, 3, 4, 5} \cup {6, 7, 8, 9, 10} \cup {11, 12, 13, 14}
    BY <1>5
  <1> QED
    BY <1>2, <1>3, <1>4, <1>6

ErrorAt(m, w) ==
    /\ w = "error_msg" => m = 5
    /\ w = "free_conf" => m = 4
    /\ w = "error_free" => m = 3
    /\ w = "buffer_free" => m = 2
    /\ w = "close" => m = 1
    /\ w \in {"error_msg", "free_conf", "error_free", "buffer_free", "close"}

LEMMA WhichError ==
    ASSUME NEW m \in 1..5
    PROVE  ErrorAt(m, When(C!OnError, m))
  <1>1. m \in {1, 2, 3, 4, 5}
    OBVIOUS
  <1> QED
    BY <1>1, OnErrorFacts DEF ErrorAt

-----------------------------------------------------------------------------
(***************************************************************************)
(* The invariant of the programs in C: with m calls left, which pointers   *)
(* are set, and which are to something that was freed.                     *)
(***************************************************************************)
Gone(l, m, n) ==
    \/ n = "err" /\ m <= 2
    \/ n = "buffer" /\ l["err"] # 0 /\ m <= 1
    \/ n = "sender" /\ m = 0

Held(l, m) == {n \in CNames : l[n] # 0 /\ ~Gone(l, m, n)}

\* Before on_error.
Settled(l, m, c) ==
    /\ l["conf_str"] # 0 <=> Len(c) = 14 /\ m \in 11..13
    /\ l["sender"] # 0 <=> m < Opens(c)
    /\ l["buffer"] # 0 <=> m <= 9

CPlace(l, t, st, c) ==
    /\ IsCCode(c) /\ Len(t) \in Nat
    /\ st \in {"running", "0", "1"} /\ (st = "running" <=> Len(t) > 0)
    /\ l["err"] = 0 /\ Len(t) > 0 => Left(t, c) /\ Settled(l, Len(t), c)
    /\ l["err"] # 0 => Left(t, C!OnError) /\ (Len(t) <= 3 => l["conf_str"] = 0)
    /\ Len(t) = 0 => /\ l["conf_str"] = 0
                     /\ st = "1" => l["err"] # 0 \/ l["buffer"] = 0
                     /\ st = "0" => l["err"] = 0

CInv ==
    /\ ub = FALSE
    /\ Holds(heap, loc, Held(loc, Len(todo)))
    /\ CPlace(loc, todo, status, prog.code)

\* A call before on_error.
OnWay(name, m, c) ==
    /\ m \in 1..Len(c) /\ m = Len(todo) /\ Len(c) \in {11, 12, 14} /\ c = prog.code
    /\ CallAt(c, m, name) /\ Settled(loc, m, c) /\ IsCCode(c)
    /\ Left(Tail(todo), c) /\ Len(Tail(todo)) = m - 1 /\ (Tail(todo) = <<>> <=> m = 1)
    /\ Holds(heap, loc, Held(loc, m))

LEMMA CCall ==
    ASSUME CInv, NEW name, C!Calls(name), loc["err"] = 0
    PROVE  \E m, c : OnWay(name, m, c)
  <1> DEFINE m == Len(todo)
             c == prog.code
             k == Len(c)
  <1>1. m \in Nat /\ m > 0 /\ IsCCode(c) /\ Left(todo, c) /\ Settled(loc, m, c)
    BY DEF CInv, CPlace, C!Calls
  <1>2. k \in {11, 12, 14} /\ m <= k
    BY <1>1 DEF IsCCode, Left
  <1>3. /\ Head(todo) = When(c, m) /\ Left(Tail(todo), c) /\ Len(Tail(todo)) = m - 1
        /\ (Tail(todo) = <<>> <=> m = 1)
    <2>1. k \in Nat
      <3> HIDE DEF k
      <3> QED
        BY <1>2
    <2> QED
      BY <1>1, <2>1, LeftTail
  <1>4. m \in 1..k
    <2> HIDE DEF m, k
    <2> QED
      BY <1>1, <1>2
  <1>5. CallAt(c, m, name)
    BY <1>1, <1>3, <1>4, WhichCall DEF C!Calls
  <1>6. OnWay(name, m, c)
    BY <1>1, <1>2, <1>3, <1>4, <1>5, Zenon DEF OnWay, CInv
  <1> HIDE DEF m, c
  <1> QED
    BY <1>6

\* A call of on_error.
OnErrorWay(name, m) ==
    /\ m \in 1..5 /\ m = Len(todo) /\ ErrorAt(m, name)
    /\ m <= 3 => loc["conf_str"] = 0
    /\ IsCCode(prog.code)
    /\ Left(Tail(todo), C!OnError) /\ Len(Tail(todo)) = m - 1 /\ (Tail(todo) = <<>> <=> m = 1)
    /\ Holds(heap, loc, Held(loc, m))

LEMMA CErrorCall ==
    ASSUME CInv, NEW name, C!Calls(name), loc["err"] # 0
    PROVE  \E m : OnErrorWay(name, m)
  <1> DEFINE m == Len(todo)
             c == C!OnError
  <1>1. /\ m \in Nat /\ m > 0 /\ Left(todo, c) /\ (m <= 3 => loc["conf_str"] = 0)
        /\ IsCCode(prog.code)
    BY DEF CInv, CPlace, C!Calls
  <1>2. m <= Len(c) /\ Len(c) = 5
    BY <1>1, OnErrorFacts DEF Left
  <1>3. /\ Head(todo) = When(c, m) /\ Left(Tail(todo), c) /\ Len(Tail(todo)) = m - 1
        /\ (Tail(todo) = <<>> <=> m = 1)
    <2>1. Len(c) \in Nat
      BY <1>2
    <2> HIDE DEF c
    <2> QED
      BY <1>1, <2>1, LeftTail
  <1>4. m \in 1..5
    <2> HIDE DEF m
    <2> QED
      BY <1>1, <1>2
  <1>5. ErrorAt(m, name)
    BY <1>3, <1>4, WhichError DEF C!Calls
  <1>6. OnErrorWay(name, m)
    BY <1>1, <1>3, <1>4, <1>5, Zenon DEF OnErrorWay, CInv
  <1> HIDE DEF m
  <1> QED
    BY <1>6

\* The way goes on.
LEMMA CGoesOn ==
    ASSUME NEW name, NEW m, NEW c, OnWay(name, m, c), NEW r, C!Continues(r), r.ub = FALSE,
           NEW l, loc' = l, l["err"] = 0, Holds(r.heap, l, Held(l, m - 1)),
           m > 1 => Settled(l, m - 1, c), m = 1 => l["conf_str"] = 0
    PROVE  CInv'
  <1>1. /\ heap' = r.heap /\ ub' = FALSE /\ todo' = Tail(todo) /\ prog' = prog
        /\ status' = IF todo' # <<>> THEN "running" ELSE IF loc'.err = NULL THEN "0" ELSE "1"
    BY SameInterface DEF C!Continues
  <1>2. /\ m \in Nat /\ m > 0 /\ Len(todo') = m - 1 /\ (todo' = <<>> <=> m = 1)
        /\ Left(todo', c) /\ IsCCode(c) /\ c = prog'.code
    BY <1>1 DEF OnWay
  <1>3. status' = IF m # 1 THEN "running" ELSE "0"
    BY <1>1, <1>2 DEF NULL
  <1> DEFINE n == Len(todo')
  <1>4. n = m - 1 /\ n \in Nat /\ (n > 0 <=> m > 1) /\ (n = 0 <=> m = 1)
    BY <1>2
  <1> HIDE DEF n
  <1>5. CPlace(loc', todo', status', c)
    <2>1. n > 0 => Settled(loc', n, c)
      BY <1>4
    <2>2. /\ status' \in {"running", "0", "1"} /\ (status' = "running" <=> n > 0)
          /\ n = 0 => loc'["conf_str"] = 0 /\ status' = "0"
      BY <1>2, <1>3, <1>4
    <2>3. status' = "0" => status' # "1"
      OBVIOUS
    <2> QED
      BY <1>2, <1>4, <2>1, <2>2, <2>3, Zenon DEF CPlace, n
  <1>6. Holds(heap', loc', Held(loc', n))
    BY <1>1, <1>4
  <1> QED
    BY <1>1, <1>2, <1>5, <1>6 DEF CInv, n

LEMMA CErrorGoesOn ==
    ASSUME NEW name, NEW m, OnErrorWay(name, m), NEW r, C!Continues(r), r.ub = FALSE,
           NEW l, loc' = l, l["err"] # 0, Holds(r.heap, l, Held(l, m - 1)),
           m - 1 <= 3 => l["conf_str"] = 0
    PROVE  CInv'
  <1>1. /\ heap' = r.heap /\ ub' = FALSE /\ todo' = Tail(todo) /\ prog' = prog
        /\ status' = IF todo' # <<>> THEN "running" ELSE IF loc'.err = NULL THEN "0" ELSE "1"
    BY SameInterface DEF C!Continues
  <1>2. /\ m \in Nat /\ m > 0 /\ Len(todo') = m - 1 /\ (todo' = <<>> <=> m = 1)
        /\ Left(todo', C!OnError) /\ IsCCode(prog'.code)
    BY <1>1 DEF OnErrorWay
  <1>3. status' = IF m # 1 THEN "running" ELSE "1"
    BY <1>1, <1>2 DEF NULL
  <1> DEFINE n == Len(todo')
  <1>4. n = m - 1 /\ n \in Nat /\ (n > 0 <=> m > 1) /\ (n = 0 <=> m = 1)
    BY <1>2
  <1> HIDE DEF n
  <1>5. CPlace(loc', todo', status', prog'.code)
    <2>1. (n <= 3 => loc'["conf_str"] = 0) /\ (n = 0 => n <= 3)
      BY <1>4
    <2>2. /\ status' \in {"running", "0", "1"} /\ (status' = "running" <=> n > 0)
          /\ status' # "0"
      BY <1>2, <1>3, <1>4
    <2> QED
      BY <1>2, <1>4, <2>1, <2>2, Zenon DEF CPlace, n
  <1>6. Holds(heap', loc', Held(loc', n))
    BY <1>1, <1>4
  <1> QED
    BY <1>1, <1>2, <1>5, <1>6 DEF CInv, n

\* goto on_error.
LEMMA CFailsOn ==
    ASSUME CInv, NEW name, C!Calls(name), loc["err"] = 0, NEW m, NEW c, OnWay(name, m, c),
           NEW r, C!Fails(r), Failed(loc, Held(loc, m), r)
    PROVE  CInv'
  <1>1. /\ heap' = r.heap /\ ub' = r.ub /\ loc' = [loc EXCEPT !["err"] = r.err]
        /\ todo' = C!OnError /\ prog' = prog /\ status' = "running"
    BY DEF C!Fails, C!Calls
  <1>2. /\ ub' = FALSE /\ r.err # 0
        /\ Holds(heap', [loc EXCEPT !["err"] = r.err], Held(loc, m) \cup {"err"})
    BY <1>1 DEF Failed
  <1>3. m \in Nat /\ m > 0 /\ loc = [n \in CNames |-> loc[n]]
    BY DEF OnWay, Holds
  <1>4. /\ loc'["err"] = r.err
        /\ \A n \in CNames \ {"err"} : loc'[n] = loc[n]
    BY <1>1, <1>3 DEF CNames
  <1>5. Held(loc', 5) = Held(loc, m) \cup {"err"}
    BY <1>2, <1>3, <1>4 DEF Held, Gone, CNames
  <1>6. Left(C!OnError, C!OnError) /\ Len(C!OnError) = 5
    BY OnErrorFacts DEF Left
  <1>7. CPlace(loc', todo', status', prog'.code)
    <2>1. IsCCode(prog'.code)
      BY <1>1 DEF OnWay
    <2>2. Len(todo') = 5 /\ Left(todo', C!OnError)
      BY <1>1, <1>6
    <2>3. loc'["err"] # 0
      BY <1>2, <1>4
    <2> HIDE DEF CPlace
    <2> QED
      BY <1>1, <2>1, <2>2, <2>3 DEF CPlace
  <1>8. Len(todo') = 5
    BY <1>1, <1>6
  <1> QED
    BY <1>1, <1>2, <1>5, <1>7, <1>8, Zenon DEF CInv

\* Which of the two ways a call is on.
LEMMA Ways ==
    ASSUME CInv, NEW name, C!Calls(name)
    PROVE  /\ name \notin {"error_msg", "free_conf", "error_free", "buffer_free", "close"}
                => loc["err"] = 0
           /\ name \in {"error_msg", "error_free", "buffer_free"} => loc["err"] # 0
  <1>1. loc["err"] = 0 => name \notin {"error_msg", "error_free", "buffer_free"}
    BY CCall DEF OnWay, CallAt
  <1>2. loc["err"] # 0
          => name \in {"error_msg", "free_conf", "error_free", "buffer_free", "close"}
    BY CErrorCall DEF OnErrorWay, ErrorAt
  <1> QED
    BY <1>1, <1>2

QuietCalls == RowWords \cup {"utf8_init", "utf8_literal"}

\* A call that neither takes nor frees an object.
LEMMA CStays ==
    ASSUME NEW name \in QuietCalls, NEW m, NEW c, OnWay(name, m, c), loc["err"] = 0,
           NEW r, C!Continues(r), loc' = loc, Kept(loc, Held(loc, m), r)
    PROVE  CInv'
  <1>1. /\ m \in Nat /\ CallAt(c, m, name) /\ Settled(loc, m, c) /\ Len(c) \in {11, 12, 14}
        /\ m > 0
    BY DEF OnWay
  <1>2. m \in 2..9 \/ (m = 13 /\ Len(c) = 14) \/ (m = 12 /\ Len(c) = 12)
    <2>1. CASE name \in RowWords
      BY <1>1, <2>1, Zenon DEF CallAt
    <2>2. CASE name \in {"utf8_init", "utf8_literal"}
      BY <1>1, <2>2, Zenon DEF CallAt
    <2> QED
      BY <2>1, <2>2 DEF QuietCalls
  <1>3. Held(loc, m - 1) = Held(loc, m)
    BY <1>1, <1>2 DEF Held, Gone
  <1>4. Settled(loc, m - 1, c) /\ m > 1
    BY <1>1, <1>2 DEF Settled, Opens
  <1>5. r.ub = FALSE /\ Holds(r.heap, loc, Held(loc, m - 1))
    BY <1>3 DEF Kept
  <1>6. m = 1 => loc["conf_str"] = 0
    BY <1>4
  <1> QED
    BY <1>4, <1>5, <1>6, CGoesOn, Zenon

LEMMA CChecks ==
    ASSUME CInv, NEW name \in QuietCalls, C!Calls(name), NEW r, C!Checked(r), loc["err"] = 0,
           \A m, c : OnWay(name, m, c) => Called(loc, Held(loc, m), r)
    PROVE  CInv'
  <1>1. PICK m, c : OnWay(name, m, c)
    BY CCall
  <1>2. Called(loc, Held(loc, m), r)
    BY <1>1
  <1>3. CASE r.ret = 1 /\ Kept(loc, Held(loc, m), r)
    <2>1. C!Continues(r) /\ loc' = loc
      BY <1>3 DEF C!Checked
    <2> QED
      BY <1>1, <1>3, <2>1, CStays
  <1>4. CASE Failed(loc, Held(loc, m), r)
    <2>1. C!Fails(r)
      BY <1>4 DEF C!Checked, Failed
    <2> QED
      BY <1>1, <1>4, <2>1, CFailsOn
  <1> QED
    BY <1>2, <1>3, <1>4 DEF Called

\* What is held on the way.
LEMMA HeldOnWay ==
    ASSUME NEW name, NEW m, NEW c, OnWay(name, m, c), loc["err"] = 0
    PROVE  /\ "err" \notin Held(loc, m)
           /\ "sender" \in Held(loc, m) <=> m < Opens(c)
           /\ "buffer" \in Held(loc, m) <=> m <= 9
           /\ "conf_str" \in Held(loc, m) <=> Len(c) = 14 /\ m \in 11..13
  <1>1. m \in Nat /\ Settled(loc, m, c) /\ m > 0
    BY DEF OnWay
  <1> DEFINE k == Len(c)
  <1>2. /\ loc["conf_str"] # 0 <=> k = 14 /\ m \in 11..13
        /\ loc["sender"] # 0 <=> m < Opens(c)
        /\ loc["buffer"] # 0 <=> m <= 9
    BY <1>1 DEF Settled
  <1>3. /\ ~Gone(loc, m, "sender") /\ ~Gone(loc, m, "buffer") /\ ~Gone(loc, m, "conf_str")
    BY <1>1 DEF Gone
  <1> HIDE DEF k
  <1>4. \A n \in CNames : n \in Held(loc, m) <=> loc[n] # 0 /\ ~Gone(loc, m, n)
    BY DEF Held
  <1>5. "err" \in CNames /\ "sender" \in CNames /\ "buffer" \in CNames /\ "conf_str" \in CNames
    BY DEF CNames
  <1> QED
    BY <1>2, <1>3, <1>4, <1>5, Zenon DEF k

LEMMA CTakes ==
    ASSUME NEW name, NEW m, NEW c, OnWay(name, m, c), loc["err"] = 0, m > 1,
           NEW n \in {"conf_str", "sender", "buffer"},
           NEW r, C!Continues(r), r.ub = FALSE, r.ret # 0,
           Holds(r.heap, [loc EXCEPT ![n] = r.ret], Held(loc, m) \cup {n}),
           loc' = [loc EXCEPT ![n] = r.ret],
           Settled(loc', m - 1, c)
    PROVE  CInv'
  <1>1. m \in Nat /\ loc = [k \in CNames |-> loc[k]]
    BY DEF OnWay, Holds
  <1>2. loc'[n] = r.ret /\ \A k \in CNames \ {n} : loc'[k] = loc[k]
    BY <1>1 DEF CNames
  <1>3. loc'["err"] = 0
    BY <1>2 DEF CNames
  <1>4. Held(loc', m - 1) = Held(loc, m) \cup {n}
    BY <1>1, <1>2, <1>3 DEF Held, Gone, CNames
  <1> DEFINE l == [loc EXCEPT ![n] = r.ret]
  <1>5. loc' = l
    OBVIOUS
  <1> HIDE DEF l
  <1>6. /\ l["err"] = 0 /\ Holds(r.heap, l, Held(l, m - 1)) /\ Settled(l, m - 1, c)
    BY <1>3, <1>4, <1>5 DEF l
  <1>7. m = 1 => l["conf_str"] = 0
    BY <1>1
  <1> QED
    BY <1>5, <1>6, <1>7, CGoesOn, Zenon

LEMMA ConcatKeeps ==
    ASSUME CInv, C!Concat
    PROVE  CInv'
  <1>1. C!Calls("concat")
    BY DEF C!Concat
  <1>2. loc["err"] = 0
    BY <1>1, Ways
  <1>3. PICK m, c : OnWay("concat", m, c)
    BY <1>1, <1>2, CCall
  <1>4. m = 14 /\ Len(c) = 14 /\ Settled(loc, m, c) /\ Holds(heap, loc, Held(loc, m))
    BY <1>3 DEF OnWay, CallAt
  <1>5. loc["conf_str"] = 0 /\ loc["sender"] = 0 /\ loc["buffer"] = 0
    BY <1>4 DEF Settled, Opens
  <1>6. Held(loc, m) = {} /\ Held(loc, 0) = {}
    BY <1>2, <1>5 DEF Held, CNames
  <1> DEFINE x == [kind |-> "text"]
             r == Give(heap, x)
  <1>7. ASSUME loc' = [loc EXCEPT !.conf_str = r.ret], C!Continues(r) PROVE CInv'
    <2>1. CShaped(x) /\ x # Freed /\ x.kind = KindOf("conf_str") /\ "conf_str" \in CNames
      BY DEF CShaped, Freed, KindOf, CNames
    <2>2. "conf_str" \notin Held(loc, m)
      BY <1>6
    <2> HIDE DEF x
    <2>3. /\ r.ub = FALSE /\ r.ret \in Addr /\ r.ret # 0
          /\ Holds(r.heap, [loc EXCEPT !["conf_str"] = r.ret], Held(loc, m) \cup {"conf_str"})
      BY <1>4, <2>1, <2>2, GiveCalls
    <2> HIDE DEF r
    <2>4. loc' = [loc EXCEPT !["conf_str"] = r.ret]
      BY <1>7
    <2>5. loc = [k \in CNames |-> loc[k]]
      BY <1>4 DEF Holds
    <2>6. loc'["conf_str"] # 0 /\ loc'["sender"] = 0 /\ loc'["buffer"] = 0
      BY <1>5, <2>3, <2>4, <2>5 DEF CNames
    <2>7. Settled(loc', m - 1, c) /\ m > 1
      BY <1>4, <2>6 DEF Settled, Opens
    <2> QED
      BY <1>2, <1>3, <1>7, <2>3, <2>4, <2>7, CTakes
  <1>8. ASSUME status' = "1", todo' = <<>>, UNCHANGED <<prog, loc, heap, sent, ub>> PROVE CInv'
    <2>1. IsCCode(prog.code)
      BY DEF CInv, CPlace
    <2>2. Len(todo') = 0
      BY <1>8
    <2>3. CPlace(loc', todo', status', prog'.code)
      BY <1>2, <1>5, <1>8, <2>1, <2>2 DEF CPlace
    <2>4. Holds(heap', loc', Held(loc', Len(todo')))
      BY <1>4, <1>6, <1>8, <2>2
    <2> QED
      BY <1>8, <2>3, <2>4 DEF CInv
  <1>9. C!Give(heap, x) = r
    BY SameInterface, Zenon
  <1> HIDE DEF r
  <1>10. \/ loc' = [loc EXCEPT !.conf_str = r.ret] /\ C!Continues(r)
         \/ status' = "1" /\ todo' = <<>> /\ UNCHANGED <<prog, loc, heap, sent, ub>>
    BY <1>9 DEF C!Concat
  <1> QED
    BY <1>7, <1>8, <1>10

LEMMA Utf8Keeps ==
    ASSUME CInv, C!Utf8Init \/ C!Utf8Literal
    PROVE  CInv'
  <1>1. CASE C!Utf8Init
    <2>1. PICK s : C!Calls("utf8_init") /\ C!Checked(C!line_sender_utf8_init(heap, s))
      BY <1>1 DEF C!Utf8Init
    <2>2. loc["err"] = 0
      BY <2>1, Ways
    <2> DEFINE r == C!line_sender_utf8_init(heap, s)
    <2>3. r = Fail(heap, "InvalidUtf8", 0) \/ r = Return(heap, 1)
      <3>1. /\ C!Fail(heap, "InvalidUtf8", C!false) = Fail(heap, "InvalidUtf8", 0)
            /\ C!Return(heap, C!true) = Return(heap, 1)
        BY SameInterface, Zenon
      <3> QED
        BY <3>1, Zenon DEF C!line_sender_utf8_init
    <2> HIDE DEF r
    <2>4. ASSUME NEW m, NEW c, OnWay("utf8_init", m, c) PROVE Called(loc, Held(loc, m), r)
      <3>1. "err" \notin Held(loc, m) /\ Holds(heap, loc, Held(loc, m))
        BY <2>2, <2>4, HeldOnWay DEF OnWay
      <3>2. CASE r = Fail(heap, "InvalidUtf8", 0)
        BY <3>1, <3>2, CallFails DEF Called
      <3>3. CASE r = Return(heap, 1)
        BY <3>1, <3>3 DEF Called, Kept, Return
      <3> QED
        BY <2>3, <3>2, <3>3
    <2>5. "utf8_init" \in QuietCalls
      BY DEF QuietCalls
    <2>6. C!Calls("utf8_init") /\ C!Checked(r)
      BY <2>1 DEF r
    <2> QED
      BY <2>2, <2>4, <2>5, <2>6, CChecks
  <1>2. CASE C!Utf8Literal
    <2> DEFINE r == C!line_sender_utf8_assert(heap, "text")
    <2>1. C!Calls("utf8_literal") /\ C!Continues(r) /\ loc' = loc
      BY <1>2 DEF C!Utf8Literal, C!Plain
    <2>2. r.heap = heap /\ r.ub = FALSE
      BY DEF C!line_sender_utf8_assert, C!NotUtf8, C!Return
    <2> HIDE DEF r
    <2>3. loc["err"] = 0
      BY <2>1, Ways
    <2>4. PICK m, c : OnWay("utf8_literal", m, c)
      BY <2>1, <2>3, CCall
    <2>5. Kept(loc, Held(loc, m), r)
      BY <2>2, <2>4 DEF Kept, OnWay
    <2>6. "utf8_literal" \in QuietCalls
      BY DEF QuietCalls
    <2> QED
      BY <2>1, <2>3, <2>4, <2>5, <2>6, CStays
  <1> QED
    BY <1>1, <1>2

LEMMA FromKeeps ==
    ASSUME CInv, C!FromConf \/ C!FromEnv
    PROVE  CInv'
  <1>1. PICK name \in {"from_conf", "from_env"}, conf \in C!ConfResults, net \in BuildNet :
          /\ C!Calls(name)
          /\ \/ C!Assigned(C!line_sender_from_conf(heap, conf, net))
             \/ C!Assigned(C!line_sender_from_env(heap, conf, net))
    BY DEF C!FromConf, C!FromEnv
  <1>2. loc["err"] = 0
    BY <1>1, Ways
  <1>3. PICK m, c : OnWay(name, m, c)
    BY <1>1, <1>2, CCall
  <1>4. /\ m = Opens(c) /\ Settled(loc, m, c) /\ Holds(heap, loc, Held(loc, m))
        /\ loc = [k \in CNames |-> loc[k]] /\ Len(c) \in {11, 12, 14}
    BY <1>3 DEF OnWay, CallAt, Holds
  <1>5. (m = 12 /\ Len(c) = 14) \/ (m = 11 /\ Len(c) # 14)
    BY <1>4 DEF Opens
  <1>6. "err" \notin Held(loc, m) /\ "sender" \notin Held(loc, m)
    BY <1>2, <1>3, <1>4, <1>5, HeldOnWay
  <1>7. PICK r : C!Assigned(r) /\ GivenOrFailed(loc, Held(loc, m), "sender", r)
    BY <1>1, <1>4, <1>6, ConfCalls
  <1>8. CASE Failed(loc, Held(loc, m), r)
    <2>1. C!Fails(r)
      BY <1>7, <1>8, SameInterface DEF C!Assigned, Failed, NULL
    <2> QED
      BY <1>1, <1>2, <1>3, <1>8, <2>1, CFailsOn
  <1>9. CASE ~Failed(loc, Held(loc, m), r)
    <2>1. /\ r.ub = FALSE /\ r.ret \in Addr /\ r.ret # 0
          /\ Holds(r.heap, [loc EXCEPT !["sender"] = r.ret], Held(loc, m) \cup {"sender"})
      BY <1>7, <1>9 DEF GivenOrFailed
    <2>2. loc' = [loc EXCEPT !["sender"] = r.ret] /\ C!Continues(r)
      BY <1>7, <2>1, SameInterface DEF C!Assigned, NULL
    <2>3. /\ loc'["sender"] # 0 /\ loc'["conf_str"] = loc["conf_str"]
          /\ loc'["buffer"] = loc["buffer"]
      BY <1>4, <2>1, <2>2 DEF CNames
    <2>4. Settled(loc', m - 1, c) /\ m > 1
      BY <1>4, <1>5, <2>3 DEF Settled, Opens
    <2> QED
      BY <1>2, <1>3, <2>1, <2>2, <2>4, CTakes
  <1> QED
    BY <1>8, <1>9

\* A pointer that holds nothing may be set to NULL.
LEMMA PointerClears ==
    ASSUME NEW h, NEW l, NEW A, Holds(h, l, A), NEW n \in CNames, n \notin A
    PROVE  Holds(h, [l EXCEPT ![n] = 0], A)
  <1> DEFINE k == [l EXCEPT ![n] = 0]
  <1>1. /\ h = [a \in Addr |-> h[a]] /\ \A a \in Addr : CShaped(h[a])
        /\ l = [m \in CNames |-> l[m]] /\ A \subseteq CNames
        /\ \A m \in A : l[m] \in Addr /\ h[l[m]].kind = KindOf(m)
        /\ \A a \in Addr : h[a] # Freed => \E m \in A : l[m] = a
    BY DEF Holds
  <1>2. k = [m \in CNames |-> k[m]] /\ \A m \in A : k[m] = l[m]
    BY <1>1
  <1> HIDE DEF k
  <1>3. Holds(h, k, A)
    BY <1>1, <1>2 DEF Holds
  <1> QED
    BY <1>3 DEF k

\* free(conf_str), before on_error and in it.
LEMMA FreeConfKeeps ==
    ASSUME CInv, C!FreeConf
    PROVE  CInv'
  <1> DEFINE r == Drop(heap, loc["conf_str"], KindOf("conf_str"))
             l == [loc EXCEPT !["conf_str"] = 0]
  <1>1. C!Calls("free_conf") /\ loc' = l /\ C!Continues(r)
    <2>1. C!Drop(heap, loc.conf_str, "text") = r
      BY SameInterface DEF KindOf
    <2>2. C!Continues(C!Drop(heap, loc.conf_str, "text"))
      BY DEF C!FreeConf
    <2>3. C!Calls("free_conf") /\ loc' = l
      BY SameInterface DEF C!FreeConf, NULL
    <2> HIDE DEF r, l
    <2> QED
      BY <2>1, <2>2, <2>3, Zenon
  <1>2. "conf_str" \in CNames
    BY DEF CNames
  <1>3. ASSUME NEW A, Holds(heap, loc, A), "conf_str" \in A \/ loc["conf_str"] = 0
        PROVE  r.ub = FALSE /\ Holds(r.heap, l, A \ {"conf_str"})
    <2>1. r.ub = FALSE /\ Holds(r.heap, loc, A \ {"conf_str"})
      BY <1>2, <1>3, PointerDrops
    <2> HIDE DEF r
    <2> QED
      BY <1>2, <2>1, PointerClears
  <1> HIDE DEF r
  <1>4. CASE loc["err"] = 0
    <2>1. PICK m, c : OnWay("free_conf", m, c)
      BY <1>1, <1>4, CCall
    <2>2. /\ m = 11 /\ Len(c) = 14 /\ Settled(loc, m, c) /\ Holds(heap, loc, Held(loc, m))
      BY <2>1 DEF OnWay, CallAt
    <2>3. "conf_str" \in Held(loc, m)
      BY <1>4, <2>1, <2>2, HeldOnWay
    <2>4. loc = [n \in CNames |-> loc[n]]
      BY <2>2 DEF Holds
    <2>5. l["conf_str"] = 0 /\ \A n \in CNames \ {"conf_str"} : l[n] = loc[n]
      BY <1>2, <2>4
    <2>6. l["err"] = 0 /\ l["sender"] = loc["sender"] /\ l["buffer"] = loc["buffer"]
      BY <1>4, <2>5 DEF CNames
    <2>7. r.ub = FALSE /\ Holds(r.heap, l, Held(loc, m) \ {"conf_str"})
      BY <1>3, <2>2, <2>3
    <2> HIDE DEF l
    <2>8. Held(l, m - 1) = Held(loc, m) \ {"conf_str"}
      BY <1>4, <2>2, <2>5, <2>6 DEF Held, Gone
    <2>9. Settled(l, m - 1, c)
      BY <2>2, <2>5, <2>6 DEF Settled, Opens
    <2>10. Holds(r.heap, l, Held(l, m - 1))
      BY <2>7, <2>8
    <2> QED
      BY <1>1, <2>1, <2>5, <2>6, <2>7, <2>9, <2>10, CGoesOn, Zenon
  <1>5. CASE loc["err"] # 0
    <2>1. PICK m : OnErrorWay("free_conf", m)
      BY <1>1, <1>5, CErrorCall
    <2>2. m = 4 /\ Holds(heap, loc, Held(loc, m))
      BY <2>1 DEF OnErrorWay, ErrorAt
    <2>3. "conf_str" \in Held(loc, m) \/ loc["conf_str"] = 0
      BY <1>2, <2>2 DEF Held, Gone
    <2>4. loc = [n \in CNames |-> loc[n]]
      BY <2>2 DEF Holds
    <2>5. l["conf_str"] = 0 /\ \A n \in CNames \ {"conf_str"} : l[n] = loc[n]
      BY <1>2, <2>4
    <2>6. l["err"] # 0
      BY <1>5, <2>5 DEF CNames
    <2>7. r.ub = FALSE /\ Holds(r.heap, l, Held(loc, m) \ {"conf_str"})
      BY <1>3, <2>2, <2>3
    <2> HIDE DEF l
    <2>8. Held(l, m - 1) = Held(loc, m) \ {"conf_str"}
      BY <2>2, <2>5 DEF Held, Gone
    <2>9. Holds(r.heap, l, Held(l, m - 1))
      BY <2>7, <2>8
    <2> QED
      BY <1>1, <2>1, <2>5, <2>6, <2>7, <2>9, CErrorGoesOn, Zenon
  <1> QED
    BY <1>4, <1>5

LEMMA BufferNewKeeps ==
    ASSUME CInv, C!BufferNew
    PROVE  CInv'
  <1> DEFINE x == C!line_sender_buffer(C!NewBuffer, 127)
             r == Give(heap, x)
  <1>1. C!line_sender_buffer_new(heap) = r
    BY SameInterface, Zenon DEF C!line_sender_buffer_new, C!line_sender_buffer_with_max_name_len
  <1>2. CShaped(x) /\ x # Freed /\ x.kind = KindOf("buffer") /\ "buffer" \in CNames
    <2>1. x = line_sender_buffer(x.buf, 127)
      BY DEF line_sender_buffer, C!line_sender_buffer
    <2> HIDE DEF x
    <2> QED
      BY <2>1 DEF CShaped, Shaped, line_sender_buffer, Freed, KindOf, CNames
  <1> HIDE DEF x, r
  <1>3. C!Calls("buffer_new") /\ loc' = [loc EXCEPT !["buffer"] = r.ret] /\ C!Continues(r)
    BY <1>1 DEF C!BufferNew
  <1>4. loc["err"] = 0
    BY <1>3, Ways
  <1>5. PICK m, c : OnWay("buffer_new", m, c)
    BY <1>3, <1>4, CCall
  <1>6. /\ m = 10 /\ Settled(loc, m, c) /\ Holds(heap, loc, Held(loc, m))
        /\ loc = [n \in CNames |-> loc[n]] /\ Len(c) \in {11, 12, 14}
    BY <1>5 DEF OnWay, CallAt, Holds
  <1>7. "buffer" \notin Held(loc, m)
    BY <1>4, <1>5, <1>6, HeldOnWay
  <1>8. /\ r.ub = FALSE /\ r.ret \in Addr /\ r.ret # 0
        /\ Holds(r.heap, [loc EXCEPT !["buffer"] = r.ret], Held(loc, m) \cup {"buffer"})
    BY <1>2, <1>6, <1>7, GiveCalls DEF r
  <1>9. /\ loc'["buffer"] # 0 /\ loc'["conf_str"] = loc["conf_str"]
        /\ loc'["sender"] = loc["sender"]
    BY <1>3, <1>6, <1>8 DEF CNames
  <1>10. Settled(loc', m - 1, c) /\ m > 1
    BY <1>6, <1>9 DEF Settled, Opens
  <1> QED
    BY <1>3, <1>4, <1>5, <1>8, <1>10, CTakes

\* reserve reads the buffer, and the names are good.
LEMMA ReserveKeeps ==
    ASSUME CInv, C!Reserve
    PROVE  CInv'
  <1> DEFINE r == C!line_sender_buffer_reserve(heap, loc.buffer)
             t == C!line_sender_table_name_assert(r.heap, "trades")
             k == C!line_sender_column_name_assert(t.heap, "trades")
             q == [k EXCEPT !.ub = r.ub \/ t.ub \/ k.ub]
  <1>1. C!Calls("reserve") /\ loc' = loc /\ C!Continues(q)
    BY DEF C!Reserve, C!Plain
  <1>2. loc["err"] = 0
    BY <1>1, Ways
  <1>3. PICK m, c : OnWay("reserve", m, c)
    BY <1>1, <1>2, CCall
  <1>4. m \in 2..9 /\ Holds(heap, loc, Held(loc, m))
    BY <1>3, Zenon DEF OnWay, CallAt, RowWords
  <1>5. "buffer" \in Held(loc, m)
    BY <1>2, <1>3, <1>4, HeldOnWay
  <1>6. loc["buffer"] \in Addr /\ heap[loc["buffer"]].kind = "buffer"
    BY <1>4, <1>5 DEF Holds, KindOf
  <1>7. r = Return(heap, 0)
    <2>1. Points(heap, loc.buffer, "buffer")
      BY <1>6 DEF Points, NULL
    <2> QED
      BY <2>1, SameInterface DEF C!line_sender_buffer_reserve, C!Read
  <1>8. r.heap = heap /\ r.ub = FALSE
    BY <1>7 DEF Return
  <1> HIDE DEF r
  <1>9. t = [heap |-> heap, ret |-> "trades", err |-> 0, ub |-> FALSE]
    BY <1>8 DEF C!line_sender_table_name_assert, C!NotName, C!NotUtf8, C!Return, C!NULL
  <1>10. t.heap = heap /\ t.ub = FALSE
    BY <1>9
  <1> HIDE DEF t
  <1>11. k = [heap |-> heap, ret |-> "trades", err |-> 0, ub |-> FALSE]
    BY <1>10 DEF C!line_sender_column_name_assert, C!NotName, C!NotUtf8, C!Return, C!NULL
  <1>12. q.heap = heap /\ q.ub = FALSE
    <2>1. k.ub = FALSE
      BY <1>11
    <2>2. (r.ub \/ t.ub \/ k.ub) = FALSE
      <3> HIDE DEF k
      <3> QED
        BY <1>8, <1>10, <2>1, Zenon
    <2>3. q = [k EXCEPT !.ub = FALSE]
      BY <2>2, Zenon
    <2> HIDE DEF q, k
    <2>4. q = [heap |-> heap, ret |-> "trades", err |-> 0, ub |-> FALSE]
      BY <1>11, <2>3
    <2> QED
      BY <2>4
  <1> HIDE DEF q
  <1>13. Kept(loc, Held(loc, m), q)
    BY <1>4, <1>12 DEF Kept
  <1>14. "reserve" \in QuietCalls
    BY DEF QuietCalls, RowWords
  <1> QED
    BY <1>1, <1>2, <1>3, <1>13, <1>14, CStays

\* What the calls that make a row, and flush, find.
LEMMA RowHeld ==
    ASSUME NEW name \in RowWords, NEW m, NEW c, OnWay(name, m, c), loc["err"] = 0
    PROVE  /\ Holds(heap, loc, Held(loc, m)) /\ "err" \notin Held(loc, m)
           /\ "buffer" \in Held(loc, m) /\ "sender" \in Held(loc, m)
  <1>1. m \in 2..9 /\ Holds(heap, loc, Held(loc, m))
    BY Zenon DEF OnWay, CallAt
  <1>2. m < Opens(c) /\ m <= 9
    BY <1>1 DEF Opens
  <1> QED
    BY <1>1, <1>2, HeldOnWay

LEMMA CFillKeeps ==
    ASSUME CInv, C!Fill
    PROVE  CInv'
  <1>1. PICK name \in {"table", "symbol", "column_f64", "at_nanos"} :
          C!Calls(name) /\ \E x : C!Checked(C!BufferCall(heap, loc.buffer, x))
    BY DEF C!Fill, C!line_sender_buffer_table, C!line_sender_buffer_symbol,
           C!line_sender_buffer_column_f64, C!line_sender_buffer_at_nanos
  <1>2. PICK x : C!Checked(C!BufferCall(heap, loc.buffer, x))
    BY <1>1
  <1> DEFINE r == BufferCall(heap, loc["buffer"], x)
  <1>3. C!Checked(r)
    <2>1. C!BufferCall(heap, loc.buffer, x) = r
      BY SameInterface, Zenon
    <2> HIDE DEF r
    <2> QED
      BY <1>2, <2>1, Zenon
  <1>4. name \in QuietCalls /\ name \in RowWords
    BY DEF QuietCalls, RowWords
  <1>5. loc["err"] = 0
    BY <1>1, Ways
  <1>6. ASSUME NEW m, NEW c, OnWay(name, m, c) PROVE Called(loc, Held(loc, m), r)
    BY <1>4, <1>5, <1>6, RowHeld, BufferCalls
  <1> HIDE DEF r
  <1> QED
    BY <1>1, <1>3, <1>4, <1>5, <1>6, CChecks

LEMMA CFlushKeeps ==
    ASSUME CInv, C!FlushRow
    PROVE  CInv'
  <1>1. C!Calls("flush")
    BY DEF C!FlushRow
  <1>2. PICK net \in FlushNet :
          LET r == C!line_sender_flush(heap, loc.sender, loc.buffer, net)
          IN  IF r.ret = C!true THEN loc' = loc /\ C!Continues(r) ELSE C!Fails(r)
    BY Zenon DEF C!FlushRow
  <1> DEFINE r == C!line_sender_flush(heap, loc["sender"], loc["buffer"], net)
  <1>3. IF r.ret = 1 THEN loc' = loc /\ C!Continues(r) ELSE C!Fails(r)
    <2>1. C!true = 1
      BY SameInterface
    <2> QED
      BY <1>2, <2>1
  <1>4. "flush" \in QuietCalls /\ "flush" \in RowWords
    BY DEF QuietCalls, RowWords
  <1>5. loc["err"] = 0
    BY <1>1, Ways
  <1>6. PICK m, c : OnWay("flush", m, c)
    BY <1>1, <1>5, CCall
  <1>7. Called(loc, Held(loc, m), r)
    BY <1>4, <1>5, <1>6, RowHeld, FlushCalls
  <1> HIDE DEF r
  <1>8. CASE r.ret = 1 /\ Kept(loc, Held(loc, m), r)
    BY <1>3, <1>4, <1>5, <1>6, <1>8, CStays
  <1>9. CASE Failed(loc, Held(loc, m), r)
    <2>1. C!Fails(r)
      BY <1>3, <1>9 DEF Failed
    <2> QED
      BY <1>1, <1>5, <1>6, <1>9, <2>1, CFailsOn
  <1> QED
    BY <1>7, <1>8, <1>9 DEF Called

\* on_error reads the message, and frees the error and the buffer.
LEMMA OnErrorKeeps ==
    ASSUME CInv, C!ErrorMsg \/ C!ErrorFree \/ C!BufferFree
    PROVE  CInv'
  <1>1. PICK name \in {"error_msg", "error_free", "buffer_free"} : C!Calls(name)
    BY DEF C!ErrorMsg, C!ErrorFree, C!BufferFree
  <1>2. loc["err"] # 0
    BY <1>1, Ways
  <1>3. "err" \in CNames /\ "buffer" \in CNames
    BY DEF CNames
  <1>4. CASE C!ErrorMsg
    <2> DEFINE r == C!line_sender_error_msg(heap, loc.err)
    <2>1. C!Calls("error_msg") /\ C!Continues(r) /\ loc' = loc
      BY <1>4 DEF C!ErrorMsg, C!Plain
    <2>2. PICK m : OnErrorWay("error_msg", m)
      BY <1>2, <2>1, CErrorCall
    <2>3. m = 5 /\ Holds(heap, loc, Held(loc, m))
      BY <2>2 DEF OnErrorWay, ErrorAt
    <2>4. "err" \in Held(loc, m)
      BY <1>2, <1>3, <2>3 DEF Held, Gone
    <2>5. loc["err"] \in Addr /\ heap[loc["err"]].kind = "error"
      BY <2>3, <2>4 DEF Holds, KindOf
    <2>6. r = Return(heap, "msg")
      <3>1. Points(heap, loc.err, "error")
        BY <2>5 DEF Points, NULL
      <3> QED
        BY <3>1, SameInterface DEF C!line_sender_error_msg
    <2>7. r.heap = heap /\ r.ub = FALSE
      BY <2>6 DEF Return
    <2> HIDE DEF r
    <2>8. Held(loc, m - 1) = Held(loc, m)
      BY <2>3 DEF Held, Gone
    <2>9. Holds(r.heap, loc, Held(loc, m - 1)) /\ (m - 1 <= 3 => loc["conf_str"] = 0)
      BY <2>3, <2>7, <2>8
    <2> QED
      BY <1>2, <2>1, <2>2, <2>7, <2>9, CErrorGoesOn, Zenon
  <1>5. CASE C!ErrorFree
    <2> DEFINE r == Drop(heap, loc["err"], KindOf("err"))
    <2>1. C!line_sender_error_free(heap, loc.err) = r
      BY SameInterface DEF C!line_sender_error_free, KindOf
    <2>2. C!Calls("error_free") /\ C!Continues(C!line_sender_error_free(heap, loc.err))
          /\ loc' = loc
      BY <1>5 DEF C!ErrorFree, C!Plain
    <2> HIDE DEF r
    <2>3. PICK m : OnErrorWay("error_free", m)
      BY <1>2, <2>2, CErrorCall
    <2>4. m = 3 /\ Holds(heap, loc, Held(loc, m)) /\ loc["conf_str"] = 0
      BY <2>3 DEF OnErrorWay, ErrorAt
    <2>5. "err" \in Held(loc, m)
      BY <1>2, <1>3, <2>4 DEF Held, Gone
    <2>6. r.ub = FALSE /\ Holds(r.heap, loc, Held(loc, m) \ {"err"})
      BY <1>3, <2>4, <2>5, PointerDrops DEF r
    <2>7. Held(loc, m - 1) = Held(loc, m) \ {"err"}
      BY <2>4 DEF Held, Gone
    <2>8. Holds(r.heap, loc, Held(loc, m - 1)) /\ C!Continues(r)
      BY <2>1, <2>2, <2>6, <2>7, Zenon
    <2> QED
      BY <1>2, <2>2, <2>3, <2>4, <2>6, <2>8, CErrorGoesOn, Zenon
  <1>6. CASE C!BufferFree
    <2> DEFINE r == Drop(heap, loc["buffer"], KindOf("buffer"))
    <2>1. C!line_sender_buffer_free(heap, loc.buffer) = r
      BY SameInterface DEF C!line_sender_buffer_free, KindOf
    <2>2. C!Calls("buffer_free") /\ C!Continues(C!line_sender_buffer_free(heap, loc.buffer))
          /\ loc' = loc
      BY <1>6 DEF C!BufferFree, C!Plain
    <2> HIDE DEF r
    <2>3. PICK m : OnErrorWay("buffer_free", m)
      BY <1>2, <2>2, CErrorCall
    <2>4. m = 2 /\ Holds(heap, loc, Held(loc, m)) /\ loc["conf_str"] = 0
      BY <2>3 DEF OnErrorWay, ErrorAt
    <2>5. "buffer" \in Held(loc, m) \/ loc["buffer"] = 0
      BY <1>3, <2>4 DEF Held, Gone
    <2>6. r.ub = FALSE /\ Holds(r.heap, loc, Held(loc, m) \ {"buffer"})
      BY <1>3, <2>4, <2>5, PointerDrops DEF r
    <2>7. Held(loc, m - 1) = Held(loc, m) \ {"buffer"}
      BY <1>2, <2>4 DEF Held, Gone
    <2>8. Holds(r.heap, loc, Held(loc, m - 1)) /\ C!Continues(r)
      BY <2>1, <2>2, <2>6, <2>7, Zenon
    <2> QED
      BY <1>2, <2>2, <2>3, <2>4, <2>6, <2>8, CErrorGoesOn, Zenon
  <1> QED
    BY <1>4, <1>5, <1>6

\* The last call of either way closes the sender, if there is one.
LEMMA CCloseKeeps ==
    ASSUME CInv, C!Close
    PROVE  CInv'
  <1> DEFINE r == Drop(heap, loc["sender"], KindOf("sender"))
  <1>1. C!line_sender_close(heap, loc.sender) = r
    BY SameInterface DEF C!line_sender_close, KindOf
  <1>2. C!Calls("close") /\ C!Continues(C!line_sender_close(heap, loc.sender)) /\ loc' = loc
    BY DEF C!Close, C!Plain
  <1> HIDE DEF r
  <1>3. "sender" \in CNames
    BY DEF CNames
  <1>4. ASSUME Holds(heap, loc, Held(loc, 1))
        PROVE  r.ub = FALSE /\ Holds(r.heap, loc, Held(loc, 0))
    <2>1. "sender" \in Held(loc, 1) \/ loc["sender"] = 0
      BY <1>3 DEF Held, Gone
    <2>2. r.ub = FALSE /\ Holds(r.heap, loc, Held(loc, 1) \ {"sender"})
      BY <1>3, <1>4, <2>1, PointerDrops DEF r
    <2>3. Held(loc, 0) = Held(loc, 1) \ {"sender"}
      BY DEF Held, Gone
    <2> QED
      BY <2>2, <2>3
  <1>5. C!Continues(r)
    BY <1>1, <1>2, Zenon
  <1>6. CASE loc["err"] = 0
    <2>1. PICK m, c : OnWay("close", m, c)
      BY <1>2, <1>6, CCall
    <2>2. m = 1 /\ Settled(loc, m, c) /\ Holds(heap, loc, Held(loc, m))
      BY <2>1 DEF OnWay, CallAt
    <2>3. loc["conf_str"] = 0
      BY <2>2 DEF Settled
    <2>4. r.ub = FALSE /\ Holds(r.heap, loc, Held(loc, m - 1)) /\ ~(m > 1)
      <3>1. m - 1 = 0 /\ ~(m > 1)
        BY <2>2
      <3> QED
        BY <1>4, <2>2, <3>1, Zenon
    <2> QED
      BY <1>2, <1>5, <1>6, <2>1, <2>3, <2>4, CGoesOn, Zenon
  <1>7. CASE loc["err"] # 0
    <2>1. PICK m : OnErrorWay("close", m)
      BY <1>2, <1>7, CErrorCall
    <2>2. m = 1 /\ loc["conf_str"] = 0 /\ Holds(heap, loc, Held(loc, m))
      BY <2>1 DEF OnErrorWay, ErrorAt
    <2>3. r.ub = FALSE /\ Holds(r.heap, loc, Held(loc, m - 1))
      <3>1. m - 1 = 0
        BY <2>2
      <3> QED
        BY <1>4, <2>2, <3>1, Zenon
    <2> QED
      BY <1>2, <1>5, <1>7, <2>1, <2>2, <2>3, CErrorGoesOn, Zenon
  <1> QED
    BY <1>6, <1>7

LEMMA CStep ==
    ASSUME CInv, C!Next
    PROVE  CInv' /\ prog' = prog
  <1>1. prog' = prog
    BY DEF C!Next, C!Run, C!Done, C!vars, C!Concat, C!Utf8Init, C!Utf8Literal, C!FromConf,
           C!FromEnv, C!FreeConf, C!BufferNew, C!Reserve, C!Fill, C!FlushRow, C!ErrorMsg,
           C!ErrorFree, C!BufferFree, C!Close, C!Checked, C!Assigned, C!Plain, C!Continues,
           C!Fails
  <1>2. CASE C!Run
    <2>1. CASE C!Concat \/ C!FreeConf \/ C!BufferNew
      BY <1>1, <2>1, ConcatKeeps, FreeConfKeeps, BufferNewKeeps
    <2>2. CASE C!Utf8Init \/ C!Utf8Literal
      BY <1>1, <2>2, Utf8Keeps
    <2>3. CASE C!FromConf \/ C!FromEnv
      BY <1>1, <2>3, FromKeeps
    <2>4. CASE C!Reserve \/ C!Fill \/ C!FlushRow \/ C!Close
      BY <1>1, <2>4, ReserveKeeps, CFillKeeps, CFlushKeeps, CCloseKeeps
    <2>5. CASE C!ErrorMsg \/ C!ErrorFree \/ C!BufferFree
      BY <1>1, <2>5, OnErrorKeeps
    <2> QED
      BY <1>2, <2>1, <2>2, <2>3, <2>4, <2>5, Zenon DEF C!Run
  <1>3. CASE C!Done
    BY <1>3 DEF C!Done, C!vars, CInv
  <1> QED
    BY <1>1, <1>2, <1>3 DEF C!Next

LEMMA CStart ==
    ASSUME C!Init
    PROVE  CInv /\ prog \in C!Programs
  <1>1. PICK p \in C!Programs, argv \in C!ArgLists : C!Start(p, argv)
    BY DEF C!Init
  <1> DEFINE c == p.code
  <1>2. IsCCode(c)
    BY <1>1, CCodes
  <1>3. /\ prog = p /\ ub = FALSE /\ heap = [a \in Addr |-> Freed]
        /\ loc = [conf_str |-> 0, err |-> 0, sender |-> 0, buffer |-> 0]
        /\ \/ status \in {"0", "1"} /\ todo = <<>>
           \/ status = "running" /\ todo = c
    BY <1>1, SameInterface DEF C!Start, NULL
  <1> HIDE DEF c
  <1>4. loc = [n \in CNames |-> 0]
    BY <1>3 DEF CNames
  <1>5. Held(loc, Len(todo)) = {}
    BY <1>4 DEF Held
  <1>6. Holds(heap, loc, {})
    BY <1>3, <1>4 DEF Holds, CShaped, Shaped
  <1>7. loc["err"] = 0 /\ loc["conf_str"] = 0 /\ loc["sender"] = 0 /\ loc["buffer"] = 0
    BY <1>4 DEF CNames
  <1>8. c \in Seq(CWords) /\ Len(c) \in {11, 12, 14} /\ Len(c) > 0
    <2> DEFINE k == Len(c)
    <2>1. c \in Seq(CWords) /\ k \in {11, 12, 14}
      BY <1>2 DEF IsCCode
    <2> HIDE DEF k
    <2>2. k > 0
      BY <2>1
    <2> QED
      BY <2>1, <2>2 DEF k
  <1>9. Left(c, c) /\ Settled(loc, Len(c), c)
    <2>1. Left(c, c)
      BY <1>8 DEF Left
    <2> DEFINE k == Len(c)
    <2>2. ~(k = 14 /\ k \in 11..13) /\ ~(k < Opens(c)) /\ ~(k <= 9)
      <3>1. k \in {11, 12, 14}
        BY <1>8
      <3>2. Opens(c) = IF k = 14 THEN 12 ELSE 11
        BY DEF Opens
      <3> HIDE DEF k
      <3> QED
        BY <3>1, <3>2
    <2> QED
      BY <1>7, <2>1, <2>2, Zenon DEF Settled, k
  <1>10. CPlace(loc, todo, status, c)
    <2>1. CASE status = "running" /\ todo = c
      <3>1. Len(todo) \in Nat /\ Len(todo) > 0 /\ ~(Len(todo) = 0)
        BY <1>8, <2>1
      <3> QED
        BY <1>2, <1>7, <1>9, <2>1, <3>1, Zenon DEF CPlace
    <2>2. CASE status \in {"0", "1"} /\ todo = <<>>
      <3>1. Len(todo) = 0 /\ ~(Len(todo) > 0) /\ Len(todo) \in Nat
        BY <2>2
      <3>2. status # "running"
        BY <2>2
      <3> QED
        BY <1>2, <1>7, <2>2, <3>1, <3>2, Zenon DEF CPlace
    <2> QED
      BY <1>3, <2>1, <2>2
  <1> QED
    BY <1>1, <1>3, <1>5, <1>6, <1>10 DEF CInv, c

\* A program that has ended has left what the invariant says.
LEMMA CEnds ==
    ASSUME CInv
    PROVE  C!LeaksOnSuccess
  <1>1. C!Live = {a \in Addr : heap[a] # Freed}
    BY SameInterface DEF C!Live
  <1>2. ~ub
    BY DEF CInv
  <1>3. ASSUME status \in {"0", "1"}
        PROVE  /\ Len(todo) = 0 /\ loc["conf_str"] = 0 /\ Holds(heap, loc, Held(loc, 0))
               /\ status = "1" => loc["err"] # 0 \/ loc["buffer"] = 0
    <2>1. Len(todo) \in Nat /\ ~(Len(todo) > 0)
      BY <1>3 DEF CInv, CPlace
    <2>2. Len(todo) = 0
      BY <2>1
    <2> QED
      BY <2>2 DEF CInv, CPlace
  <1>4. ASSUME status = "1" PROVE C!Live = {}
    <2>1. Held(loc, 0) = {}
      BY <1>3, <1>4 DEF Held, Gone, CNames
    <2> QED
      BY <1>1, <1>3, <1>4, <2>1 DEF Holds
  <1>5. ASSUME status = "0", NEW a \in C!Live
        PROVE  a = loc.buffer
    <2>1. Held(loc, 0) \subseteq {"buffer"}
      BY <1>3, <1>5 DEF Held, Gone, CNames
    <2>2. PICK n \in Held(loc, 0) : loc[n] = a /\ heap[loc[n]].kind = KindOf(n)
      BY <1>1, <1>3, <1>5 DEF Holds
    <2>3. n = "buffer"
      BY <2>1, <2>2
    <2> QED
      BY <2>2, <2>3
  <1>6. ASSUME status = "0" PROVE C!Live = {loc.buffer} \ {C!NULL}
    <2>1. C!NULL = 0 /\ loc["err"] = 0
      BY <1>3, <1>6 DEF C!NULL, CInv, CPlace
    <2>2. ASSUME loc.buffer # 0 PROVE loc.buffer \in C!Live
      <3>1. "buffer" \in Held(loc, 0)
        BY <2>1, <2>2 DEF Held, Gone, CNames
      <3>2. loc.buffer \in Addr /\ heap[loc.buffer].kind = "buffer"
        BY <1>3, <1>6, <3>1 DEF Holds, KindOf
      <3> QED
        BY <1>1, <3>2 DEF Freed
    <2>3. \A a \in C!Live : a # 0
      BY <1>1, CApiAssumption
    <2> QED
      BY <1>5, <1>6, <2>1, <2>2, <2>3
  <1> QED
    BY <1>2, <1>4, <1>6 DEF C!LeaksOnSuccess

-----------------------------------------------------------------------------
(***************************************************************************)
(* The fourteen programs.                                                  *)
(***************************************************************************)
\* A program is in C or in C++, and goes on being it.
LEMMA CppApart ==
    ASSUME NEW p \in Programs
    PROVE  p \notin C!Programs
  <1> SUFFICES ASSUME p \in C!Programs PROVE FALSE
    OBVIOUS
  <1> DEFINE c == p.code
  <1>1. Len(c) = 11 /\ c[2] = "buffer"
    BY CppCodes DEF IsCppCode
  <1>2. When(c, 10) = "buffer_new"
    BY CCodes DEF IsCCode, IsRow
  <1> HIDE DEF c
  <1>3. Len(c) + 1 - 10 = 2
    BY <1>1
  <1> QED
    BY <1>1, <1>2, <1>3 DEF When

LEMMA CppProgramStays ==
    ASSUME ExNext
    PROVE  prog' = prog
  BY DEF ExNext, Run, Ended, exvars, FromConf, FromLiteral, FromEnv, FillRow, FlushRow,
         DestroyBuffer, DestroySender, Goes

\* Whichever call of line_sender.h fails, a program gives back what it was
\* given, once, and never follows NULL or a freed pointer: by on_error in C and
\* by the destructors of line_sender.hpp in C++.  A program that succeeds leaves
\* nothing in C++, and its buffer and nothing else in C.  For every memory that
\* has room for two objects of the program beside what a call allocates, every
\* outcome of the network, and all fourteen programs.
THEOREM ExamplesWhatIsLeft == ExamplesSpec => []WhatIsLeft
  <1> DEFINE Inv == IF InC THEN CInv ELSE CppInv
  <1>1. AnyInit => Inv
    <2>1. ASSUME ExInit PROVE CppInv /\ ~InC
      <3>1. prog \in Programs
        BY <2>1 DEF ExInit, Start
      <3> QED
        BY <2>1, <3>1, CppStart, CppApart DEF InC
    <2>2. ASSUME C!Init PROVE CInv /\ InC
      BY <2>2, CStart DEF InC
    <2> QED
      BY <2>1, <2>2 DEF AnyInit
  <1>2. Inv /\ [AnyNext]_allvars => Inv'
    <2> SUFFICES ASSUME Inv, [AnyNext]_allvars PROVE Inv'
      OBVIOUS
    <2>1. CASE CppRun
      <3>1. CppInv' /\ prog' = prog /\ ~InC
        BY <2>1, CppStep, CppProgramStays DEF CppRun
      <3> QED
        BY <3>1 DEF InC
    <2>2. CASE CRun
      <3>1. CInv' /\ prog' = prog /\ InC
        BY <2>2, CStep DEF CRun
      <3> QED
        BY <3>1 DEF InC
    <2>3. CASE UNCHANGED allvars
      <3>1. CInv' = CInv /\ CppInv' = CppInv /\ InC' = InC
        BY <2>3 DEF allvars, exvars, vars, CInv, CppInv, InC
      <3> QED
        BY <3>1, Zenon
    <2> QED
      BY <2>1, <2>2, <2>3 DEF AnyNext
  <1>3. Inv => WhatIsLeft
    BY CEnds, CppEnds DEF WhatIsLeft
  <1> QED
    BY <1>1, <1>2, <1>3, PTL DEF ExamplesSpec
=============================================================================

------------------------------- MODULE Buffer -------------------------------
(***************************************************************************)
(* suduo::net::Buffer: a vector of which [read_index, write_index) holds   *)
(* the readable bytes, with room kept in front of them for a prepend.      *)
(* A buffer is a record of its cells and the two indices (from 0, as in    *)
(* the code; the cells are a sequence, from 1), and each method is an      *)
(* operator on it.  A byte here is a digit of base 2: integers of w bytes  *)
(* are in 0 .. 2^w - 1.                                                    *)
(*                                                                         *)
(* The state machine at the end applies the methods in any order; bytes is *)
(* what the buffer should hold.  Its guards are the caller's duties, which *)
(* the code does not check: a prepend fits in front of the readable bytes, *)
(* unwrite() and read_int() do not take more than there is.                *)
(***************************************************************************)
EXTENDS Integers, Sequences

CONSTANTS init_size, pre_append_size,
          ExtraSize,    \* sizeof(extrabuf) in read_fd()
          MaxStore,     \* bound: cells of the vector
          MaxChunk      \* bound: bytes in one call

ASSUME BufferAssumption ==
  /\ init_size \in Nat /\ pre_append_size \in Nat /\ ExtraSize \in Nat
  /\ MaxStore \in Nat /\ MaxChunk \in Nat

VARIABLES buf, bytes

bufferVars == <<buf, bytes>>

Zeros(n) == [i \in 1..n |-> 0]

NewBuffer == [store |-> Zeros(pre_append_size + init_size),
              read_index |-> pre_append_size, write_index |-> pre_append_size]

readable_bytes(b) == b.write_index - b.read_index
writeable_bytes(b) == Len(b.store) - b.write_index
to_string(b) == SubSeq(b.store, b.read_index + 1, b.write_index)

\* std::copy of data to the cells from index at on.
copy(store, at, data) ==
  [i \in 1..Len(store) |-> IF i - at \in 1..Len(data) THEN data[i - at] ELSE store[i]]

\* Variant: the room in front of the moved bytes is not counted.
must_grow__no_room(b, len) == writeable_bytes(b) + b.read_index < len
must_grow(b, len) == writeable_bytes(b) + b.read_index < len + pre_append_size

\* Grow, or move the readable bytes to the front.
make_space(b, len) ==
  IF must_grow(b, len)
  THEN [b EXCEPT !.store = @ \o Zeros(b.write_index + len - Len(@))]
  ELSE [store |-> copy(b.store, pre_append_size, to_string(b)),
        read_index |-> pre_append_size, write_index |-> pre_append_size + readable_bytes(b)]

ensure_writeable_bytes(b, len) == IF writeable_bytes(b) < len THEN make_space(b, len) ELSE b

has_written(b, len) == [b EXCEPT !.write_index = @ + len]
unwrite(b, len) == [b EXCEPT !.write_index = @ - len]

append(b, data) ==
  LET room == ensure_writeable_bytes(b, Len(data))
  IN has_written([room EXCEPT !.store = copy(@, room.write_index, data)], Len(data))

retrieve_all(b) ==
  [b EXCEPT !.read_index = pre_append_size, !.write_index = pre_append_size]

retrieve(b, len) ==
  IF len < readable_bytes(b) THEN [b EXCEPT !.read_index = @ + len] ELSE retrieve_all(b)

prepend(b, data) ==
  LET at == b.read_index - Len(data)
  IN [b EXCEPT !.read_index = at, !.store = copy(@, at, data)]

\* The contents are appended to a fresh buffer.
shrink(b, reserve) ==
  append(ensure_writeable_bytes(NewBuffer, readable_bytes(b) + reserve), to_string(b))

\* What readv() can return at most.
ReadLimit(b) == writeable_bytes(b) + (IF writeable_bytes(b) < ExtraSize THEN ExtraSize ELSE 0)

\* readv() fills the vector first and a buffer on the stack with the rest.
read_fd(b, data) ==
  LET room == writeable_bytes(b)
      filled == [b EXCEPT !.store = copy(@, b.write_index, SubSeq(data, 1, room))]
  IN IF Len(data) <= room THEN has_written([b EXCEPT !.store = copy(@, b.write_index, data)], Len(data))
     ELSE append([filled EXCEPT !.write_index = Len(b.store)], SubSeq(data, room + 1, Len(data)))

TwoTo[n \in 0..MaxChunk] == IF n = 0 THEN 1 ELSE 2 * TwoTo[n - 1]

\* Network order: the most significant byte first.
host_to_network(x, w) == [i \in 1..w |-> (x \div TwoTo[w - i]) % 2]
network_to_host(data) ==
  LET sum[i \in 0..Len(data)] == IF i = 0 THEN 0 ELSE 2 * sum[i - 1] + data[i]
  IN sum[Len(data)]

append_int(b, x, w) == append(b, host_to_network(x, w))
prepend_int(b, x, w) == prepend(b, host_to_network(x, w))
peek_int(b, w) == network_to_host(SubSeq(b.store, b.read_index + 1, b.read_index + w))
read_int(b, w) == [value |-> peek_int(b, w), buf |-> retrieve(b, w)]

(***************************************************************************)
(* Any sequence of calls.                                                  *)
(***************************************************************************)
Chunk == UNION {[1..n -> {0, 1}] : n \in 0..MaxChunk}
Width == 1..MaxChunk
Bounded(b) == Len(b.store) <= MaxStore

BufferInit ==
  /\ buf = NewBuffer
  /\ bytes = <<>>

call_append ==
  \E data \in Chunk : buf' = append(buf, data) /\ bytes' = bytes \o data

call_append_int ==
  \E w \in Width : \E x \in 0..TwoTo[w] - 1 :
    buf' = append_int(buf, x, w) /\ bytes' = bytes \o host_to_network(x, w)

call_retrieve ==
  \E len \in 0..MaxStore :
    /\ buf' = retrieve(buf, len)
    /\ bytes' = SubSeq(bytes, len + 1, Len(bytes))

call_read_int ==
  \E w \in Width :
    /\ w <= Len(bytes)
    /\ buf' = read_int(buf, w).buf
    /\ bytes' = SubSeq(bytes, w + 1, Len(bytes))

call_prepend ==
  \E w \in Width : \E x \in 0..TwoTo[w] - 1 :
    /\ w <= buf.read_index
    /\ buf' = prepend_int(buf, x, w)
    /\ bytes' = host_to_network(x, w) \o bytes

call_unwrite ==
  \E len \in 1..Len(bytes) :
    buf' = unwrite(buf, len) /\ bytes' = SubSeq(bytes, 1, Len(bytes) - len)

call_shrink ==
  \E reserve \in 0..MaxChunk : buf' = shrink(buf, reserve) /\ UNCHANGED bytes

call_read_fd ==
  \E data \in Chunk :
    /\ Len(data) <= ReadLimit(buf)
    /\ buf' = read_fd(buf, data)
    /\ bytes' = bytes \o data

BufferNext ==
  /\ \/ call_append \/ call_append_int \/ call_retrieve \/ call_read_int \/ call_prepend
     \/ call_unwrite \/ call_shrink \/ call_read_fd
  /\ Bounded(buf')

BufferSpec == BufferInit /\ [][BufferNext]_bufferVars

\* Whatever was moved, grown, prepended or read around the end of the vector,
\* the buffer holds the bytes put in and not yet taken out, in order.
BytesKept ==
  /\ 0 <= buf.read_index /\ buf.write_index <= Len(buf.store)
  /\ to_string(buf) = bytes

\* The buffer holds its bytes, and an integer is read back as it was written.
BufferHoldsBytes ==
  /\ BytesKept
  /\ \A w \in Width : \A x \in 0..TwoTo[w] - 1 :
       /\ w <= buf.read_index => peek_int(prepend_int(buf, x, w), w) = x
       /\ bytes = <<>> => read_int(append_int(buf, x, w), w).value = x
=============================================================================

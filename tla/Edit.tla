-------------------------------- MODULE Edit --------------------------------
(***************************************************************************)
(* msgp/edit.go: Locate, HasKey, Replace, CopyReplace and Remove on an     *)
(* encoded map, applied one after the other to the slice the one before    *)
(* returned.                                                               *)
(*                                                                         *)
(* A slice is a backing array and a length; the array's own length is the  *)
(* slice's capacity.  The value given to Replace is a slice of its own, or *)
(* one that Locate returned before and that shares the array.              *)
(***************************************************************************)
EXTENDS Codec, FiniteSets

CONSTANTS Messages,  \* [bytes, pairs, good]: what is edited, and what it holds
          Spare,     \* capacities behind the message
          Keys,      \* keys asked for
          Vals,      \* encoded objects to put in
          MaxOps     \* bound: operations in one behaviour

Pair == Seq(Byte) \X Seq(Byte)  \* a key, and the bytes of its value

ASSUME EditAssumption ==
  /\ Spare \subseteq Nat /\ MaxOps \in Nat
  /\ \A m \in Messages : m.bytes \in Seq(Byte) /\ m.pairs \in Seq(Pair)
  /\ Keys \subseteq Seq(Byte) /\ Vals \subseteq Seq(Byte)

VARIABLES mem,    \* the backing array
          len,    \* length of the slice
          held,   \* the slice Locate returned last: [start, end], in mem
          ref,    \* the pairs the message stands for, in order
          known,  \* FALSE once ref no longer applies
          op,     \* the last operation: [op, key, ans]
          nops

vars == <<mem, len, held, ref, known, op, nops>>

raw == SubSeq(mem, 1, len)

-----------------------------------------------------------------------------
NotFound == [kstart |-> 0, start |-> 0, end |-> 0]

(* Mutant: the value behind a key that does not match is not skipped.      *)
locateNoSkip(b, key) ==
  LET h == ReadMapHeaderBytes(b)
      find[i \in Nat] == [left \in Nat |->
        LET f == ReadStringZC(From(b, i))
            s == Skip(b, i + f.n)
        IN  IF left = 0 \/ f.err # "none" THEN NotFound
            ELSE IF f.v = key THEN IF s.err # "none" THEN NotFound
              ELSE [kstart |-> i, start |-> i + f.n, end |-> s.end]
            ELSE find[i + f.n][left - 1]]
  IN  IF h.err # "none" THEN NotFound ELSE find[h.n][h.v]

(* The loop of locate and locateKV: the first of left pairs from i on that *)
(* has the key.                                                            *)
Finds(b, key) ==
  LET find[i \in Nat] == [left \in Nat |->
        LET f == ReadStringZC(From(b, i))
            s == Skip(b, i + f.n)
        IN  IF left = 0 \/ f.err # "none" \/ s.err # "none" THEN NotFound
            ELSE IF f.v = key
              THEN [kstart |-> i, start |-> i + f.n, end |-> s.end]
            ELSE find[s.end][left - 1]]
  IN  find

(* locate and locateKV: where the value of the first pair with the key     *)
(* begins and ends, and where its key begins.                              *)
locate(b, key) ==
  LET h == ReadMapHeaderBytes(b)
  IN  IF h.err # "none" THEN NotFound ELSE Finds(b, key)[h.n][h.v]

(* Mutant: i < sz - 1.                                                     *)
HasKeyOneLess(key, b) ==
  LET h == ReadMapHeaderBytes(b)
      find[i \in Nat, left \in Nat] ==
        LET f == ReadStringZC(From(b, i)) IN
        IF left <= 1 \/ f.err # "none" THEN FALSE
        ELSE f.v = key \/ find[i + f.n, left - 1]
  IN  h.err = "none" /\ find[h.n, h.v]

(* The loop of HasKey: is one of left objects from i on the key, as long   *)
(* as they are strings?                                                    *)
Has(key, b) ==
  LET find[i \in Nat] == [left \in Nat |->
        LET f == ReadStringZC(From(b, i)) IN
        IF left = 0 \/ f.err # "none" THEN FALSE
        ELSE IF f.v = key THEN TRUE ELSE find[i + f.n][left - 1]]
  IN  find

(* HasKey never skips a value: it compares the first objects of the map    *)
(* with the key.                                                           *)
HasKey(key, b) ==
  LET h == ReadMapHeaderBytes(b)
  IN  IF h.err # "none" THEN FALSE ELSE Has(key, b)[h.n][h.v]

(* copy(arr[to:], src), which stops at the end of arr.                     *)
CopyTo(arr, to, src) ==
  [i \in 1..Len(arr) |-> IF i > to /\ i - to <= Len(src) THEN src[i - to] ELSE arr[i]]

Slice(arr, n) == [mem |-> arr, len |-> n]

(* Mutant: the value is copied before the tail has moved.                  *)
growSwapped(w, extra) ==
  LET ext == SubSeq(mem, 1, len + extra)
      put == CopyTo(ext, w.start, IF w.alias THEN SubSeq(mem, w.from + 1, w.to)
                                             ELSE w.bytes)
      moved == CopyTo(put, w.end + extra, SubSeq(put, w.end + 1, len))
  IN  Slice(moved \o From(mem, len + extra), len + extra)

(* The value fits behind the slice: the tail moves forward first, then the *)
(* value is copied, from wherever its bytes are by then.                   *)
grow(w, extra) ==
  LET ext == SubSeq(mem, 1, len + extra)
      val(arr) == IF w.alias THEN SubSeq(arr, w.from + 1, w.to) ELSE w.bytes
      moved == CopyTo(ext, w.end + extra, SubSeq(mem, w.end + 1, len))
  IN  Slice(CopyTo(moved, w.start, val(moved)) \o From(mem, len + extra),
            len + extra)

(* Mutant: the tail is everything up to the capacity.                      *)
shrinkAll(w, extra) ==
  LET val == IF w.alias THEN SubSeq(mem, w.from + 1, w.to) ELSE w.bytes
      put == CopyTo(mem, w.start, val)
  IN  Slice(CopyTo(put, w.end + extra, SubSeq(put, w.end + 1, Len(mem))), len + extra)

(* The value is smaller: it is copied, then the tail moves back.           *)
shrink(w, extra) ==
  LET val == IF w.alias THEN SubSeq(mem, w.from + 1, w.to) ELSE w.bytes
      put == CopyTo(mem, w.start, val)
  IN  Slice(CopyTo(put, w.end + extra, SubSeq(put, w.end + 1, len)), len + extra)

(* replace, with the value w.bytes or the one at w.from..w.to of the       *)
(* slice itself.                                                           *)
replace(w, inplace) ==
  LET val == IF w.alias THEN SubSeq(mem, w.from + 1, w.to) ELSE w.bytes
      extra == Len(val) - (w.end - w.start)
      fresh == SubSeq(mem, 1, w.start) \o val \o SubSeq(mem, w.end + 1, len)
  IN  CASE inplace /\ extra = 0 -> Slice(CopyTo(mem, w.start, val), len)
        [] inplace /\ extra < 0 -> shrink(w, extra)
        [] inplace /\ extra > 0 /\ extra < Len(mem) - len -> grow(w, extra)
        [] OTHER -> Slice(fresh, Len(fresh))

(* resizeMap by -1.  Remove is its only caller, and Remove has found a     *)
(* pair: the header never needs another form.                              *)
resizeMap(arr) ==
  CASE arr[1] = 222 -> CopyTo(arr, 1, be(be16(arr) - 1, 2))
    [] arr[1] = 223 -> CopyTo(arr, 1, be(be32(arr) - 1, 4))
    [] OTHER -> CopyTo(arr, 0, <<128 + (arr[1] - 129)>>)

-----------------------------------------------------------------------------
Nothing == [start |-> 0, end |-> 0]

Init ==
  \E m \in Messages, s \in Spare :
    /\ mem = m.bytes \o [i \in 1..s |-> 193]
    /\ len = Len(m.bytes)
    /\ ref = m.pairs
    /\ known = m.good
    /\ held = Nothing
    /\ op = [op |-> "none", key |-> <<>>, ans |-> <<>>]
    /\ nops = 0

Counts(o, key, ans) ==
  /\ nops < MaxOps /\ nops' = nops + 1
  /\ op' = [op |-> o, key |-> key, ans |-> ans]

First(key) == {i \in DOMAIN ref : ref[i][1] = key /\ \A j \in 1..i-1 : ref[j][1] # key}

Locate(key) ==
  LET l == locate(raw, key) IN
  /\ Counts("Locate", key, SubSeq(raw, l.start + 1, l.end))
  /\ held' = [start |-> l.start, end |-> l.end]
  /\ UNCHANGED <<mem, len, ref, known>>

CallHasKey(key) ==
  /\ Counts("HasKey", key, <<IF HasKey(key, raw) THEN 1 ELSE 0>>)
  /\ UNCHANGED <<mem, len, held, ref, known>>

(* The arguments of replace: where, and with what.                         *)
Own(l, v) == [start |-> l.start, end |-> l.end, alias |-> FALSE,
              bytes |-> v, from |-> 0, to |-> 0]
Shared(l) == [start |-> l.start, end |-> l.end, alias |-> TRUE,
              bytes |-> <<>>, from |-> held.start, to |-> held.end]

(* A value that is behind the one it replaces, in an array it makes longer *)
(* in place, is moved before it is copied.                                 *)
Overwritten(w) ==
  LET extra == (w.to - w.from) - (w.end - w.start) IN
  /\ w.alias /\ w.from >= w.end
  /\ extra > 0 /\ extra < Len(mem) - len

(* Replace or CopyReplace; nil, and the message left alone, if the key is  *)
(* not there.                                                              *)
Put(o, key, w) ==
  LET l == locate(raw, key)
      val == IF w.alias THEN SubSeq(mem, w.from + 1, w.to) ELSE w.bytes
      new == replace(w, o = "Replace")
  IN  IF l.start = l.end
      THEN Counts(o, key, <<>>) /\ UNCHANGED <<mem, len, held, ref, known>>
      ELSE /\ Counts(o, key, SubSeq(new.mem, 1, new.len))
           /\ mem' = new.mem /\ len' = new.len
           /\ held' = Nothing
           /\ ref' = [i \in DOMAIN ref |->
                        IF i \in First(key) THEN <<key, val>> ELSE ref[i]]
           /\ known' = (known /\ ~(o = "Replace" /\ Overwritten(w)))

Replace(o, key, v) == Put(o, key, Own(locate(raw, key), v))
ReplaceHeld(o, key) ==
  /\ held.end > held.start
  /\ Put(o, key, Shared(locate(raw, key)))

Remove(key) ==
  LET l == locate(raw, key)
      cut == CopyTo(mem, l.kstart, SubSeq(mem, l.end + 1, len))
  IN  IF l.start = l.end
      THEN Counts("Remove", key, <<>>) /\ UNCHANGED <<mem, len, held, ref, known>>
      ELSE /\ Counts("Remove", key, <<>>)
           /\ mem' = resizeMap(cut)
           /\ len' = len - (l.end - l.kstart)
           /\ held' = Nothing
           /\ ref' = [i \in 1..Len(ref)-1 |->
                        IF \E j \in First(key) : i >= j THEN ref[i + 1] ELSE ref[i]]
           /\ UNCHANGED known

Next ==
  \E key \in Keys :
    \/ Locate(key)
    \/ CallHasKey(key)
    \/ \E o \in {"Replace", "CopyReplace"} :
         ReplaceHeld(o, key) \/ \E v \in Vals : Replace(o, key, v)
    \/ Remove(key)

Spec == Init /\ [][Next]_vars

-----------------------------------------------------------------------------
(* The pairs an encoding holds, read by Skip alone, as far as it can.      *)
Pairs(b) ==
  LET pairs[i \in Nat] == [left \in Nat |->
        LET k == Skip(b, i)
            v == Skip(b, k.end)
        IN  IF left = 0 \/ k.err # "none" \/ v.err # "none" THEN <<>>
            ELSE << <<SubSeq(b, i + 1, k.end), SubSeq(b, k.end + 1, v.end)>> >>
                   \o pairs[v.end][left - 1]]
  IN  pairs
PairsOf(b) == LET h == ReadMapHeaderBytes(b) IN Pairs(b)[h.n][h.v]

(* From i to e lies the pair p: its key, as ReadStringZC reads it and as   *)
(* AppendString writes it, and its value.                                  *)
PairAt(b, i, p, e) ==
  LET f == ReadStringZC(From(b, i))
      c == i + f.n
  IN  /\ f.err = "none" /\ f.v = p[1]
      /\ Skip(b, i) = [end |-> c, err |-> "none"]
      /\ Skip(b, c) = [end |-> e, err |-> "none"]
      /\ SubSeq(b, i + 1, c) = AppendString(p[1]) /\ SubSeq(b, c + 1, e) = p[2]

(* b is a header and then the pairs, the j-th of which ends at at[j].      *)
Marked(b, pairs, at) ==
  LET n == Len(pairs) IN
  /\ ReadMapHeaderBytes(b) = Ok(n, at[0]) /\ at[n] = Len(b)
  /\ \A j \in 1..n : PairAt(b, at[j - 1], pairs[j], at[j])
Holds(b, pairs) == \E at \in [0..Len(pairs) -> Nat] : Marked(b, pairs, at)

IsObject(v) == Skip(v, 0) = [end |-> Len(v), err |-> "none"]

(* After any sequence of edits the slice is exactly the encoding of the    *)
(* map those edits make of the first one: as many pairs as the header      *)
(* says, no byte behind them, every other pair as it was.  It stops to     *)
(* hold only where a value taken from the message itself was put in front  *)
(* of its own place in an array with room for it.                          *)
AgreesWithMap ==
  known =>
    /\ Skip(raw, 0) = [end |-> len, err |-> "none"]
    /\ PairsOf(raw) = [i \in DOMAIN ref |-> <<AppendString(ref[i][1]), ref[i][2]>>]

(* Locate returns the value of the first pair with the key, also after     *)
(* edits, and an empty slice without one.                                  *)
LocateFinds ==
  (known /\ op.op = "Locate") =>
    op.ans = IF First(op.key) = {} THEN <<>>
             ELSE ref[CHOOSE i \in First(op.key) : TRUE][2]

(* HasKey is right for the first key of a map, whatever follows, and for   *)
(* every key of a map of at most one pair.                                 *)
HasKeyFirst ==
  (known /\ op.op = "HasKey" /\ (Len(ref) <= 1 \/ ref[1][1] = op.key)) =>
      op.ans = <<IF First(op.key) = {} THEN 0 ELSE 1>>

(* In an array that an edit keeps, bytes behind both the old and the new   *)
(* slice are never written: they may belong to another message.            *)
KeepsRest ==
  [][ LET longer == IF len > len' THEN len ELSE len' IN
      Len(mem') = Len(mem) => From(mem', longer) = From(mem, longer) ]_vars
=============================================================================

---------------------------- MODULE ServerProofs ----------------------------
(***************************************************************************)
(* Theorems about Server for any number of requests, in flight and in all, *)
(* and arrays that grow without a bound.                                   *)
(***************************************************************************)
EXTENDS Server, SequenceTheorems, TLAPS

-----------------------------------------------------------------------------
(* Types.  Everything is a sequence of whatever it holds.                  *)

IsSeq(s) == s \in Seq({s[i] : i \in DOMAIN s})

LEMMA SeqLen ==
  ASSUME NEW s, IsSeq(s)
  PROVE  Len(s) \in Nat /\ DOMAIN s = 1..Len(s)
  BY LenProperties DEF IsSeq

LEMMA FcnIsSeq ==
  ASSUME NEW n \in Nat, NEW s, DOMAIN s = 1..n, s = [i \in 1..n |-> s[i]]
  PROVE  IsSeq(s) /\ Len(s) = n
<1> DEFINE S == {s[i] : i \in DOMAIN s}
<1>1. s \in [1..n -> S]
  OBVIOUS
<1>2. s \in Seq(S)
  BY <1>1, SeqDef
<1>3. Len(s) \in Nat /\ 1..Len(s) = 1..n
  BY <1>2, LenProperties
<1>4. Len(s) = n
  BY <1>3
<1> QED BY <1>2, <1>4 DEF IsSeq

LEMMA AppendIsSeq ==
  ASSUME NEW s, NEW e, IsSeq(s)
  PROVE  /\ IsSeq(Append(s, e)) /\ Len(Append(s, e)) = Len(s) + 1
         /\ \A i \in 1..Len(s) : Append(s, e)[i] = s[i]
         /\ Append(s, e)[Len(s) + 1] = e
<1> DEFINE S == {s[i] : i \in DOMAIN s} \cup {e}
           t == Append(s, e)
<1>1. s \in Seq(S)
  BY SeqMonotonic DEF IsSeq
<1>2. /\ t \in Seq(S) /\ Len(t) = Len(s) + 1
      /\ \A i \in 1..Len(s) : t[i] = s[i]
      /\ t[Len(s) + 1] = e
  BY <1>1, AppendProperties
<1>3. Len(t) \in Nat /\ DOMAIN t = 1..Len(t) /\ t = [i \in 1..Len(t) |-> t[i]]
  BY <1>2, LenProperties
<1>4. IsSeq(t)
  BY <1>3, FcnIsSeq
<1> QED BY <1>2, <1>4

LEMMA ExceptIsSeq ==
  ASSUME NEW s, NEW k, NEW e, IsSeq(s)
  PROVE  IsSeq([s EXCEPT ![k] = e]) /\ Len([s EXCEPT ![k] = e]) = Len(s)
  BY SeqLen, FcnIsSeq

LEMMA OneIsSeq == ASSUME NEW e PROVE IsSeq(<<e>>)
<1>1. <<e>> \in Seq({e}) /\ DOMAIN <<e>> = {1} /\ <<e>>[1] = e
  OBVIOUS
<1>2. {<<e>>[i] : i \in DOMAIN <<e>>} = {e}
  BY <1>1
<1> QED BY <1>1, <1>2 DEF IsSeq

(***************************************************************************)
(* The type invariant in a form that is inductive: what an append in hand  *)
(* will store does not hit the first block.                                *)
(***************************************************************************)
Fields == {"tip", "coinbase", "prev", "block", "array", "len", "response"}

Locals == DOMAIN local = Req /\ \A r \in Req : DOMAIN local[r] = Fields

Memory ==
  /\ IsSeq(mem)
  /\ \A a \in DOMAIN mem :
       IsSeq(mem[a]) /\ 1 \in DOMAIN mem[a] /\ mem[a][1] = GenesisBlock
  /\ DOMAIN hdr = {"arr", "len"} /\ hdr.arr \in DOMAIN mem /\ hdr.len \in Nat \ {0}

Appending == {"array", "length", "element"}

Appends(r) == local[r].array \in DOMAIN mem /\ local[r].len \in Nat \ {0, 1}

TypeInv ==
  /\ TypeOK /\ Memory /\ Locals
  /\ \A r \in Req : pc[r] \in Appending => Appends(r)

LEMMA InitType == Init => TypeInv
<1> SUFFICES ASSUME Init PROVE TypeInv
  OBVIOUS
<1>1. IsSeq(<<GenesisBlock>>) /\ IsSeq(mem)
  BY OneIsSeq DEF Init
<1>2. /\ DOMAIN mem = {1} /\ mem[1] = <<GenesisBlock>>
      /\ 1 \in DOMAIN mem[1] /\ mem[1][1] = GenesisBlock
  BY DEF Init
<1>3. Locals
  BY DEF Init, Unset, Fields, Locals
<1>4. TypeOK
  BY <1>2 DEF Init, TypeOK, Locations, Finished
<1>5. Memory
  BY <1>1, <1>2 DEF Init, Memory
<1> QED BY <1>3, <1>4, <1>5 DEF Init, TypeInv, Appending

(* What keeping a value in a local variable and moving on do. *)
LEMMA KeepLocals ==
  ASSUME Locals, NEW r \in Req, NEW field \in Fields, NEW value, Keep(r, field, value)
  PROVE  /\ Locals'
         /\ \A s \in Req \ {r} : local'[s] = local[s]
         /\ local'[r][field] = value
         /\ \A f \in Fields \ {field} : local'[r][f] = local[r][f]
  BY DEF Keep, Locals

LEMMA GoType ==
  ASSUME pc \in [Req -> Locations], NEW r \in Req, NEW label \in Locations, Go(r, label)
  PROVE  /\ pc' \in [Req -> Locations] /\ pc'[r] = label
         /\ \A s \in Req \ {r} : pc'[s] = pc[s]
  BY DEF Go

(* A step of one handler that leaves the memory in order. *)
LEMMA HandlerType ==
  ASSUME TypeInv, NEW r \in Req, NEW label \in Locations, Go(r, label),
         Locals', \A s \in Req \ {r} : local'[s] = local[s],
         Memory', DOMAIN mem \subseteq DOMAIN mem',
         label \in Appending => Appends(r)',
         up' \in BOOLEAN, quiet' \in BOOLEAN, overlapped' \subseteq Req, sig' = sig
  PROVE  TypeInv'
<1>1. /\ pc' \in [Req -> Locations] /\ pc'[r] = label
      /\ \A s \in Req \ {r} : pc'[s] = pc[s]
  BY GoType DEF TypeInv, TypeOK
<1>2. TypeOK'
  BY <1>1 DEF TypeInv, TypeOK, Memory
<1>3. ASSUME NEW s \in Req, pc'[s] \in Appending PROVE Appends(s)'
  BY <1>1, <1>3 DEF TypeInv, Appends
<1> QED BY <1>2, <1>3 DEF TypeInv

LEMMA HandlerTypes ==
  ASSUME TypeInv, NEW r \in Req, Handler(r)
  PROVE  TypeInv'
<1> USE DEF TypeInv, TypeOK
<1>1. CASE ReadTip(r)
  <2> DEFINE label == IF LastBlock = Nil THEN "panicked" ELSE "height"
  <2>1. label \in Locations \ Appending /\ Go(r, label)
    BY <1>1 DEF ReadTip, Locations, Finished, Appending
  <2>2. Locals' /\ \A s \in Req \ {r} : local'[s] = local[s]
    <3>1. CASE local' = local
      BY <3>1 DEF Locals
    <3>2. CASE Keep(r, "tip", LastBlock)
      BY <3>2, KeepLocals DEF Fields
    <3> QED BY <3>1, <3>2, <1>1 DEF ReadTip
  <2>3. overlapped' \subseteq Req /\ quiet' \in BOOLEAN
    BY <1>1 DEF ReadTip, InFlight
  <2>4. Memory' /\ up' = up /\ sig' = sig /\ mem' = mem
    BY <1>1 DEF ReadTip, Memory
  <2> HIDE DEF label
  <2> QED BY <2>1, <2>2, <2>3, <2>4, HandlerType
<1>2. CASE ReadHeight(r)
  <2>1. "mine" \in Locations \ Appending /\ Go(r, "mine")
    BY <1>2 DEF ReadHeight, Locations, Appending
  <2>2. Locals' /\ \A s \in Req \ {r} : local'[s] = local[s]
    BY <1>2, KeepLocals DEF ReadHeight, Fields
  <2>3. Memory' /\ UNCHANGED <<mem, up, sig, overlapped, quiet>>
    BY <1>2 DEF ReadHeight, Memory
  <2> QED BY <2>1, <2>2, <2>3, HandlerType
<1>3. CASE NewBlock(r)
  <2> DEFINE label == IF WindowHollow THEN "panicked" ELSE "append"
  <2>1. label \in Locations \ Appending /\ Go(r, label)
    BY <1>3 DEF NewBlock, Locations, Finished, Appending
  <2>2. Locals' /\ \A s \in Req \ {r} : local'[s] = local[s]
    <3>1. CASE local' = local
      BY <3>1 DEF Locals
    <3>2. CASE \E block : Keep(r, "block", block)
      BY <3>2, KeepLocals DEF Fields
    <3> QED BY <3>1, <3>2, <1>3 DEF NewBlock
  <2>3. Memory' /\ UNCHANGED <<mem, up, sig, overlapped, quiet>>
    BY <1>3 DEF NewBlock, Memory
  <2> HIDE DEF label
  <2> QED BY <2>1, <2>2, <2>3, HandlerType
<1>4. CASE LoadHeader(r)
  <2> DEFINE full == hdr.len >= Len(mem[hdr.arr])
             copy == [n \in 1..(2 * hdr.len) |-> IF n <= hdr.len THEN Slot(hdr.arr, n) ELSE Nil]
             label == IF full THEN "array" ELSE "length"
  <2>1. label \in Locations /\ Go(r, label)
    BY <1>4 DEF LoadHeader, Locations
  <2>2. /\ Locals' /\ \A s \in Req \ {r} : local'[s] = local[s]
        /\ local'[r].array = IF full THEN Len(mem) + 1 ELSE hdr.arr
        /\ local'[r].len = hdr.len + 1
    BY <1>4 DEF LoadHeader, Locals, Fields
  <2>3. UNCHANGED <<hdr, up, sig, overlapped, quiet>>
    BY <1>4 DEF LoadHeader
  <2>4. IsSeq(copy) /\ 1 \in DOMAIN copy /\ copy[1] = GenesisBlock
    BY FcnIsSeq DEF Memory, Slot
  <2>5. Memory' /\ DOMAIN mem \subseteq DOMAIN mem' /\ (full => Len(mem) + 1 \in DOMAIN mem')
    <3>1. CASE ~full
      BY <3>1, <2>3, <1>4 DEF LoadHeader, Memory
    <3>2. CASE full
      <4>1. mem' = Append(mem, copy)
        BY <3>2, <1>4 DEF LoadHeader
      <4> HIDE DEF copy
      <4>2. IsSeq(mem) /\ Len(mem) \in Nat /\ DOMAIN mem = 1..Len(mem)
        BY SeqLen DEF Memory
      <4>3. /\ IsSeq(mem') /\ DOMAIN mem' = 1..(Len(mem) + 1)
            /\ \A a \in 1..Len(mem) : mem'[a] = mem[a]
            /\ mem'[Len(mem) + 1] = copy
        BY <4>1, <4>2, AppendIsSeq, SeqLen
      <4> QED BY <4>2, <4>3, <2>4, <2>3 DEF Memory
    <3> QED BY <3>1, <3>2
  <2>6. Appends(r)'
    BY <2>2, <2>3, <2>5 DEF Appends, Memory
  <2> HIDE DEF label, full, copy
  <2> QED BY <2>1, <2>2, <2>3, <2>5, <2>6, HandlerType
<1>5. CASE StoreArray(r)
  <2>1. pc[r] = "array" /\ Appends(r) /\ "length" \in Locations /\ Go(r, "length")
    BY <1>5 DEF StoreArray, At, Appending, Locations
  <2>2. Locals' /\ UNCHANGED <<local, mem, up, sig, overlapped, quiet>>
    BY <1>5 DEF StoreArray, Locals
  <2>3. Memory' /\ Appends(r)'
    BY <1>5, <2>1, <2>2 DEF StoreArray, Memory, Appends
  <2> QED BY <2>1, <2>2, <2>3, HandlerType
<1>6. CASE StoreLength(r)
  <2>1. pc[r] = "length" /\ Appends(r) /\ "element" \in Locations /\ Go(r, "element")
    BY <1>6 DEF StoreLength, At, Appending, Locations
  <2>2. Locals' /\ UNCHANGED <<local, mem, up, sig, overlapped, quiet>>
    BY <1>6 DEF StoreLength, Locals
  <2>3. Memory' /\ Appends(r)'
    BY <1>6, <2>1, <2>2 DEF StoreLength, Memory, Appends
  <2> QED BY <2>1, <2>2, <2>3, HandlerType
<1>7. CASE StoreElement(r)
  <2> DEFINE arr == local[r].array
             new == [mem[arr] EXCEPT ![local[r].len] = local[r].block]
  <2>1. pc[r] = "element" /\ Appends(r) /\ Go(r, "index")
        /\ "index" \in Locations \ Appending
    BY <1>7 DEF StoreElement, At, Appending, Locations
  <2>2. Locals' /\ UNCHANGED <<local, hdr, up, sig, overlapped, quiet>>
    BY <1>7 DEF StoreElement, Locals
  <2>3. mem' = [mem EXCEPT ![arr] = new] /\ arr \in DOMAIN mem
    BY <1>7, <2>1 DEF StoreElement, Appends
  <2>4. IsSeq(new) /\ 1 \in DOMAIN new /\ new[1] = GenesisBlock
    BY <2>1, <2>3, ExceptIsSeq DEF Memory, Appends
  <2> HIDE DEF arr, new
  <2>5. IsSeq(mem') /\ DOMAIN mem' = DOMAIN mem
        /\ \A a \in DOMAIN mem : mem'[a] = IF a = arr THEN new ELSE mem[a]
    BY <2>3, ExceptIsSeq DEF Memory
  <2>6. Memory'
    BY <2>2, <2>4, <2>5 DEF Memory
  <2> QED BY <2>1, <2>2, <2>5, <2>6, HandlerType
<1>8. CASE IndexBegin(r)
  <2>1. "indexing" \in Locations \ Appending /\ Go(r, "indexing")
    BY <1>8 DEF IndexBegin, Locations, Appending
  <2>2. Memory' /\ Locals' /\ up' \in BOOLEAN /\ UNCHANGED <<mem, local, sig, overlapped, quiet>>
    BY <1>8 DEF IndexBegin, Memory, Locals
  <2> QED BY <2>1, <2>2, HandlerType
<1>9. CASE IndexEnd(r)
  <2>1. "save" \in Locations \ Appending /\ Go(r, "save")
    BY <1>9 DEF IndexEnd, Locations, Appending
  <2>2. Memory' /\ Locals' /\ UNCHANGED <<mem, local, up, sig, overlapped, quiet>>
    BY <1>9 DEF IndexEnd, Memory, Locals
  <2> QED BY <2>1, <2>2, HandlerType
<1>10. CASE SaveOpen(r)
  <2>1. \E label \in Locations \ Appending : Go(r, label)
    BY <1>10 DEF SaveOpen, Locations, Appending
  <2>2. Memory' /\ Locals' /\ UNCHANGED <<mem, local, up, sig, overlapped, quiet>>
    BY <1>10 DEF SaveOpen, Memory, Locals
  <2> QED BY <2>1, <2>2, HandlerType
<1>11. CASE SaveEncode(r)
  <2>1. "respond" \in Locations \ Appending /\ Go(r, "respond")
    BY <1>11 DEF SaveEncode, Locations, Appending
  <2>2. Memory' /\ Locals' /\ UNCHANGED <<mem, local, up, sig, overlapped, quiet>>
    BY <1>11 DEF SaveEncode, Memory, Locals
  <2> QED BY <2>1, <2>2, HandlerType
<1>12. CASE Respond(r)
  <2>1. \E label \in Locations \ Appending : Go(r, label)
    BY <1>12 DEF Respond, Locations, Finished, Appending
  <2>2. Locals' /\ \A s \in Req \ {r} : local'[s] = local[s]
    <3>1. CASE local' = local
      BY <3>1 DEF Locals
    <3>2. CASE Keep(r, "response", LastBlock)
      BY <3>2, KeepLocals DEF Fields
    <3> QED BY <3>1, <3>2, <1>12 DEF Respond
  <2>3. Memory' /\ UNCHANGED <<mem, up, sig, overlapped, quiet>>
    BY <1>12 DEF Respond, Memory
  <2> QED BY <2>1, <2>2, <2>3, HandlerType
<1>13. CASE AddBlock(r)
  <2> DEFINE label == IF LastBlock = Nil THEN "panicked" ELSE "difficulty"
  <2>1. label \in Locations \ Appending /\ Go(r, label)
    BY <1>13 DEF AddBlock, Locations, Finished, Appending
  <2>2. Locals' /\ \A s \in Req \ {r} : local'[s] = local[s]
    <3>1. CASE local' = local
      BY <3>1 DEF Locals
    <3>2. CASE Keep(r, "prev", LastBlock)
      BY <3>2, KeepLocals DEF Fields
    <3> QED BY <3>1, <3>2, <1>13 DEF AddBlock
  <2>3. Memory' /\ UNCHANGED <<mem, up, sig, overlapped, quiet>>
    BY <1>13 DEF AddBlock, Memory
  <2> HIDE DEF label
  <2> QED BY <2>1, <2>2, <2>3, HandlerType
<1> QED BY <1>1, <1>2, <1>3, <1>4, <1>5, <1>6, <1>7, <1>8, <1>9, <1>10, <1>11, <1>12, <1>13
        DEF Handler

(* The GETs and the shutdown leave to the handlers what is theirs. *)
Still == UNCHANGED <<pc, local, mem, hdr, indexed, overlapped>>

LEMMA OthersStill == Get \/ Shutdown \/ UNCHANGED vars => Still
<1>1. Get => Still
  BY DEF Get, LookUp, GetByHash, GetByScan, ListBegin, ListFill, StatsBegin, StatsFill,
         ScanChain, IndexChecked, IndexRead, Unwritten, Still
<1>2. Shutdown => Still
  BY DEF Shutdown, Signal, ShutdownOpen, ShutdownEncode, Exit, Still
<1> QED BY <1>1, <1>2 DEF vars, Still

LEMMA StepType == TypeInv /\ [Next]_vars => TypeInv'
<1> SUFFICES ASSUME TypeInv, [Next]_vars PROVE TypeInv'
  OBVIOUS
<1>1. ASSUME NEW r \in Req, Handler(r) PROVE TypeInv'
  BY <1>1, HandlerTypes
<1>2. CASE Get \/ Shutdown \/ UNCHANGED vars
  <2>1. Still
    BY <1>2, OthersStill
  <2>2. /\ sig' \in {"waiting", "save", "encode", "saved", "failed", "panicked"}
        /\ up' \in BOOLEAN /\ quiet' \in BOOLEAN
    <3>1. CASE Get
      BY <3>1 DEF TypeInv, TypeOK, Get, LookUp, GetByHash, GetByScan, ListBegin, ListFill,
                  StatsBegin, StatsFill, ScanChain, IndexChecked, IndexRead, Unwritten
    <3>2. CASE Shutdown
      BY <3>2 DEF TypeInv, TypeOK, Shutdown, Signal, ShutdownOpen, ShutdownEncode, Exit
    <3> QED BY <3>1, <3>2, <1>2 DEF TypeInv, TypeOK, vars
  <2> QED BY <2>1, <2>2 DEF Still, TypeInv, TypeOK, Memory, Locals, Appends
<1> QED BY <1>1, <1>2 DEF Next

(* Type correctness, and that the first block is never overwritten. *)
THEOREM TypeCorrect == Spec => []TypeOK
<1>1. Init => TypeInv
  BY InitType
<1>2. TypeInv /\ [Next]_vars => TypeInv'
  BY StepType
<1>3. TypeInv => TypeOK
  BY DEF TypeInv
<1> QED BY <1>1, <1>2, <1>3, PTL DEF Spec
-----------------------------------------------------------------------------
(***************************************************************************)
(* A shutdown that has the process for itself: nothing is in flight, the   *)
(* chain keeps the length the save was begun with, and the file it wrote.  *)
(***************************************************************************)
QuietInv ==
  quiet /\ sig # "waiting" =>
    /\ InFlight = {}
    /\ sig = "encode" => made = hdr.len
    /\ sig = "saved" => file = Json(Chain)

LEMMA StepQuiet == QuietInv /\ [Next]_vars => QuietInv'
<1> SUFFICES ASSUME QuietInv, [Next]_vars, quiet', sig' # "waiting"
             PROVE  QuietInv'
  BY DEF QuietInv
<1>1. CASE UNCHANGED vars
  BY <1>1 DEF vars, QuietInv, InFlight, Chain, Slot
<1>2. CASE Shutdown
  <2>1. UNCHANGED <<pc, mem, hdr>> /\ InFlight' = InFlight /\ Chain' = Chain
    BY <1>2 DEF Shutdown, Signal, ShutdownOpen, ShutdownEncode, Exit, InFlight, Chain, Slot
  <2>2. CASE Signal
    BY <2>1, <2>2 DEF Signal, QuietInv
  <2>3. CASE ShutdownOpen
    BY <2>1, <2>3 DEF ShutdownOpen, QuietInv
  <2>4. CASE ShutdownEncode
    BY <2>1, <2>4 DEF ShutdownEncode, QuietInv
  <2>5. CASE Exit
    BY <2>1, <2>5 DEF Exit, QuietInv
  <2> QED BY <2>2, <2>3, <2>4, <2>5, <1>2 DEF Shutdown
<1>3. CASE Get
  <2>1. UNCHANGED <<pc, mem, hdr, file, sig, made, quiet>>
    BY <1>3 DEF Get, LookUp, GetByHash, GetByScan, ListBegin, ListFill, StatsBegin, StatsFill,
                ScanChain, IndexChecked, IndexRead, Unwritten
  <2> QED BY <2>1 DEF QuietInv, InFlight, Chain, Slot
<1>4. ASSUME NEW r \in Req, Handler(r) PROVE FALSE
  <2>1. sig' = sig /\ (ReadTip(r) => ~quiet') /\ (~ReadTip(r) => quiet' = quiet)
    BY <1>4 DEF Handler, ReadTip, ReadHeight, AddBlock, NewBlock, LoadHeader, StoreArray,
                StoreLength, StoreElement, IndexBegin, IndexEnd, SaveOpen, SaveEncode, Respond
  <2>2. ~ReadTip(r) => r \in InFlight
    BY <1>4 DEF Handler, ReadHeight, AddBlock, NewBlock, LoadHeader, StoreArray, StoreLength,
                StoreElement, IndexBegin, IndexEnd, SaveOpen, SaveEncode, Respond, At,
                InFlight, Finished
  <2> QED BY <2>1, <2>2 DEF QuietInv
<1> QED BY <1>1, <1>2, <1>3, <1>4 DEF Next

(* What a shutdown without requests saved is the chain, and stays so. *)
THEOREM QuietShutdownSavesCorrect == Spec => []QuietShutdownSaves
<1>1. Init => QuietInv
  BY DEF Init, QuietInv
<1>2. QuietInv /\ [Next]_vars => QuietInv'
  BY StepQuiet
<1>3. QuietInv => QuietShutdownSaves
  BY DEF QuietInv, QuietShutdownSaves
<1> QED BY <1>1, <1>2, <1>3, PTL DEF Spec
-----------------------------------------------------------------------------
(***************************************************************************)
(* No two requests in flight at any time so far.  The blocks stored are    *)
(* those of the slice but, between the stores of its length and of its     *)
(* last element, for that one; the rest of the array is empty.  Stored     *)
(* blocks follow each other in all that NewBlock writes, and the one       *)
(* request in flight knows what its location says.                         *)
(***************************************************************************)
Stored == IF \E r \in Req : pc[r] = "element" THEN hdr.len - 1 ELSE hdr.len

Elem(i) == mem[hdr.arr][i]

Follows(block, i, tip) ==
  /\ block # Nil
  /\ block.index = i /\ block.prev = tip
  /\ block.coinbase = [index |-> i, prev |-> tip]

StoredInv ==
  /\ Stored \in 1..Len(mem[hdr.arr])
  /\ \A i \in 2..Stored : Follows(Elem(i), i - 1, Elem(i - 1))
  /\ \A i \in (Stored + 1)..Len(mem[hdr.arr]) : Elem(i) = Nil
  /\ \A b \in indexed : b.index \in 0..(Stored - 1) /\ b = Elem(b.index + 1)

Added == {"index", "indexing", "save", "encode", "respond"}

Pending(r) ==
  /\ Follows(local[r].block, Stored, Elem(Stored))
  /\ pc[r] # "append" =>
       /\ local[r].len = Stored + 1 /\ Stored < Len(mem[local[r].array])
       /\ IF pc[r] = "array"
          THEN /\ \A i \in 1..Stored : mem[local[r].array][i] = Elem(i)
               /\ \A i \in (Stored + 1)..Len(mem[local[r].array]) : mem[local[r].array][i] = Nil
          ELSE local[r].array = hdr.arr

RequestInv(r) ==
  /\ pc[r] # "panicked"
  /\ pc[r] = "height" => local[r].tip = Elem(Stored)
  /\ pc[r] \in {"mine", "difficulty"} =>
       local[r].coinbase = [index |-> Stored, prev |-> Elem(Stored)]
  /\ pc[r] = "difficulty" => local[r].prev = Elem(Stored)
  /\ pc[r] \in {"append"} \cup Appending => Pending(r)
  /\ pc[r] \in Added => local[r].block = Elem(Stored)
  /\ pc[r] = "done" => local[r].response = local[r].block

SoloInv ==
  overlapped = {} =>
    /\ \A r, s \in InFlight : r = s
    /\ StoredInv
    /\ \A r \in Req : RequestInv(r)

(* What a step may do to the stored blocks. *)
Grows ==
  /\ Stored' \in {Stored, Stored + 1} /\ hdr'.len \in {hdr.len, hdr.len + 1}
  /\ \A i \in 1..Stored : Elem(i)' = Elem(i)

LEMMA InitSolo == Init => SoloInv
<1> SUFFICES ASSUME Init PROVE SoloInv
  OBVIOUS
<1>1. /\ Stored = 1 /\ mem[hdr.arr] = <<GenesisBlock>> /\ Len(mem[hdr.arr]) = 1
      /\ indexed = {GenesisBlock} /\ InFlight = {}
  BY DEF Init, Stored, InFlight, Finished
<1>2. StoredInv
  BY <1>1 DEF StoredInv, Elem, GenesisBlock
<1>3. \A r \in Req : RequestInv(r)
  BY DEF Init, RequestInv, Appending, Added
<1> QED BY <1>1, <1>2, <1>3 DEF SoloInv

(* While nothing overlaps, a handler that takes a step is the only one.    *)
LEMMA Alone ==
  ASSUME TypeInv, SoloInv, NEW r \in Req, Handler(r), overlapped' = {}
  PROVE  /\ overlapped = {}
         /\ \A s \in Req \ {r} : s \notin InFlight /\ pc'[s] = pc[s] /\ local'[s] = local[s]
<1>1. overlapped \subseteq overlapped'
  BY DEF Handler, ReadTip, ReadHeight, AddBlock, NewBlock, LoadHeader, StoreArray, StoreLength,
         StoreElement, IndexBegin, IndexEnd, SaveOpen, SaveEncode, Respond
<1>2. CASE ReadTip(r)
  BY <1>1, <1>2 DEF ReadTip, Keep, Go, TypeInv, TypeOK, Locals
<1>3. CASE ~ReadTip(r)
  <2>1. r \in InFlight
    BY <1>3 DEF Handler, ReadHeight, AddBlock, NewBlock, LoadHeader, StoreArray, StoreLength,
                StoreElement, IndexBegin, IndexEnd, SaveOpen, SaveEncode, Respond, At,
                InFlight, Finished
  <2>2. \A s \in Req \ {r} : pc'[s] = pc[s] /\ local'[s] = local[s]
    BY <1>3 DEF Handler, ReadHeight, AddBlock, NewBlock, LoadHeader, StoreArray, StoreLength,
                StoreElement, IndexBegin, IndexEnd, SaveOpen, SaveEncode, Respond, Keep, Go,
                TypeInv, TypeOK, Locals
  <2> QED BY <1>1, <2>1, <2>2 DEF SoloInv
<1> QED BY <1>2, <1>3

LEMMA StoredAlone ==
  ASSUME NEW r \in Req, \A s \in Req \ {r} : s \notin InFlight
  PROVE  Stored = IF pc[r] = "element" THEN hdr.len - 1 ELSE hdr.len
  BY DEF Stored, InFlight, Finished

LEMMA StoredAloneNext ==
  ASSUME NEW r \in Req, \A s \in Req \ {r} : s \notin InFlight /\ pc'[s] = pc[s]
  PROVE  Stored' = IF pc'[r] = "element" THEN hdr'.len - 1 ELSE hdr'.len
  BY DEF Stored, InFlight, Finished

(* The array of the slice: its last stored block, and its bounds. *)
LEMMA TipStored ==
  ASSUME TypeInv, StoredInv
  PROVE  /\ Stored \in Nat \ {0} /\ Len(mem[hdr.arr]) \in Nat
         /\ DOMAIN mem[hdr.arr] = 1..Len(mem[hdr.arr]) /\ IsSeq(mem[hdr.arr])
         /\ Elem(1) = GenesisBlock
         /\ Elem(Stored) # Nil /\ Elem(Stored).index = Stored - 1
         /\ Stored = hdr.len => LastBlock = Elem(Stored)
<1>1. IsSeq(mem[hdr.arr]) /\ Elem(1) = GenesisBlock
  BY DEF TypeInv, Memory, Elem
<1>2. Len(mem[hdr.arr]) \in Nat /\ DOMAIN mem[hdr.arr] = 1..Len(mem[hdr.arr])
  BY <1>1, SeqLen
<1>3. GenesisBlock # Nil
  BY DEF GenesisBlock, Nil
<1>4. Stored \in Nat \ {0}
  BY <1>2 DEF StoredInv
<1>5. Elem(Stored) # Nil /\ Elem(Stored).index = Stored - 1
  <2>1. CASE Stored = 1
    BY <1>1, <1>3, <2>1 DEF GenesisBlock
  <2>2. CASE Stored # 1
    <3>1. Stored \in 2..Stored
      BY <1>4, <2>2
    <3>2. Follows(Elem(Stored), Stored - 1, Elem(Stored - 1))
      BY <3>1 DEF StoredInv
    <3> QED BY <3>2 DEF Follows
  <2> QED BY <2>1, <2>2
<1>6. Stored = hdr.len => LastBlock = Elem(Stored)
  BY <1>2 DEF StoredInv, LastBlock, Slot, Elem
<1> QED BY <1>1, <1>2, <1>4, <1>5, <1>6

(* The step of a handler that is alone has to keep only its own part. *)
LEMMA SoloStep ==
  ASSUME SoloInv, overlapped = {}, NEW r \in Req,
         \A s \in Req \ {r} : s \notin InFlight /\ pc'[s] = pc[s] /\ local'[s] = local[s],
         StoredInv', RequestInv(r)'
  PROVE  SoloInv'
<1>1. \A s \in Req \ {r} : s \notin InFlight'
  BY DEF InFlight, Finished
<1>2. ASSUME NEW s \in Req \ {r} PROVE RequestInv(s)'
  <2>1. pc'[s] \in {"idle", "done", "panicked"}
    BY DEF InFlight, Finished
  <2>2. RequestInv(s)
    BY DEF SoloInv
  <2> QED BY <2>1, <2>2 DEF RequestInv, Appending, Added
<1> QED BY <1>1, <1>2 DEF SoloInv, InFlight

LEMMA SameStored ==
  ASSUME StoredInv, UNCHANGED <<mem, hdr, indexed>>, Stored' = Stored
  PROVE  StoredInv' /\ Elem(Stored)' = Elem(Stored)
  BY DEF StoredInv, Elem, Follows

(***************************************************************************)
(* The steps before the append: each finds the tip in order.               *)
(***************************************************************************)
LEMMA SoloReads ==
  ASSUME TypeInv, SoloInv, NEW r \in Req, overlapped' = {},
         ReadTip(r) \/ ReadHeight(r) \/ AddBlock(r) \/ NewBlock(r) \/ Respond(r)
  PROVE  SoloInv' /\ Grows
<1>1. Handler(r) /\ pc[r] \notin Appending /\ pc'[r] \notin Appending
  BY DEF Handler, ReadTip, ReadHeight, AddBlock, NewBlock, Respond, At, Go, Appending,
         TypeInv, TypeOK
<1>2. /\ overlapped = {}
      /\ \A s \in Req \ {r} : s \notin InFlight /\ pc'[s] = pc[s] /\ local'[s] = local[s]
  BY <1>1, Alone
<1>3. StoredInv /\ RequestInv(r)
  BY <1>2 DEF SoloInv
<1>4. Stored = hdr.len /\ Stored' = hdr'.len
  BY <1>1, <1>2, StoredAlone, StoredAloneNext DEF Appending
<1>5. UNCHANGED <<mem, hdr, indexed>>
  BY DEF ReadTip, ReadHeight, AddBlock, NewBlock, Respond
<1>6. StoredInv' /\ Elem(Stored)' = Elem(Stored) /\ Stored' = Stored
  BY <1>3, <1>4, <1>5, SameStored
<1>7. Stored \in Nat \ {0} /\ Elem(Stored) # Nil /\ LastBlock = Elem(Stored)
  BY <1>3, <1>4, TipStored
<1>8. RequestInv(r)'
  <2>1. CASE ReadTip(r)
    <3>1. Go(r, "height") /\ Keep(r, "tip", LastBlock)
      BY <2>1, <1>7 DEF ReadTip
    <3>2. pc'[r] = "height" /\ local'[r].tip = LastBlock
      BY <3>1 DEF Go, Keep, TypeInv, TypeOK, Locals, Fields
    <3> QED BY <3>2, <1>6, <1>7 DEF RequestInv, Appending, Added
  <2>2. CASE ReadHeight(r)
    <3>1. pc'[r] = "mine" /\ local[r].tip = Elem(Stored)
      BY <2>2, <1>3 DEF ReadHeight, At, Go, RequestInv, TypeInv, TypeOK
    <3>2. local'[r].coinbase = [index |-> Stored, prev |-> Elem(Stored)]
      BY <2>2, <3>1, <1>4 DEF ReadHeight, Keep, TypeInv, Locals, Fields
    <3> QED BY <3>1, <3>2, <1>6 DEF RequestInv, Appending, Added
  <2>3. CASE NewBlock(r)
    <3>0. ~WindowHollow
      <4>1. ASSUME NEW i \in 1..Stored PROVE Slot(hdr.arr, i) # Nil
        <5>1. Stored \in 1..Len(mem[hdr.arr])
          BY <1>3 DEF StoredInv
        <5>2. i \in DOMAIN mem[hdr.arr]
          BY <5>1, <1>3, <4>1, TipStored
        <5>3. Elem(1) # Nil
          BY <1>3, TipStored DEF GenesisBlock, Nil
        <5>4. i # 1 => Elem(i) # Nil
          <6>1. i # 1 => i \in 2..Stored
            BY <1>7
          <6>2. StoredInv
            BY <1>3
          <6>3. i # 1 => Follows(Elem(i), i - 1, Elem(i - 1))
            BY <6>1, <6>2 DEF StoredInv
          <6> QED BY <6>3 DEF Follows
        <5> QED BY <5>2, <5>3, <5>4 DEF Slot, Elem
      <4>2. hdr.len > AdjustmentInterval => hdr.len - AdjustmentInterval + 1 \in 1..Stored
        BY <1>4, <1>7, BoundsAssumption
      <4> QED BY <4>1, <4>2, <1>7 DEF WindowHollow
    <3>1. /\ pc'[r] = "append" /\ local[r].prev = Elem(Stored)
          /\ local[r].coinbase = [index |-> Stored, prev |-> Elem(Stored)]
      BY <2>3, <1>3, <3>0 DEF NewBlock, At, Go, RequestInv, TypeInv, TypeOK
    <3>2. PICK sec \in Seconds :
            local'[r].block = [index |-> local[r].prev.index + 1, prev |-> local[r].prev,
                               coinbase |-> local[r].coinbase, sec |-> sec]
      BY <2>3, <3>0 DEF NewBlock, Keep, TypeInv, Locals, Fields
    <3>3. local[r].prev.index + 1 = Stored
      BY <1>3, <1>7, <3>1, TipStored
    <3>4. local'[r].block # Nil
      BY <3>2 DEF Nil
    <3>5. Follows(local'[r].block, Stored, Elem(Stored))
      BY <3>1, <3>2, <3>3, <3>4 DEF Follows
    <3> QED BY <3>1, <3>5, <1>6 DEF RequestInv, Pending, Appending, Added, Follows
  <2>4. CASE Respond(r)
    <3>1. /\ pc'[r] = "done" /\ local[r].block = Elem(Stored)
          /\ Keep(r, "response", LastBlock)
      BY <2>4, <1>3, <1>7 DEF Respond, At, Go, RequestInv, Added, TypeInv, TypeOK
    <3>2. local'[r].response = LastBlock /\ local'[r].block = local[r].block
      BY <3>1 DEF Keep, TypeInv, Locals, Fields
    <3> QED BY <3>1, <3>2, <1>6, <1>7 DEF RequestInv, Appending, Added
  <2>5. CASE AddBlock(r)
    <3>1. pc'[r] = "difficulty" /\ Keep(r, "prev", LastBlock)
          /\ local[r].coinbase = [index |-> Stored, prev |-> Elem(Stored)]
      BY <2>5, <1>3, <1>7 DEF AddBlock, At, Go, RequestInv, TypeInv, TypeOK
    <3>2. local'[r].prev = LastBlock /\ local'[r].coinbase = local[r].coinbase
      BY <3>1 DEF Keep, TypeInv, Locals, Fields
    <3> QED BY <3>1, <3>2, <1>6, <1>7 DEF RequestInv, Appending, Added
  <2> QED BY <2>1, <2>2, <2>3, <2>4, <2>5
<1>9. Grows
  BY <1>5, <1>6 DEF Grows, Elem
<1> QED BY <1>2, <1>6, <1>8, <1>9, SoloStep

(***************************************************************************)
(* append: a copy holds what the array held, and nothing counts as stored  *)
(* before its element is.                                                  *)
(***************************************************************************)
LEMMA SoloAppends ==
  ASSUME TypeInv, SoloInv, NEW r \in Req, overlapped' = {},
         LoadHeader(r) \/ StoreArray(r) \/ StoreLength(r) \/ StoreElement(r)
  PROVE  SoloInv' /\ Grows
<1>1. Handler(r)
  BY DEF Handler
<1>2. /\ overlapped = {}
      /\ \A s \in Req \ {r} : s \notin InFlight /\ pc'[s] = pc[s] /\ local'[s] = local[s]
  BY <1>1, Alone
<1>3. StoredInv /\ RequestInv(r)
  BY <1>2 DEF SoloInv
<1>4. /\ Stored = IF pc[r] = "element" THEN hdr.len - 1 ELSE hdr.len
      /\ Stored' = IF pc'[r] = "element" THEN hdr'.len - 1 ELSE hdr'.len
  BY <1>2, StoredAlone, StoredAloneNext
<1>5. /\ Stored \in Nat \ {0} /\ Len(mem[hdr.arr]) \in Nat /\ Stored <= Len(mem[hdr.arr])
      /\ DOMAIN mem[hdr.arr] = 1..Len(mem[hdr.arr]) /\ IsSeq(mem[hdr.arr])
  BY <1>3, TipStored DEF StoredInv
<1>6. hdr.len \in Nat \ {0} /\ hdr.arr \in DOMAIN mem /\ DOMAIN hdr = {"arr", "len"}
      /\ IsSeq(mem)
  BY DEF TypeInv, Memory
<1>7. StoredInv' /\ RequestInv(r)' /\ Grows
  <2>1. CASE LoadHeader(r)
    <3> DEFINE full == hdr.len >= Len(mem[hdr.arr])
               copy == [n \in 1..(2 * hdr.len) |-> IF n <= hdr.len THEN Slot(hdr.arr, n) ELSE Nil]
    <3>1. /\ pc[r] = "append" /\ pc'[r] = IF full THEN "array" ELSE "length"
          /\ mem' = IF full THEN Append(mem, copy) ELSE mem
          /\ local'[r].array = IF full THEN Len(mem) + 1 ELSE hdr.arr
          /\ local'[r].len = hdr.len + 1 /\ local'[r].block = local[r].block
          /\ UNCHANGED <<hdr, indexed>>
      BY <2>1 DEF LoadHeader, At, Go, TypeInv, TypeOK, Locals, Fields
    <3>2. Stored = hdr.len /\ Stored' = Stored
      BY <3>1, <1>4
    <3>3. Pending(r)
      BY <3>1, <1>3 DEF RequestInv
    <3>4. mem'[hdr.arr] = mem[hdr.arr] /\ (full => mem'[Len(mem) + 1] = copy)
      <4>1. \A e : mem' = Append(mem, e) =>
              mem'[hdr.arr] = mem[hdr.arr] /\ mem'[Len(mem) + 1] = e
        BY <1>6, SeqLen, AppendIsSeq
      <4> HIDE DEF copy
      <4> QED BY <3>1, <4>1
    <3>5. IsSeq(copy) /\ Len(copy) = 2 * hdr.len
      BY <1>6, FcnIsSeq
    <3>6. /\ \A n \in 1..hdr.len : copy[n] = Elem(n)
          /\ \A n \in (hdr.len + 1)..(2 * hdr.len) : copy[n] = Nil
      BY <1>5, <1>6, <3>2 DEF Slot, Elem
    <3> HIDE DEF copy
    <3>7. StoredInv' /\ \A n : Elem(n)' = Elem(n)
      BY <3>1, <3>2, <3>4, <1>3 DEF StoredInv, Elem, Follows
    <3>8. Pending(r)'
      <4>1. Follows(local[r].block, Stored, Elem(Stored))'
        BY <3>1, <3>2, <3>3, <3>7 DEF Pending, Follows
      <4>2. CASE full
        BY <4>1, <4>2, <3>1, <3>2, <3>4, <3>5, <3>6, <3>7, <1>6 DEF Pending
      <4>3. CASE ~full
        BY <4>1, <4>3, <3>1, <3>2, <3>4, <1>5, <1>6 DEF Pending
      <4> QED BY <4>2, <4>3
    <3>9. Grows
      BY <3>1, <3>2, <3>7 DEF Grows
    <3> QED BY <3>1, <3>7, <3>8, <3>9 DEF RequestInv, Appending, Added
  <2>2. CASE StoreArray(r)
    <3>1. /\ pc[r] = "array" /\ pc'[r] = "length" /\ UNCHANGED <<local, mem, indexed>>
          /\ hdr'.arr = local[r].array /\ hdr'.len = hdr.len
      BY <2>2, <1>6 DEF StoreArray, At, Go, TypeInv, TypeOK
    <3>2. Stored = hdr.len /\ Stored' = Stored
      BY <3>1, <1>4
    <3>3. Pending(r)
      BY <3>1, <1>3 DEF RequestInv, Appending
    <3>4. IsSeq(mem[local[r].array])
      BY <3>1 DEF TypeInv, Memory, Appending, Appends
    <3>5. Len(mem[local[r].array]) \in Nat
      BY <3>4, SeqLen
    <3>6. \A n \in 1..Stored : Elem(n)' = Elem(n)
      BY <3>1, <3>3 DEF Pending, Elem
    <3>7. StoredInv'
      <4>1. Stored' \in 1..Len(mem'[hdr'.arr])
        BY <3>1, <3>2, <3>3, <3>5, <1>5 DEF Pending
      <4>2. \A n \in 2..Stored' : Follows(Elem(n), n - 1, Elem(n - 1))'
        BY <3>2, <3>6, <1>3, <1>5 DEF StoredInv, Follows
      <4>3. \A n \in (Stored' + 1)..Len(mem'[hdr'.arr]) : Elem(n)' = Nil
        BY <3>1, <3>2, <3>3 DEF Pending, Elem
      <4>4. \A b \in indexed' : b.index \in 0..(Stored' - 1) /\ b = Elem(b.index + 1)'
        BY <3>1, <3>2, <3>6, <1>3, <1>5 DEF StoredInv
      <4> QED BY <4>1, <4>2, <4>3, <4>4 DEF StoredInv
    <3>8. Pending(r)'
      BY <3>1, <3>2, <3>3, <3>6, <1>5 DEF Pending, Follows
    <3>9. Grows
      BY <3>1, <3>2, <3>6 DEF Grows
    <3> QED BY <3>1, <3>7, <3>8, <3>9 DEF RequestInv, Appending, Added
  <2>3. CASE StoreLength(r)
    <3>1. /\ pc[r] = "length" /\ pc'[r] = "element" /\ UNCHANGED <<local, mem, indexed>>
          /\ hdr'.arr = hdr.arr /\ hdr'.len = local[r].len
      BY <2>3, <1>6 DEF StoreLength, At, Go, TypeInv, TypeOK
    <3>2. Pending(r)
      BY <3>1, <1>3 DEF RequestInv, Appending
    <3>3. Stored = hdr.len /\ Stored' = Stored
      BY <3>1, <3>2, <1>4, <1>5 DEF Pending
    <3>4. StoredInv' /\ \A n : Elem(n)' = Elem(n)
      BY <3>1, <3>3, <1>3 DEF StoredInv, Elem, Follows
    <3>5. Pending(r)'
      BY <3>1, <3>2, <3>3, <3>4 DEF Pending, Follows
    <3>6. Grows
      BY <3>1, <3>2, <3>3, <3>4 DEF Grows, Pending
    <3> QED BY <3>1, <3>4, <3>5, <3>6 DEF RequestInv, Appending, Added
  <2>4. CASE StoreElement(r)
    <3>1. /\ pc[r] = "element" /\ pc'[r] = "index" /\ UNCHANGED <<local, hdr, indexed>>
          /\ mem' = [mem EXCEPT ![local[r].array][local[r].len] = local[r].block]
      BY <2>4 DEF StoreElement, At, Go, TypeInv, TypeOK
    <3>2. Pending(r)
      BY <3>1, <1>3 DEF RequestInv, Appending
    <3>3. /\ local[r].array = hdr.arr /\ local[r].len = Stored + 1
          /\ Stored < Len(mem[hdr.arr]) /\ Stored' = Stored + 1
      BY <3>1, <3>2, <1>4, <1>5, <1>6 DEF Pending
    <3>4. /\ mem'[hdr.arr] = [mem[hdr.arr] EXCEPT ![Stored + 1] = local[r].block]
      BY <3>1, <3>3, <1>6
    <3>5. /\ Len(mem'[hdr.arr]) = Len(mem[hdr.arr])
          /\ \A n \in 1..Len(mem[hdr.arr]) :
               Elem(n)' = IF n = Stored + 1 THEN local[r].block ELSE Elem(n)
      BY <3>1, <3>4, <1>5, ExceptIsSeq DEF Elem
    <3>6. StoredInv'
      <4>1. Stored' \in 1..Len(mem'[hdr'.arr])
        BY <3>1, <3>3, <3>5, <1>5
      <4>2. ASSUME NEW n \in 2..Stored' PROVE Follows(Elem(n), n - 1, Elem(n - 1))'
        <5>1. CASE n = Stored + 1
          <6>1. n \in 1..Len(mem[hdr.arr]) /\ n - 1 = Stored /\ Stored \in 1..Len(mem[hdr.arr])
            BY <5>1, <3>3, <1>5
          <6>2. Elem(n)' = local[r].block /\ Elem(n - 1)' = Elem(Stored)
            BY <5>1, <6>1, <3>5, <1>5
          <6> QED BY <6>1, <6>2, <3>2 DEF Pending, Follows
        <5>2. CASE n # Stored + 1
          <6>1. n \in 2..Stored
            BY <5>2, <3>3, <1>5
          <6>2. Follows(Elem(n), n - 1, Elem(n - 1))
            BY <6>1, <1>3 DEF StoredInv
          <6>3. Elem(n)' = Elem(n) /\ Elem(n - 1)' = Elem(n - 1)
            BY <6>1, <3>3, <3>5, <1>5
          <6> QED BY <6>2, <6>3 DEF Follows
        <5> QED BY <5>1, <5>2
      <4>3. \A n \in (Stored' + 1)..Len(mem'[hdr'.arr]) : Elem(n)' = Nil
        BY <3>1, <3>3, <3>5, <1>3, <1>5 DEF StoredInv
      <4>4. \A b \in indexed' : b.index \in 0..(Stored' - 1) /\ b = Elem(b.index + 1)'
        BY <3>1, <3>3, <3>5, <1>3, <1>5 DEF StoredInv
      <4> QED BY <4>1, <4>2, <4>3, <4>4 DEF StoredInv
    <3>7. local'[r].block = Elem(Stored)'
      BY <3>1, <3>3, <3>5, <1>5
    <3>8. Grows
      BY <3>1, <3>3, <3>5, <1>5 DEF Grows
    <3> QED BY <3>1, <3>6, <3>7, <3>8 DEF RequestInv, Appending, Added
  <2> QED BY <2>1, <2>2, <2>3, <2>4
<1> QED BY <1>2, <1>7, SoloStep

(* What follows an append: the index, the save. *)
LEMMA SoloRecords ==
  ASSUME TypeInv, SoloInv, NEW r \in Req, overlapped' = {},
         IndexBegin(r) \/ IndexEnd(r) \/ SaveOpen(r) \/ SaveEncode(r)
  PROVE  SoloInv' /\ Grows
<1>1. Handler(r) /\ pc[r] \in Added /\ pc'[r] \in Added /\ UNCHANGED <<local, mem, hdr>>
  BY DEF Handler, IndexBegin, IndexEnd, SaveOpen, SaveEncode, At, Go, Added, TypeInv, TypeOK
<1>2. /\ overlapped = {}
      /\ \A s \in Req \ {r} : s \notin InFlight /\ pc'[s] = pc[s] /\ local'[s] = local[s]
  BY <1>1, Alone
<1>3. StoredInv /\ RequestInv(r)
  BY <1>2 DEF SoloInv
<1>4. Stored = hdr.len /\ Stored' = Stored
  BY <1>1, <1>2, StoredAlone, StoredAloneNext DEF Added
<1>5. local[r].block = Elem(Stored) /\ \A n : Elem(n)' = Elem(n)
  BY <1>1, <1>3 DEF RequestInv, Elem
<1>6. RequestInv(r)'
  BY <1>1, <1>4, <1>5 DEF RequestInv, Added, Appending
<1>7. indexed' = indexed \/ indexed' = indexed \cup {local[r].block}
  BY DEF IndexBegin, IndexEnd, SaveOpen, SaveEncode
<1>8. \A b \in indexed' : b.index \in 0..(Stored - 1) /\ b = Elem(b.index + 1)
  <2>1. /\ Stored \in Nat \ {0} /\ Elem(Stored).index = Stored - 1
    BY <1>3, TipStored
  <2> QED BY <2>1, <1>3, <1>5, <1>7 DEF StoredInv
<1>9. StoredInv'
  BY <1>1, <1>3, <1>4, <1>5, <1>8 DEF StoredInv, Follows
<1>10. Grows
  BY <1>1, <1>4, <1>5 DEF Grows
<1> QED BY <1>2, <1>6, <1>9, <1>10, SoloStep

LEMMA StepSolo ==
  ASSUME TypeInv, SoloInv, [Next]_vars
  PROVE  SoloInv' /\ (overlapped' = {} => overlapped = {} /\ Grows)
<1> SUFFICES ASSUME overlapped' = {} PROVE SoloInv' /\ overlapped = {} /\ Grows
  BY DEF SoloInv
<1>1. ASSUME NEW r \in Req, Handler(r) PROVE SoloInv' /\ overlapped = {} /\ Grows
  BY <1>1, Alone, SoloReads, SoloAppends, SoloRecords DEF Handler
<1>2. CASE Get \/ Shutdown \/ UNCHANGED vars
  <2>1. Still
    BY <1>2, OthersStill
  <2>2. Stored' = Stored /\ InFlight' = InFlight /\ \A n : Elem(n)' = Elem(n)
    BY <2>1 DEF Still, Stored, InFlight, Elem
  <2>3. overlapped = {} /\ StoredInv /\ \A r \in Req : RequestInv(r)
    BY <2>1 DEF Still, SoloInv
  <2>4. StoredInv'
    BY <2>1, <2>2, <2>3 DEF Still, StoredInv, Follows
  <2>5. ASSUME NEW r \in Req PROVE RequestInv(r)'
    BY <2>1, <2>2, <2>3 DEF Still, RequestInv, Pending, Follows
  <2>6. Grows
    BY <2>1, <2>2 DEF Still, Grows
  <2> QED BY <2>2, <2>3, <2>4, <2>5, <2>6 DEF SoloInv
<1> QED BY <1>1, <1>2 DEF Next

(* As long as no two requests overlapped, what is stored and what the one  *)
(* in flight has read are as SoloInv says: the inductive invariant.        *)
THEOREM SoloCorrect == Spec => [](TypeInv /\ SoloInv)
<1>1. Init => TypeInv /\ SoloInv
  BY InitType, InitSolo
<1>2. TypeInv /\ SoloInv /\ [Next]_vars => (TypeInv /\ SoloInv)'
  BY StepType, StepSolo
<1> QED BY <1>1, <1>2, PTL DEF Spec

(* What the chain shows of the stored blocks: all of them, and an empty    *)
(* slot between the stores of a length and of its element. *)
LEMMA ChainStored ==
  ASSUME TypeInv, SoloInv, overlapped = {}
  PROVE  /\ Stored \in Nat \ {0} /\ hdr.len \in {Stored, Stored + 1}
         /\ IsSeq(Chain) /\ Len(Chain) = hdr.len
         /\ \A n \in 1..Stored : Chain[n] = Elem(n) /\ Elem(n) # Nil
         /\ Elem(1) = GenesisBlock
         /\ \A n \in 2..Stored : Follows(Elem(n), n - 1, Elem(n - 1))
         /\ hdr.len # Stored => Chain[hdr.len] = Nil
         /\ InFlight = {} => hdr.len = Stored
<1>1. StoredInv
  BY DEF SoloInv
<1>2. /\ Stored \in Nat \ {0} /\ Len(mem[hdr.arr]) \in Nat /\ Stored <= Len(mem[hdr.arr])
      /\ DOMAIN mem[hdr.arr] = 1..Len(mem[hdr.arr]) /\ Elem(1) = GenesisBlock
  BY <1>1, TipStored DEF StoredInv
<1>3. hdr.len \in {Stored, Stored + 1} /\ hdr.len \in Nat \ {0}
  BY <1>2 DEF Stored, TypeInv, Memory
<1>4. IsSeq(Chain) /\ Len(Chain) = hdr.len
  BY <1>3, FcnIsSeq DEF Chain
<1>5. \A n \in 2..Stored : Follows(Elem(n), n - 1, Elem(n - 1))
  BY <1>1 DEF StoredInv
<1>6. \A n \in 1..Stored : Chain[n] = Elem(n)
  BY <1>2, <1>3 DEF Chain, Slot, Elem
<1>7. \A n \in 1..Stored : Elem(n) # Nil
  <2>1. \A n \in 2..Stored : Elem(n) # Nil
    BY <1>5 DEF Follows
  <2>2. GenesisBlock # Nil
    BY DEF GenesisBlock, Nil
  <2> QED BY <2>1, <2>2, <1>2
<1>8. hdr.len # Stored => Chain[hdr.len] = Nil
  BY <1>1, <1>2, <1>3 DEF StoredInv, Chain, Slot, Elem
<1>9. InFlight = {} => hdr.len = Stored
  BY DEF InFlight, Finished, Stored
<1> QED BY <1>2, <1>3, <1>4, <1>5, <1>6, <1>7, <1>8, <1>9

LEMMA PrefixSeq ==
  ASSUME NEW S, NEW s, NEW n \in Nat, \A i \in 1..n : s[i] \in S
  PROVE  /\ SubSeq(s, 1, n) \in Seq(S) /\ Len(SubSeq(s, 1, n)) = n
         /\ \A i \in 1..n : SubSeq(s, 1, n)[i] = s[i]
<1> DEFINE p == SubSeq(s, 1, n)
<1>1. /\ p \in Seq(S) /\ Len(p) = IF 1 <= n THEN n - 1 + 1 ELSE 0
      /\ \A i \in 1..(n - 1 + 1) : p[i] = s[1 + i - 1]
  BY SubSeqProperties
<1> HIDE DEF p
<1>2. ASSUME NEW i \in 1..n PROVE p[i] = s[i]
  <2>1. i \in 1..(n - 1 + 1) /\ 1 + i - 1 = i
    OBVIOUS
  <2> QED BY <1>1, <2>1
<1>3. p \in Seq(S) /\ Len(p) = n
  BY <1>1
<1> QED BY <1>2, <1>3 DEF p

LEMMA LinkedPrefix ==
  ASSUME TypeInv, SoloInv, overlapped = {}, NEW s, IsSeq(s), Len(s) <= Stored,
         \A n \in 1..Len(s) : s[n] = Elem(n)
  PROVE  Linked(s) /\ IsPrefix(s, Chain)
<1> USE ChainStored
<1>1. Len(s) \in Nat /\ DOMAIN s = 1..Len(s)
  BY SeqLen
<1>2. ASSUME NEW n \in 2..Len(s)
      PROVE  s[n] # Nil /\ s[n].prev = s[n - 1] /\ s[n].index = n - 1
  <2>1. n \in 2..Stored /\ n \in 1..Len(s) /\ n - 1 \in 1..Len(s)
    BY <1>1
  <2>2. s[n] = Elem(n) /\ s[n - 1] = Elem(n - 1)
    BY <2>1
  <2>3. Follows(Elem(n), n - 1, Elem(n - 1))
    BY <2>1
  <2> QED BY <2>2, <2>3 DEF Follows
<1>3. Len(s) <= Len(Chain)
  BY <1>1
<1>4. SubSeq(s, 1, Len(s)) = SubSeq(Chain, 1, Len(s))
  <2> DEFINE S == {Elem(n) : n \in 1..Len(s)}
             p == SubSeq(s, 1, Len(s))
             q == SubSeq(Chain, 1, Len(s))
  <2>1. \A n \in 1..Len(s) : s[n] \in S /\ Chain[n] \in S /\ s[n] = Chain[n]
    BY <1>1
  <2> HIDE DEF S
  <2>2. p \in Seq(S) /\ Len(p) = Len(s) /\ \A n \in 1..Len(s) : p[n] = s[n]
    BY <2>1, <1>1, PrefixSeq
  <2>3. q \in Seq(S) /\ Len(q) = Len(s) /\ \A n \in 1..Len(s) : q[n] = Chain[n]
    BY <2>1, <1>1, PrefixSeq
  <2> HIDE DEF p, q
  <2>4. p = q
    BY <2>1, <2>2, <2>3, SeqEqual
  <2> QED BY <2>4 DEF p, q
<1> QED BY <1>2, <1>3, <1>4 DEF Linked, IsPrefix

(***************************************************************************)
(* Requests that follow one another, however many, leave a linked chain,   *)
(* an exact index, coinbases of their own and the right answers.           *)
(***************************************************************************)
THEOREM NoOverlapNoDamageCorrect == Spec => []NoOverlapNoDamage
<1>1. TypeInv /\ SoloInv => NoOverlapNoDamage
  <2> SUFFICES ASSUME TypeInv, SoloInv, overlapped = {}, Settled
               PROVE  /\ Linked(Chain)
                      /\ \A b \in indexed : b.index < hdr.len /\ Chain[b.index + 1] = b
                      /\ \A i, j \in 1..hdr.len : Chain[i].coinbase = Chain[j].coinbase => i = j
                      /\ \A r \in Req : /\ pc[r] # "panicked"
                                        /\ pc[r] = "done" => local[r].response = local[r].block
    BY DEF NoOverlapNoDamage
  <2>1. StoredInv /\ \A r \in Req : RequestInv(r)
    BY DEF SoloInv
  <2>2. Stored = hdr.len
    BY DEF Stored, Settled, InFlight, Finished
  <2>3. /\ hdr.len \in Nat \ {0} /\ Len(mem[hdr.arr]) \in Nat /\ hdr.len <= Len(mem[hdr.arr])
        /\ DOMAIN mem[hdr.arr] = 1..Len(mem[hdr.arr]) /\ Elem(1) = GenesisBlock
    BY <2>1, <2>2, TipStored DEF StoredInv
  <2>4. \A n \in 1..hdr.len : Chain[n] = Elem(n)
    BY <2>3 DEF Chain, Slot, Elem
  <2>5. \A n \in 2..hdr.len : Follows(Elem(n), n - 1, Elem(n - 1))
    BY <2>1, <2>2 DEF StoredInv
  <2>6. Linked(Chain)
    <3>1. IsSeq(Chain) /\ Len(Chain) = hdr.len
      BY <2>3, FcnIsSeq DEF Chain
    <3>2. ASSUME NEW n \in 2..hdr.len
          PROVE  Chain[n] # Nil /\ Chain[n].prev = Chain[n - 1] /\ Chain[n].index = n - 1
      <4>1. n \in 1..hdr.len /\ n - 1 \in 1..hdr.len
        BY <2>3
      <4>2. Chain[n] = Elem(n) /\ Chain[n - 1] = Elem(n - 1)
        BY <2>4, <4>1
      <4> QED BY <4>2, <2>5 DEF Follows
    <3> QED BY <3>1, <3>2 DEF Linked
  <2>7. \A b \in indexed : b.index < hdr.len /\ Chain[b.index + 1] = b
    BY <2>1, <2>2, <2>3, <2>4 DEF StoredInv
  <2>8. ASSUME NEW i \in 1..hdr.len, NEW j \in 1..hdr.len,
               Chain[i].coinbase = Chain[j].coinbase
        PROVE  i = j
    <3>1. \A n \in 2..hdr.len : Chain[n].coinbase = [index |-> n - 1, prev |-> Elem(n - 1)]
      BY <2>3, <2>4, <2>5 DEF Follows
    <3>2. Chain[1].coinbase = NoBlock
      BY <2>3, <2>4 DEF GenesisBlock
    <3>3. \A n \in 2..hdr.len : Chain[n].coinbase # NoBlock /\ Chain[n].coinbase.index = n - 1
      <4> SUFFICES ASSUME NEW n \in 2..hdr.len
                   PROVE  Chain[n].coinbase # NoBlock /\ Chain[n].coinbase.index = n - 1
        OBVIOUS
      <4>1. Chain[n].coinbase = [index |-> n - 1, prev |-> Elem(n - 1)]
        BY <3>1
      <4>2. [index |-> n - 1, prev |-> Elem(n - 1)] # NoBlock
        BY DEF NoBlock
      <4> QED BY <4>1, <4>2
    <3> QED BY <2>8, <3>2, <3>3
  <2> QED BY <2>1, <2>6, <2>7, <2>8 DEF RequestInv
<1> QED BY <1>1, SoloCorrect, PTL

(* The prefix of the chain LongestChain is about. *)
CommittedIsStored ==
  /\ IsSeq(Committed) /\ Len(Committed) = Stored /\ Linked(Committed)
  /\ \A n \in 1..Stored : Committed[n] = Elem(n)

LEMMA CommittedStored == TypeInv /\ SoloInv /\ overlapped = {} => CommittedIsStored
<1> SUFFICES ASSUME TypeInv, SoloInv, overlapped = {} PROVE CommittedIsStored
  OBVIOUS
<1> USE ChainStored
<1> DEFINE stored == {n \in 1..hdr.len : \A i \in 1..n : Chain[i] # Nil}
<1>1. stored = 1..Stored
  <2>1. \A n \in 1..Stored : n \in stored
    OBVIOUS
  <2>2. ASSUME NEW n \in stored PROVE n \in 1..Stored
    <3>1. n = hdr.len => Chain[hdr.len] # Nil
      OBVIOUS
    <3> QED BY <3>1
  <2> QED BY <2>1, <2>2
<1>2. Max(1..Stored) = Stored
  BY DEF Max
<1>3. Committed = SubSeq(Chain, 1, Stored)
  BY <1>1, <1>2 DEF Committed
<1> DEFINE S == {Elem(n) : n \in 1..Stored}
<1>4. /\ Committed \in Seq(S) /\ Len(Committed) = Stored
      /\ \A n \in 1..Stored : Committed[n] = Chain[n]
  <2>1. \A n \in 1..Stored : Chain[n] \in S
    OBVIOUS
  <2> HIDE DEF S
  <2> QED BY <1>3, <2>1, PrefixSeq
<1>5. DOMAIN Committed = 1..Stored /\ Committed = [n \in 1..Stored |-> Committed[n]]
  BY <1>4, LenProperties
<1>6. IsSeq(Committed) /\ \A n \in 1..Stored : Committed[n] = Elem(n)
  BY <1>4, <1>5, FcnIsSeq
<1>7. Linked(Committed)
  BY <1>4, <1>6, LinkedPrefix
<1> QED BY <1>4, <1>6, <1>7 DEF CommittedIsStored

LEMMA CommittedNext == (TypeInv /\ SoloInv /\ overlapped = {} => CommittedIsStored)'
  BY CommittedStored, PTL

LEMMA SameSeq ==
  ASSUME NEW s, NEW t, IsSeq(s), IsSeq(t), Len(s) = Len(t),
         \A n \in 1..Len(s) : s[n] = t[n]
  PROVE  s = t
<1> DEFINE S == {s[i] : i \in DOMAIN s} \cup {t[i] : i \in DOMAIN t}
<1>1. s \in Seq(S) /\ t \in Seq(S)
  BY SeqMonotonic DEF IsSeq
<1> HIDE DEF S
<1> QED BY <1>1, SeqEqual

(***************************************************************************)
(* Requests that follow one another implement LongestChain step by step,   *)
(* whatever GETs and a shutdown do in between. *)
(***************************************************************************)
THEOREM SoloIsLongestChainCorrect == Spec => SoloIsLongestChain
<1>1. Init => LC!Init
  <2> SUFFICES ASSUME Init PROVE Committed = <<GenesisBlock>>
    BY DEF LC!Init
  <2>1. TypeInv /\ SoloInv /\ overlapped = {} /\ Stored = 1
    BY InitType, InitSolo DEF Init, Stored
  <2>2. IsSeq(Committed) /\ Len(Committed) = 1 /\ Committed[1] = GenesisBlock
    BY <2>1, CommittedStored, ChainStored DEF CommittedIsStored
  <2>3. IsSeq(<<GenesisBlock>>) /\ Len(<<GenesisBlock>>) = 1
    BY OneIsSeq
  <2> QED BY <2>2, <2>3, SameSeq
<1>2. (TypeInv /\ SoloInv) /\ (TypeInv /\ SoloInv)' /\ [Next]_vars =>
        [overlapped' = {} => LC!Advance \/ Committed' = Committed]_vars
  <2> SUFFICES ASSUME TypeInv, SoloInv, TypeInv', SoloInv', [Next]_vars, overlapped' = {}
               PROVE  LC!Advance \/ Committed' = Committed
    OBVIOUS
  <2>1. overlapped = {} /\ Grows
    BY StepSolo
  <2>2. /\ IsSeq(Committed) /\ Len(Committed) = Stored
        /\ \A n \in 1..Stored : Committed[n] = Elem(n)
    BY <2>1, CommittedStored DEF CommittedIsStored
  <2>3. /\ IsSeq(Committed') /\ Len(Committed') = Stored'
        /\ \A n \in 1..Stored' : Committed'[n] = Elem(n)'
        /\ Linked(Committed)'
    BY CommittedNext DEF CommittedIsStored
  <2>4. Stored \in Nat
    BY <2>1, ChainStored
  <2>5. CASE Stored' = Stored
    <3>1. \A n \in 1..Stored : Committed'[n] = Committed[n]
      BY <2>1, <2>2, <2>3, <2>5 DEF Grows
    <3> QED BY <3>1, <2>2, <2>3, <2>5, SameSeq
  <2>6. CASE Stored' = Stored + 1
    <3>1. Linked(Committed')
      BY <2>3 DEF Linked
    <3> QED BY <3>1, <2>2, <2>3, <2>4, <2>6 DEF LC!Advance
  <2> QED BY <2>1, <2>5, <2>6 DEF Grows
<1> QED BY <1>1, <1>2, SoloCorrect, PTL DEF Spec, SoloIsLongestChain
-----------------------------------------------------------------------------
(***************************************************************************)
(* The GETs.  A length or an index that was read stays within the chain; a *)
(* GET that has met no mining so far reads on in a chain at rest; what was *)
(* answered are stored blocks, which later steps leave where they are.     *)
(***************************************************************************)
GetInv ==
  /\ DOMAIN get = {"at", "n", "answer", "alone"}
  /\ overlapped = {} =>
       /\ get.at = "panicked" => ~get.alone
       /\ get.at \in {"list", "stats"} => get.n \in 1..hdr.len
       /\ get.at = "index" => get.n \in 0..(hdr.len - 1)
       /\ get.at \in Reading /\ get.alone =>
            InFlight = {} /\ (get.at = "list" => get.n = hdr.len)
       /\ get.at \in {"listed", "counted"} =>
            /\ IsSeq(get.answer) /\ get.n <= Len(get.answer) /\ Len(get.answer) <= Stored
            /\ get.at = "listed" => Len(get.answer) = get.n
            /\ \A i \in 1..Len(get.answer) : get.answer[i] = Elem(i)
       /\ get.at = "found" /\ get.answer # <<Nil>> =>
            get.n + 1 \in 1..Stored /\ get.answer[1] = Elem(get.n + 1)

LEMMA AnswerGet ==
  ASSUME GetInv, NEW at, NEW blocks, Answer(at, blocks)
  PROVE  get'.at = at /\ get'.answer = blocks /\ get'.n = get.n /\ get'.alone = get.alone
  BY DEF GetInv, Answer

LEMMA HandlerKeepsGet ==
  ASSUME TypeInv, SoloInv, GetInv, NEW r \in Req, Handler(r)
  PROVE  GetInv'
<1>1. /\ DOMAIN get' = {"at", "n", "answer", "alone"}
      /\ overlapped' = {} =>
           /\ get'.at = get.at /\ get'.n = get.n /\ get'.answer = get.answer
           /\ ReadTip(r) => get'.alone = (get.alone /\ get.at \notin Reading)
      /\ ~ReadTip(r) => get' = get /\ r \in InFlight
  <2>1. CASE ReadTip(r)
    <3>1. overlapped' = {} => InFlight = {}
      BY <2>1 DEF ReadTip
    <3>2. CASE InFlight = {}
      BY <2>1, <3>2 DEF ReadTip, GetInv
    <3>3. CASE InFlight # {}
      BY <2>1, <3>1, <3>3 DEF ReadTip, NoGet
    <3> QED BY <3>2, <3>3
  <2>2. CASE ~ReadTip(r)
    BY <2>2 DEF GetInv, Handler, ReadHeight, AddBlock, NewBlock, LoadHeader, StoreArray,
                StoreLength, StoreElement, IndexBegin, IndexEnd, SaveOpen, SaveEncode, Respond, At,
                InFlight, Finished
  <2> QED BY <2>1, <2>2
<1> SUFFICES ASSUME overlapped' = {} PROVE GetInv'
  BY <1>1 DEF GetInv
<1>2. overlapped = {} /\ Grows
  BY StepSolo DEF Next
<1>3. Stored \in Nat \ {0} /\ hdr.len \in Nat
  BY <1>2, ChainStored
<1>4. ~(get'.at \in Reading /\ get'.alone)
  BY <1>1, <1>2 DEF GetInv
<1>5. get'.at = "panicked" => ~get'.alone
  BY <1>1, <1>2 DEF GetInv, Reading
<1>6. /\ get'.at \in {"list", "stats"} => get'.n \in 1..hdr'.len
      /\ get'.at = "index" => get'.n \in 0..(hdr'.len - 1)
  BY <1>1, <1>2, <1>3 DEF GetInv, Grows
<1>7. ASSUME get'.at \in {"listed", "counted"}
      PROVE  /\ IsSeq(get'.answer) /\ get'.n <= Len(get'.answer) /\ Len(get'.answer) <= Stored'
             /\ get'.at = "listed" => Len(get'.answer) = get'.n
             /\ \A i \in 1..Len(get'.answer) : get'.answer[i] = Elem(i)'
  <2>1. /\ IsSeq(get.answer) /\ get.n <= Len(get.answer) /\ Len(get.answer) <= Stored
        /\ get.at = "listed" => Len(get.answer) = get.n
        /\ \A i \in 1..Len(get.answer) : get.answer[i] = Elem(i)
    BY <1>1, <1>2, <1>7 DEF GetInv
  <2>2. Len(get.answer) \in Nat
    BY <2>1, SeqLen
  <2> QED BY <1>1, <1>2, <1>3, <2>1, <2>2 DEF Grows
<1>8. ASSUME get'.at = "found", get'.answer # <<Nil>>
      PROVE  (get.n + 1 \in 1..Stored /\ get.answer[1] = Elem(get.n + 1))'
  <2>1. PICK n : n = get.n + 1
    OBVIOUS
  <2>2. n \in 1..Stored /\ get.answer[1] = Elem(n)
    BY <1>1, <1>2, <1>8, <2>1 DEF GetInv
  <2>3. n \in 1..Stored' /\ Elem(n)' = Elem(n)
    BY <1>2, <1>3, <2>2 DEF Grows
  <2>4. get'.n + 1 = n /\ get'.answer = get.answer
    BY <1>1, <2>1
  <2> QED BY <2>2, <2>3, <2>4 DEF Elem
<1>9. ~(get'.at \in Reading /\ get'.alone) => GetInv'
  BY <1>1, <1>5, <1>6, <1>7, <1>8 DEF GetInv
<1> QED BY <1>4, <1>9

(* What one look at the chain shows: no empty slot when nothing is in      *)
(* flight, and the stored blocks when there is none.                       *)
LEMMA OneLook ==
  ASSUME TypeInv, SoloInv, overlapped = {}
  PROVE  /\ InFlight = {} => ~Hollow
         /\ ~Hollow => hdr.len = Stored
         /\ \A n \in 0..(hdr.len - 1) :
              <<Chain[n + 1]>> # <<Nil>> => n + 1 \in 1..Stored /\ Chain[n + 1] = Elem(n + 1)
<1> USE ChainStored
<1>1. InFlight = {} => ~Hollow
  BY DEF Hollow
<1>2. ~Hollow => hdr.len = Stored
  BY DEF Hollow
<1>3. ASSUME NEW n \in 0..(hdr.len - 1), <<Chain[n + 1]>> # <<Nil>>
      PROVE  n + 1 \in 1..Stored /\ Chain[n + 1] = Elem(n + 1)
  <2>1. n + 1 = hdr.len => hdr.len = Stored
    BY <1>3
  <2> QED BY <2>1
<1> QED BY <1>1, <1>2, <1>3

LEMMA GetKeepsGet ==
  ASSUME TypeInv, SoloInv, GetInv, Get
  PROVE  GetInv'
<1>1. UNCHANGED <<pc, local, mem, hdr, indexed, overlapped>>
  BY OthersStill DEF Still
<1>2. Stored' = Stored /\ InFlight' = InFlight /\ \A n : Elem(n)' = Elem(n)
  BY <1>1 DEF Stored, InFlight, Elem
<1>3. DOMAIN get' = {"at", "n", "answer", "alone"}
  BY DEF GetInv, Get, LookUp, GetByHash, GetByScan, ListBegin, ListFill, StatsBegin,
         StatsFill, ScanChain, IndexChecked, IndexRead, Begin, Answer
<1> SUFFICES ASSUME overlapped = {} PROVE GetInv'
  BY <1>1, <1>3 DEF GetInv
<1>4. /\ Stored \in Nat \ {0} /\ hdr.len \in Nat \ {0} /\ hdr.len \in {Stored, Stored + 1}
      /\ IsSeq(Chain) /\ Len(Chain) = hdr.len
      /\ \A n \in 1..Stored : Chain[n] = Elem(n)
  BY ChainStored
<1>5. /\ InFlight = {} => ~Hollow
      /\ ~Hollow => hdr.len = Stored
      /\ \A n \in 0..(hdr.len - 1) :
           <<Chain[n + 1]>> # <<Nil>> => n + 1 \in 1..Stored /\ Chain[n + 1] = Elem(n + 1)
  BY OneLook
<1>6. CASE get' = get
  BY <1>1, <1>2, <1>6 DEF GetInv, Elem
<1>7. CASE GetByHash
  <2>1. PICK b \in indexed :
          get' = [at |-> IF b.index < hdr.len THEN "found" ELSE "panicked", n |-> b.index,
                  answer |-> IF b.index < hdr.len THEN <<Chain[b.index + 1]>> ELSE <<>>,
                  alone |-> InFlight = {}]
    BY <1>7 DEF GetByHash
  <2>2. b.index \in 0..(Stored - 1)
    BY DEF SoloInv, StoredInv
  <2>3. /\ get'.at = "found" /\ get'.n = b.index /\ get'.answer = <<Chain[b.index + 1]>>
    BY <2>1, <2>2, <1>4
  <2>4. (get.n + 1 \in 1..Stored /\ get.answer[1] = Elem(get.n + 1))'
    <3>1. PICK n : n = b.index + 1
      OBVIOUS
    <3>2. n \in 1..Stored /\ get'.answer[1] = Elem(n)
      BY <2>2, <2>3, <3>1, <1>4
    <3> QED BY <2>3, <3>1, <3>2, <1>2 DEF Elem
  <2> QED BY <2>3, <2>4, <1>3 DEF GetInv, Reading
<1>11. CASE GetByScan
  <2>1. PICK b : \/ \E i \in 1..hdr.len :
                      /\ Meets(b, i)
                      /\ get' = [at |-> IF Chain[i] = Nil THEN "panicked" ELSE "found",
                                 n |-> i - 1, answer |-> <<Chain[i]>>,
                                 alone |-> InFlight = {}]
                 \/ Begin("missing", 0)
    BY <1>11 DEF GetByScan
  <2>2. CASE Begin("missing", 0)
    BY <2>2, <1>3 DEF GetInv, Begin, Reading
  <2>3. ASSUME NEW i \in 1..hdr.len, Chain[i] # Nil,
               get' = [at |-> "found", n |-> i - 1, answer |-> <<Chain[i]>>,
                       alone |-> InFlight = {}]
        PROVE  GetInv'
    <3>1. i \in 1..Stored /\ get'.answer[1] = Elem(i)
      <4>1. PICK n \in 0..(hdr.len - 1) : n + 1 = i
        BY <1>4
      <4>2. <<Chain[n + 1]>> # <<Nil>>
        BY <2>3, <4>1
      <4> QED BY <1>5, <2>3, <4>1, <4>2
    <3>2. get'.n + 1 = i
      BY <2>3, <1>4
    <3>3. (get.n + 1 \in 1..Stored /\ get.answer[1] = Elem(get.n + 1))'
      BY <3>1, <3>2, <1>2 DEF Elem
    <3> QED BY <2>3, <3>3, <1>3 DEF GetInv, Reading
  <2>4. ASSUME NEW i \in 1..hdr.len, Chain[i] = Nil, get'.at = "panicked",
               get'.alone = (InFlight = {})
        PROVE  GetInv'
    <3>1. Hollow
      BY <2>4 DEF Hollow
    <3> QED BY <2>4, <3>1, <1>3, <1>5 DEF GetInv, Reading
  <2> QED BY <2>1, <2>2, <2>3, <2>4
<1>8. CASE ListBegin \/ StatsBegin \/ IndexChecked
  <2>1. /\ get'.at \in Reading /\ get'.alone = (InFlight = {})
        /\ get'.at \in {"list", "stats"} => get'.n = hdr.len
        /\ get'.at = "index" => get'.n \in 0..(hdr.len - 1)
    BY <1>8 DEF ListBegin, StatsBegin, IndexChecked, Begin, Reading
  <2>2. InFlight' = {} /\ get'.at = "list" => get'.n = hdr'.len
    BY <2>1, <1>1
  <2>3. get'.at \in Reading /\ get'.alone => InFlight' = {}
    BY <2>1, <1>2
  <2>4. /\ get'.at \in {"list", "stats"} => get'.n \in 1..hdr'.len
        /\ get'.at = "index" => get'.n \in 0..(hdr'.len - 1)
    BY <2>1, <1>1, <1>4
  <2>5. get'.at \notin {"panicked", "listed", "counted", "found"}
    BY <2>1 DEF Reading
  <2> QED BY <2>2, <2>3, <2>4, <2>5, <1>3 DEF GetInv
<1>9. CASE ListFill \/ StatsFill \/ ScanChain
  <2>1. \/ /\ get'.at = "panicked" /\ (get'.alone => get.alone \/ ScanChain)
           /\ get'.alone = IF ScanChain THEN InFlight = {} ELSE get.alone
           /\ Hollow \/ (ListFill /\ hdr.len > get.n)
        \/ /\ get'.at \in {"listed", "counted"} /\ ~Hollow /\ get'.answer = Chain
           /\ get'.n = IF ScanChain THEN hdr.len ELSE get.n
           /\ get'.at = "listed" => ListFill /\ ~(hdr.len > get.n)
    <3>1. CASE ListFill
      BY <3>1 DEF ListFill, Answer, GetInv, ScanChain, Ask
    <3>2. CASE StatsFill
      BY <3>2 DEF StatsFill, Answer, GetInv, ScanChain, Ask
    <3>3. CASE ScanChain
      BY <3>3 DEF ScanChain
    <3> QED BY <3>1, <3>2, <3>3, <1>9
  <2>2. ~ScanChain => get.at \in {"list", "stats"} /\ get.n \in 1..hdr.len
    BY <1>9 DEF ListFill, StatsFill, GetInv
  <2>3. CASE get'.at = "panicked"
    <3>1. /\ get'.alone = IF ScanChain THEN InFlight = {} ELSE get.alone
          /\ Hollow \/ (ListFill /\ hdr.len > get.n)
      BY <2>1, <2>3
    <3>2. ~ScanChain /\ get.alone => InFlight = {} /\ (get.at = "list" => get.n = hdr.len)
      BY <2>2 DEF GetInv, Reading
    <3>3. ListFill => get.at = "list" /\ ~ScanChain
      BY DEF ListFill, ScanChain, Ask
    <3>4. ~get'.alone
      <4>1. CASE ScanChain
        BY <4>1, <3>1, <3>3, <1>5
      <4>2. CASE ~ScanChain /\ get.alone
        <5>1. InFlight = {} /\ ~Hollow
          BY <4>2, <3>2, <1>5
        <5>2. ListFill /\ hdr.len > get.n /\ get.n = hdr.len
          BY <4>2, <5>1, <3>1, <3>2, <3>3
        <5> QED BY <5>2, <1>4
      <4>3. CASE ~ScanChain /\ ~get.alone
        BY <4>3, <3>1
      <4> QED BY <4>1, <4>2, <4>3
    <3> QED BY <3>4, <2>3, <1>3 DEF GetInv, Reading
  <2>4. CASE get'.at # "panicked"
    <3>1. /\ get'.at \in {"listed", "counted"} /\ get'.answer = Chain /\ hdr.len = Stored
          /\ get'.n = IF ScanChain THEN hdr.len ELSE get.n
          /\ get'.at = "listed" => ListFill /\ ~(hdr.len > get.n)
      BY <2>1, <2>4, <1>5
    <3>2. get'.n <= Len(get'.answer) /\ (get'.at = "listed" => Len(get'.answer) = get'.n)
      BY <3>1, <2>2, <1>4 DEF ListFill, ScanChain, Ask
    <3> QED BY <3>1, <3>2, <1>1, <1>2, <1>3, <1>4 DEF GetInv, Reading
  <2> QED BY <2>3, <2>4
<1>10. CASE IndexRead
  <2>1. get.at = "index" /\ get.n \in 0..(hdr.len - 1)
    BY <1>10 DEF IndexRead, GetInv
  <2>2. get'.at = "found" /\ get'.n = get.n /\ get'.answer = <<Chain[get.n + 1]>>
    <3>1. get.n < hdr.len
      BY <2>1, <1>4
    <3> QED BY <1>10, <3>1, AnswerGet DEF IndexRead
  <2>3. get'.answer # <<Nil>> => get.n + 1 \in 1..Stored /\ get'.answer[1] = Elem(get.n + 1)
    BY <2>1, <2>2, <1>5
  <2>4. (get.at = "found" /\ get.answer # <<Nil>> =>
           get.n + 1 \in 1..Stored /\ get.answer[1] = Elem(get.n + 1))'
    <3>1. PICK n : n = get.n + 1
      OBVIOUS
    <3> QED BY <3>1, <2>2, <2>3, <1>2 DEF Elem
  <2> QED BY <2>2, <2>4, <1>3 DEF GetInv, Reading
<1> QED BY <1>6, <1>7, <1>8, <1>9, <1>10, <1>11 DEF Get, LookUp

(***************************************************************************)
(* A GET that meets no mining sees the whole chain; one that does, at      *)
(* whatever step of an append, answers with linked blocks of it.           *)
(***************************************************************************)
THEOREM ReadsAreSoundCorrect == Spec => []ReadsAreSound
<1>1. Init => GetInv
  BY DEF Init, NoGet, GetInv, Reading
<1>2. TypeInv /\ SoloInv /\ GetInv /\ [Next]_vars => GetInv'
  <2> SUFFICES ASSUME TypeInv, SoloInv, GetInv, [Next]_vars PROVE GetInv'
    OBVIOUS
  <2>1. CASE Shutdown \/ UNCHANGED vars
    <3>1. Still /\ get' = get
      BY <2>1, OthersStill DEF Shutdown, Signal, ShutdownOpen, ShutdownEncode, Exit, vars
    <3>2. Stored' = Stored /\ InFlight' = InFlight /\ \A n : Elem(n)' = Elem(n)
      BY <3>1 DEF Still, Stored, InFlight, Elem
    <3> QED BY <3>1, <3>2 DEF Still, GetInv
  <2> QED BY <2>1, GetKeepsGet, HandlerKeepsGet DEF Next
<1>3. TypeInv /\ SoloInv /\ GetInv => ReadsAreSound
  <2> SUFFICES ASSUME TypeInv, SoloInv, GetInv, overlapped = {}
               PROVE  /\ get.at = "panicked" => ~get.alone
                      /\ get.at \in {"listed", "counted"} =>
                           /\ Linked(get.answer) /\ IsPrefix(get.answer, Chain)
                           /\ Len(get.answer) >= get.n
                           /\ get.at = "listed" => Len(get.answer) = get.n
                      /\ get.at = "found" /\ get.answer # <<Nil>> =>
                           get.answer[1] = Chain[get.n + 1]
    BY DEF ReadsAreSound
  <2>1. ASSUME get.at \in {"listed", "counted"}
        PROVE  /\ Linked(get.answer) /\ IsPrefix(get.answer, Chain)
               /\ get.n <= Len(get.answer) /\ Len(get.answer) >= get.n
               /\ get.at = "listed" => Len(get.answer) = get.n
    <3>1. /\ IsSeq(get.answer) /\ get.n <= Len(get.answer) /\ Len(get.answer) <= Stored
          /\ get.at = "listed" => Len(get.answer) = get.n
          /\ \A i \in 1..Len(get.answer) : get.answer[i] = Elem(i)
      BY <2>1 DEF GetInv
    <3> QED BY <3>1, LinkedPrefix
  <2>2. get.at = "found" /\ get.answer # <<Nil>> => get.answer[1] = Chain[get.n + 1]
    BY ChainStored DEF GetInv
  <2> QED BY <2>1, <2>2 DEF GetInv
<1> QED BY <1>1, <1>2, <1>3, SoloCorrect, PTL DEF Spec
-----------------------------------------------------------------------------
(***************************************************************************)
(* Overlapping requests.  What holds of a block once it counts as added,   *)
(* with whatever requests in flight: it stands at a position p of the      *)
(* array of the slice and of every array an append is about to install,    *)
(* and all that an append has still to store, a length or an element, lies *)
(* beyond p.  It comes to hold only for a request that is alone while it   *)
(* stores its element: then the header is still the one it has read.       *)
(***************************************************************************)
Holds(arrays, a, p, b) == p \in DOMAIN arrays[a] /\ arrays[a][p] = b

Kept(b, p) ==
  /\ p <= hdr.len /\ Holds(mem, hdr.arr, p, b)
  /\ \A s \in Req : pc[s] \in Appending => p < local[s].len
  /\ \A s \in Req : pc[s] = "array" => Holds(mem, local[s].array, p, b)

FreshAppend(r) ==
  pc[r] \in Appending =>
    /\ local[r].len = IF pc[r] = "element" THEN hdr.len ELSE hdr.len + 1
    /\ local[r].len \in DOMAIN mem[local[r].array]
    /\ pc[r] # "array" => local[r].array = hdr.arr

StayInv ==
  \A r \in Req \ overlapped :
    /\ \A s \in InFlight : r \in InFlight => s = r
    /\ FreshAppend(r)
    /\ pc[r] \in Added \cup {"done"} => \E p \in 1..hdr.len : Kept(local[r].block, p)

(* What a handler leaves to the others, and what only some steps write.    *)
LEMMA HandlerLeaves ==
  ASSUME TypeInv, NEW r \in Req, Handler(r)
  PROVE  /\ \A s \in Req \ {r} : pc'[s] = pc[s] /\ local'[s] = local[s]
         /\ overlapped \subseteq overlapped'
         /\ ~ReadTip(r) => overlapped' = overlapped /\ r \in InFlight
         /\ pc[r] # "difficulty" => local'[r].block = local[r].block
         /\ pc[r] # "append" => local'[r].array = local[r].array /\ local'[r].len = local[r].len
<1>1. ~ReadTip(r) => overlapped' = overlapped /\ r \in InFlight
  BY DEF Handler, ReadHeight, AddBlock, NewBlock, LoadHeader, StoreArray, StoreLength,
         StoreElement, IndexBegin, IndexEnd, SaveOpen, SaveEncode, Respond, At, InFlight,
         Finished
<1>2. overlapped \subseteq overlapped'
  BY <1>1 DEF ReadTip
<1>3. /\ \A s \in Req \ {r} : pc'[s] = pc[s] /\ local'[s] = local[s]
      /\ pc[r] # "difficulty" => local'[r].block = local[r].block
      /\ pc[r] # "append" => local'[r].array = local[r].array /\ local'[r].len = local[r].len
  <2>1. CASE ReadTip(r) \/ ReadHeight(r) \/ AddBlock(r) \/ NewBlock(r) \/ Respond(r)
    BY <2>1 DEF ReadTip, ReadHeight, AddBlock, NewBlock, Respond, Keep, Go, At, TypeInv,
                TypeOK, Locals, Fields
  <2>2. CASE LoadHeader(r)
    BY <2>2 DEF LoadHeader, Go, At, TypeInv, TypeOK, Locals, Fields
  <2>3. CASE \/ StoreArray(r) \/ StoreLength(r) \/ StoreElement(r) \/ IndexBegin(r)
             \/ IndexEnd(r) \/ SaveOpen(r) \/ SaveEncode(r)
    BY <2>3 DEF StoreArray, StoreLength, StoreElement, IndexBegin, IndexEnd, SaveOpen,
                SaveEncode, Go, TypeInv, TypeOK
  <2> QED BY <2>1, <2>2, <2>3 DEF Handler
<1> QED BY <1>1, <1>2, <1>3

(* The steps that touch neither the slice nor an append in hand.           *)
Around(r) ==
  ReadTip(r) \/ ReadHeight(r) \/ AddBlock(r) \/ NewBlock(r) \/ IndexBegin(r) \/ IndexEnd(r)
  \/ SaveOpen(r) \/ SaveEncode(r) \/ Respond(r)

LEMMA AroundLeaves ==
  ASSUME TypeInv, NEW r \in Req, Around(r)
  PROVE  /\ UNCHANGED <<mem, hdr>> /\ pc[r] \notin Appending /\ pc'[r] \notin Appending
         /\ pc'[r] \in Added \cup {"done"} => pc[r] \in Added
<1>1. UNCHANGED <<mem, hdr>>
  BY DEF Around, ReadTip, ReadHeight, AddBlock, NewBlock, IndexBegin, IndexEnd, SaveOpen,
         SaveEncode, Respond
<1>2. CASE ReadTip(r) \/ ReadHeight(r) \/ AddBlock(r) \/ NewBlock(r) \/ Respond(r)
  BY <1>2 DEF ReadTip, ReadHeight, AddBlock, NewBlock, Respond, At, Go, Appending, Added,
              TypeInv, TypeOK
<1>3. CASE IndexBegin(r) \/ IndexEnd(r) \/ SaveOpen(r) \/ SaveEncode(r)
  BY <1>3 DEF IndexBegin, IndexEnd, SaveOpen, SaveEncode, At, Go, Appending, Added, TypeInv,
              TypeOK
<1> QED BY <1>1, <1>2, <1>3 DEF Around

(* No step of any request moves or overwrites a kept block.                *)
LEMMA KeptStays ==
  ASSUME TypeInv, NEW b, NEW p \in Nat, Kept(b, p), NEW r \in Req, Handler(r)
  PROVE  Kept(b, p)'
<1>1. \A s \in Req \ {r} : pc'[s] = pc[s] /\ local'[s] = local[s]
  BY HandlerLeaves
<1>2. /\ hdr.arr \in DOMAIN mem /\ hdr.len \in Nat \ {0} /\ IsSeq(mem)
      /\ DOMAIN hdr = {"arr", "len"}
      /\ \A a \in DOMAIN mem : IsSeq(mem[a])
      /\ \A s \in Req : pc[s] \in Appending => Appends(s)
  BY DEF TypeInv, Memory
<1>3. CASE Around(r)
  <2>1. /\ UNCHANGED <<mem, hdr>> /\ pc'[r] \notin Appending /\ pc'[r] # "array"
    BY <1>3, AroundLeaves DEF Appending
  <2> QED BY <1>1, <2>1 DEF Kept, Holds
<1>4. CASE LoadHeader(r)
  <2> DEFINE full == hdr.len >= Len(mem[hdr.arr])
             copy == [n \in 1..(2 * hdr.len) |-> IF n <= hdr.len THEN Slot(hdr.arr, n) ELSE Nil]
  <2>1. /\ pc'[r] = IF full THEN "array" ELSE "length"
        /\ mem' = IF full THEN Append(mem, copy) ELSE mem
        /\ local'[r].array = IF full THEN Len(mem) + 1 ELSE hdr.arr
        /\ local'[r].len = hdr.len + 1
        /\ hdr' = hdr
    BY <1>4 DEF LoadHeader, Go, TypeInv, TypeOK, Locals, Fields
  <2>2. /\ p \in 1..(2 * hdr.len) /\ copy[p] = b
    <3>1. Holds(mem, hdr.arr, p, b) /\ p <= hdr.len
      BY DEF Kept
    <3>2. 1 <= p
      BY <3>1, <1>2, SeqLen DEF Holds
    <3> QED BY <3>1, <3>2, <1>2 DEF Holds, Slot
  <2>3. /\ \A a \in DOMAIN mem : a \in DOMAIN mem' /\ mem'[a] = mem[a]
        /\ full => Holds(mem', Len(mem) + 1, p, b)
    <3>1. DOMAIN copy = 1..(2 * hdr.len)
      OBVIOUS
    <3> HIDE DEF copy
    <3>2. CASE full
      <4>1. /\ \A a \in 1..Len(mem) : mem'[a] = mem[a]
            /\ mem'[Len(mem) + 1] = copy /\ DOMAIN mem = 1..Len(mem) /\ Len(mem) \in Nat
            /\ IsSeq(mem') /\ Len(mem') = Len(mem) + 1
        BY <3>2, <2>1, <1>2, AppendIsSeq, SeqLen
      <4>2. DOMAIN mem' = 1..(Len(mem) + 1)
        BY <4>1, SeqLen
      <4> QED BY <4>1, <4>2, <3>1, <2>2 DEF Holds
    <3>3. CASE ~full
      BY <3>3, <2>1
    <3> QED BY <3>2, <3>3
  <2>4. \A a \in DOMAIN mem : Holds(mem, a, p, b) => Holds(mem', a, p, b)
    BY <2>3 DEF Holds
  <2>5. p <= hdr'.len /\ Holds(mem', hdr'.arr, p, b)
    <3>1. Holds(mem', hdr.arr, p, b)
      BY <2>4, <1>2 DEF Kept
    <3> QED BY <3>1, <2>1 DEF Kept, Holds
  <2>6. ASSUME NEW s \in Req, pc'[s] \in Appending PROVE p < local'[s].len
    <3>1. CASE s = r
      BY <3>1, <2>1, <1>2 DEF Kept
    <3>2. CASE s # r
      BY <3>2, <2>6, <1>1 DEF Kept
    <3> QED BY <3>1, <3>2
  <2>7. ASSUME NEW s \in Req, pc'[s] = "array" PROVE Holds(mem', local'[s].array, p, b)
    <3>1. CASE s = r
      BY <3>1, <2>1, <2>3, <2>7 DEF Holds
    <3>2. CASE s # r
      <4>1. pc[s] = "array" /\ local'[s] = local[s] /\ local[s].array \in DOMAIN mem
        BY <3>2, <2>7, <1>1, <1>2 DEF Appending, Appends
      <4>2. Holds(mem, local[s].array, p, b)
        BY <4>1 DEF Kept
      <4> QED BY <4>1, <4>2, <2>3 DEF Holds
    <3> QED BY <3>1, <3>2
  <2> QED BY <2>5, <2>6, <2>7 DEF Kept
<1>5. CASE StoreArray(r) \/ StoreLength(r)
  <2>1. /\ UNCHANGED <<local, mem>> /\ pc[r] \in {"array", "length"} /\ pc'[r] # "array"
        /\ hdr'.arr = IF pc[r] = "array" THEN local[r].array ELSE hdr.arr
        /\ hdr'.len = IF pc[r] = "array" THEN hdr.len ELSE local[r].len
    <3>1. CASE StoreArray(r)
      BY <3>1, <1>2 DEF StoreArray, At, Go, TypeInv, TypeOK
    <3>2. CASE StoreLength(r)
      BY <3>2, <1>2 DEF StoreLength, At, Go, TypeInv, TypeOK
    <3> QED BY <3>1, <3>2, <1>5
  <2>2. pc[r] \in Appending /\ Appends(r)
    BY <2>1, <1>2 DEF Appending
  <2>3. p <= hdr'.len
    BY <2>1, <2>2, <1>2 DEF Kept, Appends
  <2>4. Holds(mem', hdr'.arr, p, b)
    BY <2>1 DEF Kept, Holds
  <2>5. \A s \in Req : pc'[s] \in Appending => pc[s] \in Appending
    BY <1>1, <2>2
  <2>6. \A s \in Req : pc'[s] = "array" => pc[s] = "array"
    BY <1>1, <2>1
  <2> QED BY <2>1, <2>3, <2>4, <2>5, <2>6 DEF Kept, Holds
<1>6. CASE StoreElement(r)
  <2> DEFINE arr == local[r].array
             new == [mem[arr] EXCEPT ![local[r].len] = local[r].block]
  <2>1. /\ UNCHANGED <<local, hdr>> /\ pc[r] \in Appending /\ pc'[r] \notin Appending
        /\ mem' = [mem EXCEPT ![arr] = new]
    BY <1>6 DEF StoreElement, At, Go, Appending, TypeInv, TypeOK
  <2>2. p # local[r].len
    BY <2>1, <1>2 DEF Kept, Appends
  <2>3. \A a \in DOMAIN mem : Holds(mem, a, p, b) => Holds(mem', a, p, b)
    <3> SUFFICES ASSUME NEW a \in DOMAIN mem, Holds(mem, a, p, b)
                 PROVE  p \in DOMAIN mem'[a] /\ mem'[a][p] = b
      BY DEF Holds
    <3>1. DOMAIN new = DOMAIN mem[arr] /\ (p \in DOMAIN mem[arr] => new[p] = mem[arr][p])
      BY <2>2
    <3>2. mem'[a] = IF a = arr THEN new ELSE mem[a]
      BY <2>1
    <3> HIDE DEF new
    <3> QED BY <3>1, <3>2 DEF Holds
  <2>4. \A s \in Req : pc'[s] \in Appending => pc[s] \in Appending
    BY <1>1, <2>1
  <2>5. \A s \in Req : pc'[s] = "array" => pc[s] = "array" /\ local[s].array \in DOMAIN mem
    BY <1>1, <1>2, <2>1 DEF Appending, Appends
  <2>6. Holds(mem', hdr.arr, p, b)
    BY <2>3, <1>2 DEF Kept
  <2>7. ASSUME NEW s \in Req, pc'[s] = "array" PROVE Holds(mem', local'[s].array, p, b)
    <3>1. Holds(mem, local[s].array, p, b) /\ local[s].array \in DOMAIN mem
      BY <2>5, <2>7 DEF Kept
    <3>2. p \in DOMAIN mem'[local[s].array] /\ mem'[local[s].array][p] = b
      BY <3>1, <2>3 DEF Holds
    <3> QED BY <3>2, <2>1 DEF Holds
  <2> QED BY <2>1, <2>4, <2>6, <2>7 DEF Kept, Holds
<1> QED BY <1>3, <1>4, <1>5, <1>6 DEF Around, Handler

(* A request that shares no time with another takes its steps alone.       *)
LEMMA SoloAlone ==
  ASSUME TypeInv, StayInv, NEW s \in Req, Handler(s), NEW r \in Req \ overlapped',
         r \in InFlight \/ r \in InFlight'
  PROVE  /\ r \notin overlapped /\ s = r
         /\ \A t \in Req \ {r} : t \notin InFlight /\ t \notin InFlight'
<1>1. r \notin overlapped /\ \A t \in Req \ {s} : pc'[t] = pc[t]
  BY HandlerLeaves
<1>2. \A t \in Req \ {s} : t \in InFlight <=> t \in InFlight'
  BY <1>1 DEF InFlight
<1>3. CASE ReadTip(s)
  BY <1>1, <1>2, <1>3 DEF ReadTip
<1>4. CASE ~ReadTip(s)
  BY <1>1, <1>2, <1>4, HandlerLeaves DEF StayInv
<1> QED BY <1>3, <1>4

(* The append of such a request starts from the header as it is, and finds *)
(* it so at each of its stores.                                            *)
LEMMA FreshStays ==
  ASSUME TypeInv, StayInv, NEW r \in Req \ overlapped, FreshAppend(r), Handler(r)
  PROVE  FreshAppend(r)'
<1>1. /\ hdr.arr \in DOMAIN mem /\ hdr.len \in Nat \ {0} /\ IsSeq(mem)
      /\ DOMAIN hdr = {"arr", "len"} /\ IsSeq(mem[hdr.arr])
  BY DEF TypeInv, Memory
<1>2. CASE Around(r)
  BY <1>2, AroundLeaves DEF FreshAppend
<1>3. CASE LoadHeader(r)
  <2> DEFINE full == hdr.len >= Len(mem[hdr.arr])
             copy == [n \in 1..(2 * hdr.len) |-> IF n <= hdr.len THEN Slot(hdr.arr, n) ELSE Nil]
  <2>1. /\ pc'[r] = IF full THEN "array" ELSE "length"
        /\ mem' = IF full THEN Append(mem, copy) ELSE mem
        /\ local'[r].array = IF full THEN Len(mem) + 1 ELSE hdr.arr
        /\ local'[r].len = hdr.len + 1
        /\ hdr' = hdr
    BY <1>3 DEF LoadHeader, Go, TypeInv, TypeOK, Locals, Fields
  <2>2. local'[r].len \in DOMAIN mem'[local'[r].array]
    <3>1. CASE full
      <4>1. hdr.len + 1 \in DOMAIN copy
        BY <1>1
      <4> HIDE DEF copy
      <4>2. mem'[Len(mem) + 1] = copy
        BY <3>1, <2>1, <1>1, AppendIsSeq
      <4> QED BY <3>1, <4>1, <4>2, <2>1
    <3>2. CASE ~full
      BY <3>2, <2>1, <1>1, SeqLen
    <3> QED BY <3>1, <3>2
  <2> HIDE DEF copy
  <2> QED BY <2>1, <2>2 DEF FreshAppend
<1>4. CASE StoreArray(r)
  BY <1>1, <1>4 DEF StoreArray, At, Go, FreshAppend, Appending, TypeInv, TypeOK
<1>5. CASE StoreLength(r)
  BY <1>1, <1>5 DEF StoreLength, At, Go, FreshAppend, Appending, TypeInv, TypeOK
<1>6. CASE StoreElement(r)
  BY <1>6 DEF StoreElement, Go, FreshAppend, Appending, TypeInv, TypeOK
<1> QED BY <1>2, <1>3, <1>4, <1>5, <1>6 DEF Around, Handler

(* The element it stores is a kept block from then on.                     *)
LEMMA StoredIsKept ==
  ASSUME TypeInv, NEW r \in Req, FreshAppend(r), StoreElement(r),
         \A t \in Req \ {r} : t \notin InFlight'
  PROVE  \E p \in 1..hdr'.len : Kept(local[r].block, p)'
<1>1. /\ pc[r] = "element" /\ pc'[r] = "index" /\ UNCHANGED <<local, hdr>>
      /\ mem' = [mem EXCEPT ![local[r].array][local[r].len] = local[r].block]
  BY DEF StoreElement, At, Go, TypeInv, TypeOK
<1>2. /\ local[r].array = hdr.arr /\ local[r].len = hdr.len /\ hdr.len \in DOMAIN mem[hdr.arr]
  BY <1>1 DEF FreshAppend, Appending
<1>3. hdr.arr \in DOMAIN mem /\ hdr.len \in Nat \ {0}
  BY DEF TypeInv, Memory
<1>4. Holds(mem', hdr.arr, hdr.len, local[r].block)
  BY <1>1, <1>2, <1>3 DEF Holds
<1>5. \A t \in Req : pc'[t] \notin Appending
  BY <1>1 DEF InFlight, Finished, Appending
<1>6. Kept(local[r].block, hdr.len)'
  BY <1>1, <1>3, <1>4, <1>5 DEF Kept, Appending
<1> QED BY <1>1, <1>3, <1>6

LEMMA HandlerStays ==
  ASSUME TypeInv, StayInv, NEW s \in Req, Handler(s)
  PROVE  StayInv'
<1> SUFFICES ASSUME NEW r \in Req \ overlapped'
             PROVE  /\ \A t \in InFlight' : r \in InFlight' => t = r
                    /\ FreshAppend(r)'
                    /\ pc'[r] \in Added \cup {"done"} =>
                         \E p \in 1..hdr'.len : Kept(local[r].block, p)'
  BY DEF StayInv
<1>1. r \notin overlapped /\ \A t \in Req \ {s} : pc'[t] = pc[t] /\ local'[t] = local[t]
  BY HandlerLeaves
<1>2. FreshAppend(r) /\ hdr.len \in Nat
  BY <1>1 DEF StayInv, TypeInv, Memory
<1>3. \A t \in InFlight' : r \in InFlight' => t = r
  BY SoloAlone DEF InFlight
<1>4. FreshAppend(r)'
  <2>1. CASE s = r
    BY <2>1, <1>1, <1>2, FreshStays
  <2>2. CASE s # r
    <3>1. r \notin InFlight'
      BY <2>2, SoloAlone
    <3> QED BY <3>1 DEF FreshAppend, InFlight, Finished, Appending
  <2> QED BY <2>1, <2>2
<1>5. ASSUME NEW p \in 1..hdr.len, NEW b, Kept(b, p)
      PROVE  \E q \in 1..hdr'.len : Kept(b, q)'
  <2>1. Kept(b, p)'
    BY <1>2, <1>5, KeptStays
  <2> QED BY <2>1, <1>2 DEF Kept
<1>6. ASSUME pc'[r] \in Added \cup {"done"}
      PROVE  \E p \in 1..hdr'.len : Kept(local[r].block, p)'
  <2>1. CASE s = r /\ StoreElement(r)
    <3>1. r \in InFlight /\ local'[r].block = local[r].block
      BY <2>1 DEF StoreElement, At, InFlight, Finished
    <3>2. \A t \in Req \ {r} : t \notin InFlight'
      BY <3>1, SoloAlone
    <3> QED BY <2>1, <3>2, <1>2, StoredIsKept
  <2>2. CASE pc[r] \in Added \cup {"done"} /\ local'[r].block = local[r].block
    <3>1. PICK p \in 1..hdr.len : Kept(local[r].block, p)
      BY <2>2, <1>1 DEF StayInv
    <3>2. PICK b : b = local[r].block
      OBVIOUS
    <3>3. PICK q \in 1..hdr'.len : Kept(b, q)'
      BY <3>1, <3>2, <1>5
    <3> QED BY <3>2, <3>3, <2>2 DEF Kept
  <2>3. CASE s # r
    BY <2>2, <2>3, <1>1, <1>6
  <2>4. CASE s = r /\ Around(r)
    <3>1. pc[r] \in Added
      BY <2>4, <1>6, AroundLeaves
    <3>2. local'[r].block = local[r].block
      BY <2>4, <3>1, HandlerLeaves DEF Added
    <3> QED BY <3>1, <3>2, <2>2
  <2>5. CASE s = r /\ (LoadHeader(r) \/ StoreArray(r) \/ StoreLength(r))
    BY <2>5, <1>6 DEF LoadHeader, StoreArray, StoreLength, Go, Added, TypeInv, TypeOK
  <2> QED BY <2>1, <2>3, <2>4, <2>5 DEF Around, Handler
<1> QED BY <1>3, <1>4, <1>6

(***************************************************************************)
(* The block of a request that shared no time with another stays on the    *)
(* chain for good, however many requests overlap each other afterwards and *)
(* whatever of theirs gets lost.                                           *)
(***************************************************************************)
THEOREM SoloBlocksStayCorrect == Spec => []SoloBlocksStay
<1>1. Init => StayInv
  BY DEF Init, StayInv, FreshAppend, InFlight, Appending, Added
<1>2. TypeInv /\ StayInv /\ [Next]_vars => StayInv'
  <2> SUFFICES ASSUME TypeInv, StayInv, [Next]_vars PROVE StayInv'
    OBVIOUS
  <2>1. CASE Get \/ Shutdown \/ UNCHANGED vars
    <3>1. Still
      BY <2>1, OthersStill
    <3> QED BY <3>1 DEF Still, StayInv, FreshAppend, Kept, Holds, InFlight
  <2> QED BY <2>1, HandlerStays DEF Next
<1>3. TypeInv /\ StayInv => SoloBlocksStay
  <2> SUFFICES ASSUME TypeInv, StayInv, NEW r \in Req \ overlapped,
                      pc[r] \in {"respond", "done"}
               PROVE  \E i \in 1..hdr.len : Chain[i] = local[r].block
    BY DEF SoloBlocksStay
  <2>1. PICK p \in 1..hdr.len : Kept(local[r].block, p)
    BY DEF StayInv, Added
  <2>2. Chain[p] = local[r].block
    BY <2>1 DEF Kept, Holds, Chain, Slot
  <2> QED BY <2>2
<1>4. Spec => []TypeInv
  BY InitType, StepType, PTL DEF Spec
<1> QED BY <1>1, <1>2, <1>3, <1>4, PTL DEF Spec
=============================================================================

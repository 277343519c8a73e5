------------------------------- MODULE Server -------------------------------
(***************************************************************************)
(* The API server (cmd/server/main.go): one goroutine per request on the   *)
(* global bc, no lock, and a goroutine that saves and exits on a signal.   *)
(* POST /api/mine is the only request that writes: a transfer never gets   *)
(* as far as AddBlock (see Send in Ledger); GETs read what it is writing.  *)
(*                                                                         *)
(* Memory is modelled as the Go program sees it.  bc.Blocks is a slice     *)
(* header over a backing array; append reads the header, copies to an      *)
(* array of twice the capacity when it is full, and, as gc compiles        *)
(* s = append(s, e), stores the array, then the length, then the element.  *)
(* A header is read in one step.  A nil element read as a block panics;    *)
(* net/http recovers a handler's panic, the signal goroutine has nothing   *)
(* that does.                                                              *)
(***************************************************************************)
EXTENDS Integers, SequencesExt

CONSTANTS
  Req,          \* the POST /api/mine requests
  Seconds,      \* the values time.Now().Unix() can take
  AdjustmentInterval, \* CurrentDifficulty looks this many blocks back
  MaxInFlight,  \* bound: requests to mine being served at a time
  Gets          \* bound: the GET requests asked, of Readers

Readers == {"hash", "list", "stats", "scan", "index"}
ASSUME BoundsAssumption ==
  /\ MaxInFlight \in Nat \ {0} /\ AdjustmentInterval \in Nat \ {0}
  /\ Seconds # {} /\ Gets \subseteq Readers

VARIABLES
  pc,       \* [Req -> where the handler of the request stands]
  local,    \* [Req -> its local variables]
  mem,      \* the backing arrays, in order of allocation
  hdr,      \* bc.Blocks: [arr |-> the array, len |-> the length]
  indexed,  \* the keys of bc.blockIndex; block b has the value b.index
  file,     \* blockchain.dat: what LoadBlockchain makes of it
  sig,      \* where the signal goroutine stands
  made,     \* the length SaveBlockchain allocated its result with
  get,      \* a GET of blocks: where it stands, the length or index it uses, its
            \* answer, and (history) whether no mining shared any of its time
  up,       \* the process is running
  overlapped, \* history: requests that shared some time with another
  quiet       \* history: nothing was in flight from the signal to the exit

vars == <<pc, local, mem, hdr, indexed, file, sig, made, up, overlapped, quiet, get>>

(* An empty slot of an array and no parent: of another shape than a block. *)
Nil == [block |-> "nil"]
NoBlock == [block |-> "none"]

GenesisBlock == [index |-> 0, prev |-> NoBlock, coinbase |-> NoBlock, sec |-> 0]
Unset == [tip |-> Nil, coinbase |-> Nil, prev |-> Nil, block |-> Nil, array |-> 0,
          len |-> 0, response |-> Nil]

NoGet == [at |-> "idle", n |-> 0, answer |-> <<>>, alone |-> TRUE]

(* JSON loads as the blocks it holds; nothing, gob or empty entries do not. *)
Empty == [format |-> "empty", blocks |-> <<>>]
Gob == [format |-> "gob", blocks |-> <<>>]
Padded == [format |-> "padded", blocks |-> <<>>]
Json(chain) == [format |-> "json", blocks |-> chain]

(* Reading slot i of an array; past its capacity is no block either. *)
Slot(a, i) == IF i \in DOMAIN mem[a] THEN mem[a][i] ELSE Nil
LastBlock == Slot(hdr.arr, hdr.len)
Chain == [i \in 1..hdr.len |-> Slot(hdr.arr, i)]

Finished == {"done", "panicked"}
Reading == {"list", "stats", "index"}
InFlight == {r \in Req : pc[r] \notin Finished \cup {"idle"}}
-----------------------------------------------------------------------------
Init ==
  /\ pc = [r \in Req |-> "idle"]
  /\ local = [r \in Req |-> Unset]
  /\ mem = << <<GenesisBlock>> >>
  /\ hdr = [arr |-> 1, len |-> 1]
  /\ indexed = {GenesisBlock}
  /\ file = Empty
  /\ sig = "waiting" /\ made = 0 /\ up = TRUE
  /\ overlapped = {} /\ quiet = TRUE
  /\ get = NoGet

At(r, label) == up /\ pc[r] = label
Go(r, label) == pc' = [pc EXCEPT ![r] = label]

Keep(r, field, value) == local' = [local EXCEPT ![r][field] = value]

(* A request arrives; handleMine reads the tip for the coinbase. *)
ReadTip(r) ==
  /\ At(r, "idle") /\ Cardinality(InFlight) < MaxInFlight
  /\ IF LastBlock = Nil THEN Go(r, "panicked") /\ local' = local
                        ELSE Go(r, "height") /\ Keep(r, "tip", LastBlock)
  /\ overlapped' = overlapped \cup (IF InFlight = {} THEN {} ELSE InFlight \cup {r})
  /\ quiet' = (quiet /\ sig = "waiting")
  /\ get' = IF InFlight = {} THEN [get EXCEPT !.alone = @ /\ get.at \notin Reading]
                               ELSE NoGet
  /\ UNCHANGED <<mem, hdr, indexed, file, sig, made, up>>

(* A mutant: the coinbase gets the same ID at every height. *)
ReadHeightConstant(r) ==
  /\ At(r, "height") /\ Go(r, "mine")
  /\ Keep(r, "coinbase", [index |-> 0, prev |-> NoBlock])
  /\ UNCHANGED <<mem, hdr, indexed, file, sig, made, up, overlapped, quiet, get>>

(* CoinbaseTx: its ID is a hash of the chain length and that tip. *)
ReadHeight(r) ==
  /\ At(r, "height") /\ Go(r, "mine")
  /\ Keep(r, "coinbase", [index |-> hdr.len, prev |-> local[r].tip])
  /\ UNCHANGED <<mem, hdr, indexed, file, sig, made, up, overlapped, quiet, get>>

(* AddBlock reads bc.Blocks for the block before the new one.              *)
AddBlock(r) ==
  /\ At(r, "mine")
  /\ IF LastBlock = Nil THEN Go(r, "panicked") /\ local' = local
                        ELSE Go(r, "difficulty") /\ Keep(r, "prev", LastBlock)
  /\ UNCHANGED <<mem, hdr, indexed, file, sig, made, up, overlapped, quiet, get>>

(* CurrentDifficulty finds an empty slot at an end of its window.          *)
WindowHollow ==
  /\ hdr.len > AdjustmentInterval
  /\ LastBlock = Nil \/ Slot(hdr.arr, hdr.len - AdjustmentInterval + 1) = Nil

(* A mutant: the block gets the index of the block before it.              *)
NewBlockSameIndex(r) ==
  /\ At(r, "difficulty") /\ ~WindowHollow /\ Go(r, "append")
  /\ \E sec \in Seconds :
       Keep(r, "block", [index |-> local[r].prev.index, prev |-> local[r].prev,
                         coinbase |-> local[r].coinbase, sec |-> sec])
  /\ UNCHANGED <<mem, hdr, indexed, file, sig, made, up, overlapped, quiet, get>>

(* It reads bc.Blocks again, for CurrentDifficulty, and NewBlock mines.    *)
NewBlock(r) ==
  /\ At(r, "difficulty")
  /\ IF WindowHollow
     THEN Go(r, "panicked") /\ local' = local
     ELSE /\ Go(r, "append")
          /\ \E sec \in Seconds :
               Keep(r, "block", [index |-> local[r].prev.index + 1, prev |-> local[r].prev,
                                 coinbase |-> local[r].coinbase, sec |-> sec])
  /\ UNCHANGED <<mem, hdr, indexed, file, sig, made, up, overlapped, quiet, get>>

(* A mutant: the copy to a larger array stops one short. *)
LoadHeaderShort(r) ==
  /\ At(r, "append")
  /\ LET full == hdr.len >= Len(mem[hdr.arr])
         copy == [i \in 1..(2 * hdr.len) |-> IF i < hdr.len THEN Slot(hdr.arr, i) ELSE Nil]
     IN  /\ mem' = IF full THEN Append(mem, copy) ELSE mem
         /\ local' = [local EXCEPT ![r].array = IF full THEN Len(mem) + 1 ELSE hdr.arr,
                                   ![r].len = hdr.len + 1]
         /\ Go(r, IF full THEN "array" ELSE "length")
  /\ UNCHANGED <<hdr, indexed, file, sig, made, up, overlapped, quiet, get>>

(* append reads the header; a full array is copied to one twice as large. *)
LoadHeader(r) ==
  /\ At(r, "append")
  /\ LET full == hdr.len >= Len(mem[hdr.arr])
         copy == [i \in 1..(2 * hdr.len) |-> IF i <= hdr.len THEN Slot(hdr.arr, i) ELSE Nil]
     IN  /\ mem' = IF full THEN Append(mem, copy) ELSE mem
         /\ local' = [local EXCEPT ![r].array = IF full THEN Len(mem) + 1 ELSE hdr.arr,
                                   ![r].len = hdr.len + 1]
         /\ Go(r, IF full THEN "array" ELSE "length")
  /\ UNCHANGED <<hdr, indexed, file, sig, made, up, overlapped, quiet, get>>

StoreArray(r) ==
  /\ At(r, "array") /\ Go(r, "length")
  /\ hdr' = [hdr EXCEPT !.arr = local[r].array]
  /\ UNCHANGED <<local, mem, indexed, file, sig, made, up, overlapped, quiet, get>>

StoreLength(r) ==
  /\ At(r, "length") /\ Go(r, "element")
  /\ hdr' = [hdr EXCEPT !.len = local[r].len]
  /\ UNCHANGED <<local, mem, indexed, file, sig, made, up, overlapped, quiet, get>>

StoreElement(r) ==
  /\ At(r, "element") /\ Go(r, "index")
  /\ mem' = [mem EXCEPT ![local[r].array][local[r].len] = local[r].block]
  /\ UNCHANGED <<local, hdr, indexed, file, sig, made, up, overlapped, quiet, get>>

(* A mutant: each waits for the others who want to write the map. *)
IndexBeginAlone(r) ==
  /\ At(r, "index") /\ Go(r, "indexing")
  /\ \A s \in Req \ {r} : pc[s] \notin {"index", "indexing"}
  /\ UNCHANGED <<local, mem, hdr, indexed, file, sig, made, up, overlapped, quiet, get>>

(* updateIndex: two writers inside one map end the process, if detected. *)
IndexBegin(r) ==
  /\ At(r, "index") /\ Go(r, "indexing")
  /\ \/ up' = TRUE
     \/ (\E s \in Req : pc[s] = "indexing") /\ up' = FALSE
  /\ UNCHANGED <<local, mem, hdr, indexed, file, sig, made, overlapped, quiet, get>>

IndexEnd(r) ==
  /\ At(r, "indexing") /\ Go(r, "save")
  /\ indexed' = indexed \cup {local[r].block}
  /\ UNCHANGED <<local, mem, hdr, file, sig, made, up, overlapped, quiet, get>>

(* saveToFile: os.Create truncates the file or fails, then gob writes it. *)
SaveOpen(r) ==
  /\ At(r, "save")
  /\ \/ Go(r, "encode") /\ file' = Empty
     \/ Go(r, "respond") /\ file' = file
  /\ UNCHANGED <<local, mem, hdr, indexed, sig, made, up, overlapped, quiet, get>>

SaveEncode(r) ==
  /\ At(r, "encode") /\ Go(r, "respond")
  /\ file' = Gob
  /\ UNCHANGED <<local, mem, hdr, indexed, sig, made, up, overlapped, quiet, get>>

(* newBlock := bc.LastBlock(), and the response. *)
Respond(r) ==
  /\ At(r, "respond")
  /\ IF LastBlock = Nil THEN Go(r, "panicked") /\ local' = local
                        ELSE Go(r, "done") /\ Keep(r, "response", LastBlock)
  /\ UNCHANGED <<mem, hdr, indexed, file, sig, made, up, overlapped, quiet, get>>

Handler(r) ==
  \/ ReadTip(r) \/ ReadHeight(r) \/ AddBlock(r) \/ NewBlock(r) \/ LoadHeader(r)
  \/ StoreArray(r) \/ StoreLength(r) \/ StoreElement(r) \/ IndexBegin(r) \/ IndexEnd(r)
  \/ SaveOpen(r) \/ SaveEncode(r) \/ Respond(r)
-----------------------------------------------------------------------------
(***************************************************************************)
(* The GET requests: none of them writes anything.  A range over bc.Blocks *)
(* loads the header once.  A balance, the outputs and the statistics are   *)
(* taken as the blocks they are computed from.  Bounds: one of Gets is     *)
(* asked, while no two minings have overlapped; once they do, nothing is   *)
(* claimed of what a GET sees, and ReadTip drops it.                       *)
(***************************************************************************)
Ask(kind) == up /\ kind \in Gets /\ get.at = "idle" /\ overlapped = {}
Begin(at, n) ==
  get' = [at |-> at, n |-> n, answer |-> <<>>, alone |-> InFlight = {}]
Answer(at, blocks) == get' = [get EXCEPT !.at = at, !.answer = blocks]
Hollow == \E i \in 1..hdr.len : Chain[i] = Nil

Unwritten == UNCHANGED <<pc, local, mem, hdr, indexed, file, sig, made, overlapped, quiet>>

(* A look into an index while it is being written ends the process, if the *)
(* runtime notices; a transaction not found there is looked for in a range.*)
LookUp ==
  /\ up /\ \E r \in Req : pc[r] = "indexing"
  /\ up' = FALSE /\ get' = get
  /\ Unwritten

(* GetBlock: the block at the index noted for that hash.                   *)
GetByHash ==
  /\ Ask("hash") /\ up' = up
  /\ \E b \in indexed :
       LET ok == b.index < hdr.len
       IN  get' = [at |-> IF ok THEN "found" ELSE "panicked", n |-> b.index,
                   answer |-> IF ok THEN <<Chain[b.index + 1]>> ELSE <<>>,
                   alone |-> InFlight = {}]
  /\ Unwritten

(* A hash that is not indexed: a range over the blocks up to that one, if  *)
(* it is there; an empty slot met before it panics.                        *)
Meets(b, i) == Chain[i] \in {b, Nil} /\ \A j \in 1..(i - 1) : Chain[j] \notin {b, Nil}
GetByScan ==
  /\ Ask("hash") /\ up' = up
  /\ \E b \in ({Chain[i] : i \in 1..hdr.len} \cup {NoBlock}) \ (indexed \cup {Nil}) :
       \/ \E i \in 1..hdr.len :
            /\ Meets(b, i)
            /\ get' = [at |-> IF Chain[i] = Nil THEN "panicked" ELSE "found", n |-> i - 1,
                       answer |-> <<Chain[i]>>, alone |-> InFlight = {}]
       \/ /\ \A i \in 1..hdr.len : ~Meets(b, i)
          /\ Begin("missing", 0)
  /\ Unwritten

(* GET /api/blocks makes its result as long as the chain is, and fills it. *)
ListBegin == Ask("list") /\ Begin("list", hdr.len) /\ up' = up /\ Unwritten

ListFill ==
  /\ up /\ get.at = "list" /\ up' = up
  /\ IF Hollow \/ hdr.len > get.n THEN Answer("panicked", <<>>) ELSE Answer("listed", Chain)
  /\ Unwritten

(* GET /api/stats: the height, then the tip's difficulty and the work.     *)
StatsBegin == Ask("stats") /\ Begin("stats", hdr.len) /\ up' = up /\ Unwritten
StatsFill ==
  /\ up /\ get.at = "stats" /\ up' = up
  /\ IF Hollow THEN Answer("panicked", <<>>) ELSE Answer("counted", Chain)
  /\ Unwritten

(* GET /api/balance and GET /api/utxo: one range over the blocks.          *)
ScanChain ==
  /\ Ask("scan") /\ up' = up
  /\ get' = [at |-> IF Hollow THEN "panicked" ELSE "counted", n |-> hdr.len,
             answer |-> IF Hollow THEN <<>> ELSE Chain, alone |-> InFlight = {}]
  /\ Unwritten

(* A mutant: the index may equal the length.                               *)
IndexCheckedPast ==
  /\ Ask("index") /\ up' = up
  /\ \E n \in 0..hdr.len : Begin("index", n)
  /\ Unwritten

(* GET /api/blocks/index/{index}: a check of the index, then the element.  *)
IndexChecked ==
  /\ Ask("index") /\ up' = up
  /\ \E n \in 0..(hdr.len - 1) : Begin("index", n)
  /\ Unwritten
IndexRead ==
  /\ up /\ get.at = "index" /\ up' = up
  /\ IF get.n < hdr.len THEN Answer("found", <<Chain[get.n + 1]>>)
                        ELSE Answer("panicked", <<>>)
  /\ Unwritten

Get == LookUp \/ GetByHash \/ GetByScan \/ ListBegin \/ ListFill \/ StatsBegin
       \/ StatsFill \/ ScanChain \/ IndexChecked \/ IndexRead

(* SIGINT or SIGTERM: SaveBlockchain, then os.Exit. *)
Signal ==
  /\ up /\ sig = "waiting"
  /\ sig' = "save" /\ quiet' = (InFlight = {})
  /\ UNCHANGED <<pc, local, mem, hdr, indexed, file, made, up, overlapped, get>>

ShutdownOpen ==
  /\ up /\ sig = "save"
  /\ \/ sig' = "encode" /\ file' = Empty /\ made' = hdr.len
     \/ sig' = "failed" /\ UNCHANGED <<file, made>>
  /\ UNCHANGED <<pc, local, mem, hdr, indexed, up, overlapped, quiet, get>>

(* A mutant: the chain is saved as AddBlock does it. *)
ShutdownEncodeGob ==
  /\ up /\ sig = "encode" /\ sig' = "saved"
  /\ file' = Gob
  /\ UNCHANGED <<pc, local, mem, hdr, indexed, made, up, overlapped, quiet, get>>

(***************************************************************************)
(* blockToJSON of every block, into the slice made before: a block past    *)
(* its end or a nil one panics, a chain that shrank leaves empty entries   *)
(* at the end, which LoadBlockchain refuses.                               *)
(***************************************************************************)
ShutdownEncode ==
  /\ up /\ sig = "encode"
  /\ IF hdr.len > made \/ \E i \in 1..hdr.len : Chain[i] = Nil
     THEN sig' = "panicked" /\ up' = FALSE /\ file' = file
     ELSE /\ sig' = "saved" /\ up' = TRUE
          /\ file' = IF hdr.len < made THEN Padded ELSE Json(Chain)
  /\ UNCHANGED <<pc, local, mem, hdr, indexed, made, overlapped, quiet, get>>

Exit ==
  /\ up /\ sig \in {"saved", "failed"}
  /\ up' = FALSE
  /\ UNCHANGED <<pc, local, mem, hdr, indexed, file, sig, made, overlapped, quiet, get>>

Shutdown == Signal \/ ShutdownOpen \/ ShutdownEncode \/ Exit

Next == Shutdown \/ Get \/ \E r \in Req : Handler(r)

(* The Go scheduler runs every goroutine that can run; a signal need not   *)
(* come, and nothing makes a client send a request.                        *)
Fairness ==
  /\ \A r \in Req : WF_vars(pc[r] # "idle" /\ Handler(r))
  /\ WF_vars(ShutdownOpen \/ ShutdownEncode \/ Exit)

Spec == Init /\ [][Next]_vars /\ Fairness
-----------------------------------------------------------------------------
Locations == {"idle", "height", "mine", "difficulty", "append", "array", "length",
              "element", "index", "indexing", "save", "encode", "respond"} \cup Finished

(* The type of the state, and that array 1 keeps the one block it holds.   *)
TypeOK ==
  /\ pc \in [Req -> Locations]
  /\ hdr.arr \in DOMAIN mem /\ hdr.len \in Nat \ {0}
  /\ \A a \in DOMAIN mem : mem[a][1] = GenesisBlock
  /\ sig \in {"waiting", "save", "encode", "saved", "failed", "panicked"}
  /\ up \in BOOLEAN /\ quiet \in BOOLEAN /\ overlapped \subseteq Req

Linked(chain) ==
  \A i \in 2..Len(chain) :
    chain[i] # Nil /\ chain[i].prev = chain[i - 1] /\ chain[i].index = i - 1

Settled == InFlight = {}

(* The block of a request that shared no time with another stays on the    *)
(* chain: a later append, however stale the header it stores, copies or    *)
(* keeps every block that was there when its own request began.            *)
SoloBlocksStay ==
  \A r \in Req \ overlapped :
    pc[r] \in {"respond", "done"} => \E i \in 1..hdr.len : Chain[i] = local[r].block

(* As long as no two requests were ever served together the chain is       *)
(* linked, GetBlock finds each block where its index says, coinbases have  *)
(* distinct IDs and each response shows the block mined for the request.   *)
NoOverlapNoDamage ==
  overlapped = {} /\ Settled =>
    /\ Linked(Chain)
    /\ \A b \in indexed : b.index < hdr.len /\ Chain[b.index + 1] = b
    /\ \A i, j \in 1..hdr.len : Chain[i].coinbase = Chain[j].coinbase => i = j
    /\ \A r \in Req : /\ pc[r] # "panicked"
                      /\ pc[r] = "done" => local[r].response = local[r].block

(* A shutdown with no request in flight, and none until the exit, leaves   *)
(* a file from which the next start loads the chain as it is.              *)
QuietShutdownSaves == ~up /\ sig = "saved" /\ quiet => file = Json(Chain)

(* As long as no two requests to mine were ever served together, a GET     *)
(* that meets no mining never panics and sees the whole chain, and one     *)
(* that does, at any step of the append, still answers only with linked    *)
(* blocks of the chain, each where its index says, with no empty entry in  *)
(* a list, and never fewer blocks than the height it reports.              *)
ReadsAreSound ==
  overlapped = {} =>
    /\ get.at = "panicked" => ~get.alone
    /\ get.at \in {"listed", "counted"} =>
         /\ Linked(get.answer) /\ IsPrefix(get.answer, Chain)
         /\ Len(get.answer) >= get.n
         /\ get.at = "listed" => Len(get.answer) = get.n
    /\ get.at = "found" /\ get.answer # <<Nil>> => get.answer[1] = Chain[get.n + 1]

(* Every request that is being served is answered, or its handler panics,  *)
(* or the process ends.                                                    *)
EveryRequestEnds ==
  \A r \in Req : pc[r] \notin Finished \cup {"idle"} ~> pc[r] \in Finished \/ ~up
-----------------------------------------------------------------------------
(* "Add block to chain": once a request is answered its block is on it.    *)
AddedBlockOnChain ==
  \A r \in Req : pc[r] = "done" => \E i \in 1..hdr.len : Chain[i] = local[r].block
-----------------------------------------------------------------------------
(***************************************************************************)
(* A block counts from the moment its element is stored.  As long as no    *)
(* two requests shared any time, each step, those of append, of the saves  *)
(* and of a shutdown included, is one LongestChain allows or changes       *)
(* nothing of the stored chain.                                            *)
(***************************************************************************)
Committed ==
  LET stored == {n \in 1..hdr.len : \A i \in 1..n : Chain[i] # Nil}
  IN  SubSeq(Chain, 1, Max(stored))

LC == INSTANCE LongestChain WITH chain <- Committed, First <- <<GenesisBlock>>,
                                 Valid <- Linked
SoloIsLongestChain ==
  LC!Init /\ [][overlapped' = {} => LC!Advance \/ Committed' = Committed]_vars
=============================================================================
